----------------------------- MODULE PoolProofs -----------------------------
(***************************************************************************)
(* Proofs about the pools: the LitePSM with its binary search, for every   *)
(* conversion factor, fee, word size and starting inventory; and a pool of *)
(* any family, for every source, window and answer.                        *)
(*                                                                         *)
(* TypeOK and Conserved are not inductive: that a draw stays within the    *)
(* trader's balance and within uint256 rests on the loop's invariant, that *)
(* low is affordable and that nothing above high is.                       *)
(*                                                                         *)
(* That swaps gain nothing (NoGainButAtCurve) rests on what a balance and  *)
(* the liquidity up to the price are worth together in either token: no    *)
(* turn of a swap raises that, and what the liquidity is worth rises and   *)
(* falls with the price, in one token as in the other.                     *)
(***************************************************************************)
EXTENDS MCPools, Sequences, FiniteSetTheorems, WellFoundedInduction, TLAPS

SearchInv ==
    pc = "search" =>
        /\ psm.tout # Halted
        /\ daiIn <= dai
        /\ Affordable(psm, daiIn, low)
        /\ \A g \in Nat : Affordable(psm, daiIn, g) => g <= high

Inv == TypeOK /\ Conserved /\ SearchInv

USE LitePsmAssumption, LitePsmTradesAssumption
-----------------------------------------------------------------------------
(* Arithmetic                                                              *)

\* A larger dividend has no smaller quotient.
LEMMA DivMonotone ==
    ASSUME NEW x \in Nat, NEW y \in Nat, NEW d \in Nat \ {0}, x <= y
    PROVE  x \div d \in Nat /\ y \div d \in Nat /\ x \div d <= y \div d
  OBVIOUS

LEMMA MulNat ==
    ASSUME NEW a \in Nat, NEW b \in Nat
    PROVE  a * b \in Nat
  OBVIOUS

LEMMA MulMonotone ==
    ASSUME NEW a \in Nat, NEW b \in Nat, NEW c \in Nat, a <= b
    PROVE  a * c \in Nat /\ b * c \in Nat /\ a * c <= b * c
  OBVIOUS

LEMMA SumAtMost ==
    ASSUME NEW d \in Nat, NEW x \in Nat, NEW y \in Nat, NEW z \in Nat,
           NEW w \in 0 .. y, x + y = z
    PROVE  (d + w) + x <= d + z
  OBVIOUS

\* A fee is a natural number, and more is charged on more.
LEMMA FeeMonotone ==
    ASSUME NEW x \in Nat, NEW y \in Nat, NEW r \in Nat, x <= y
    PROVE  Fee(x, r) \in Nat /\ Fee(y, r) \in Nat /\ Fee(x, r) <= Fee(y, r)
  <1>1. x * r \in Nat /\ y * r \in Nat /\ x * r <= y * r
    BY MulMonotone
  <1> QED  BY <1>1, DivMonotone DEF Fee

\* A rate of at most one charges at most the whole.
LEMMA FeeAtMost ==
    ASSUME NEW x \in Nat, NEW r \in 0 .. Wad
    PROVE  Fee(x, r) \in 0 .. x
  <1>1. x * r \in Nat /\ x * Wad \in Nat /\ x * r <= x * Wad
    <2>1. r * x <= Wad * x  BY MulMonotone
    <2> QED  BY <2>1
  <1>2. (x * Wad) \div Wad = x
    OBVIOUS
  <1>3. (x * r) \div Wad <= (x * Wad) \div Wad /\ (x * r) \div Wad \in Nat
    BY <1>1, DivMonotone
  <1> QED  BY <1>2, <1>3 DEF Fee

\* Prices rise with the amount, and what can be afforded is an interval.
LEMMA AffordableDown ==
    ASSUME NEW s \in Psms, s.tout # Halted, NEW d \in Nat,
           NEW g \in Nat, NEW h \in Nat, h <= g, Affordable(s, d, g)
    PROVE  Affordable(s, d, h)
  <1>1. s.tout \in Nat
    BY DEF Psms, Fees
  <1>2. h * Factor \in Nat /\ g * Factor \in Nat /\ h * Factor <= g * Factor
    BY MulMonotone
  <1>3. (h * Factor) * s.tout \in Nat /\ (g * Factor) * s.tout \in Nat
        /\ (h * Factor) * s.tout <= (g * Factor) * s.tout
    BY <1>1, <1>2, MulMonotone
  <1>4. /\ Fee(h * Factor, s.tout) \in Nat /\ Fee(g * Factor, s.tout) \in Nat
        /\ Fee(h * Factor, s.tout) <= Fee(g * Factor, s.tout)
    BY <1>1, <1>2, FeeMonotone
  <1> QED  BY <1>2, <1>3, <1>4 DEF Affordable, RequiredFits, FeeFits, RequiredDai

\* Each unit costs at least Factor: a dearer amount cannot cost the same.
LEMMA PriceStrict ==
    ASSUME NEW s \in Psms, s.tout # Halted, NEW g \in Nat, NEW h \in Nat, h < g
    PROVE  /\ RequiredDai(s, g) \in Nat /\ RequiredDai(s, h) \in Nat
           /\ RequiredDai(s, h) < RequiredDai(s, g)
  <1>1. s.tout \in Nat
    BY DEF Psms, Fees
  <1>2. /\ h * Factor \in Nat /\ g * Factor \in Nat
        /\ h * Factor < g * Factor /\ h * Factor <= g * Factor
    <2>1. (h + 1) * Factor <= g * Factor
      BY MulMonotone
    <2>2. (h + 1) * Factor = h * Factor + Factor
      OBVIOUS
    <2> QED  BY <2>1, <2>2
  <1>3. /\ Fee(h * Factor, s.tout) \in Nat /\ Fee(g * Factor, s.tout) \in Nat
        /\ Fee(h * Factor, s.tout) <= Fee(g * Factor, s.tout)
    BY <1>1, <1>2, FeeMonotone
  <1> QED  BY <1>2, <1>3 DEF RequiredDai

\* An affordable amount is at most daiIn \div Factor, the code's upper bound.
LEMMA UpperBound ==
    ASSUME NEW s \in Psms, s.tout # Halted, NEW d \in Nat,
           NEW g \in Nat, Affordable(s, d, g)
    PROVE  g <= d \div Factor
  <1>1. s.tout \in Nat
    BY DEF Psms, Fees
  <1>2. g * Factor \in Nat /\ g * Factor <= g * Factor
    OBVIOUS
  <1>3. Fee(g * Factor, s.tout) \in Nat
    BY <1>1, <1>2, FeeMonotone
  <1>4. g * Factor <= d
    BY <1>2, <1>3 DEF Affordable, RequiredDai
  <1>5. (g * Factor) \div Factor <= d \div Factor
    BY <1>2, <1>4, DivMonotone
  <1>6. (g * Factor) \div Factor = g
    OBVIOUS
  <1> QED  BY <1>5, <1>6

\* Nothing costs nothing.
LEMMA ZeroAffordable ==
    ASSUME NEW s \in Psms, s.tout # Halted, NEW d \in Nat
    PROVE  Affordable(s, d, 0)
  <1>1. s.tout \in Nat
    BY DEF Psms, Fees
  <1>2. 0 * Factor = 0 /\ 0 * s.tout = 0
    BY <1>1
  <1>3. 0 \div Wad = 0
    OBVIOUS
  <1> QED  BY <1>2, <1>3 DEF Affordable, RequiredFits, FeeFits, RequiredDai, Fee
-----------------------------------------------------------------------------
(* The invariant                                                           *)

LEMMA InitInv == Init => Inv
  BY DEF Init, Inv, TypeOK, Conserved, SearchInv, AtRest, Uint

\* What a sale that goes through does to the inventories.
LEMMA SaleTyped ==
    ASSUME NEW s \in Psms, NEW g \in Nat, SellGem(s, g).ok
    PROVE  /\ SellGem(s, g).out = SellDai(s, g)
           /\ SellGem(s, g).next \in Psms
           /\ SellGem(s, g).next.daiBuffer = s.daiBuffer - SellDai(s, g)
           /\ SellGem(s, g).next.pocketGem = s.pocketGem + g
           /\ SellGem(s, g).next.tout = s.tout
           /\ SellDai(s, g) \in 0 .. g * Factor
           /\ SellDai(s, g) <= s.daiBuffer
           /\ s.pocketGem + g <= MaxUint
  <1>1. /\ s.tin # Halted
        /\ SellDai(s, g) <= s.daiBuffer
        /\ s.pocketGem + g <= MaxUint
        /\ SellGem(s, g) = [ok |-> TRUE, out |-> SellDai(s, g),
                            next |-> [s EXCEPT !.daiBuffer = @ - SellDai(s, g),
                                               !.pocketGem = @ + g]]
    BY DEF SellGem, Unsupported
  <1>2. s.tin \in 0 .. Wad
    BY <1>1 DEF Psms, Fees
  <1>3. g * Factor \in Nat
    OBVIOUS
  <1>4. Fee(g * Factor, s.tin) \in 0 .. g * Factor
    BY <1>2, <1>3, FeeAtMost
  <1>5. SellDai(s, g) \in 0 .. g * Factor
    BY <1>3, <1>4 DEF SellDai
  <1>6. s.daiBuffer - SellDai(s, g) \in Uint /\ s.pocketGem + g \in Uint
    BY <1>1, <1>3, <1>5 DEF Psms, Uint
  <1>7. /\ SellGem(s, g).out = SellDai(s, g)
        /\ SellGem(s, g).next = [s EXCEPT !.daiBuffer = @ - SellDai(s, g),
                                         !.pocketGem = @ + g]
    BY <1>1
  <1>8. /\ SellGem(s, g).next \in Psms
        /\ SellGem(s, g).next.daiBuffer = s.daiBuffer - SellDai(s, g)
        /\ SellGem(s, g).next.pocketGem = s.pocketGem + g
        /\ SellGem(s, g).next.tout = s.tout
    BY <1>6, <1>7 DEF Psms
  <1> QED  BY <1>1, <1>5, <1>7, <1>8

LEMMA SellInv ==
    ASSUME Inv, NEW amount \in 0 .. gem, Sell(amount)
    PROVE  Inv' /\ dai' + Factor * gem' <= dai + Factor * gem
  <1> DEFINE outcome == SellGem(psm, amount)
  <1>1. amount \in Nat /\ psm \in Psms /\ dai \in Nat /\ gem \in Nat
    BY DEF Inv, TypeOK, Uint
  <1>2. CASE outcome.ok
    <2>1. /\ psm' = outcome.next /\ gem' = gem - amount
          /\ dai' = dai + SellDai(psm, amount) /\ pc' = "swapped"
      BY <1>1, <1>2, SaleTyped DEF Sell
    <2>2. /\ psm' \in Psms
          /\ psm'.daiBuffer = psm.daiBuffer - SellDai(psm, amount)
          /\ psm'.pocketGem = psm.pocketGem + amount
          /\ SellDai(psm, amount) \in 0 .. amount * Factor
          /\ SellDai(psm, amount) <= psm.daiBuffer
      BY <1>1, <1>2, <2>1, SaleTyped
    <2>3. Conserved'
      BY <1>1, <2>1, <2>2 DEF Inv, Conserved, Psms, Uint
    <2>4. dai' \in Uint /\ gem' \in Uint
      BY <1>1, <2>1, <2>2, <2>3 DEF Conserved, Psms, Uint
    <2>5. TypeOK' /\ SearchInv'
      BY <2>1, <2>2, <2>4 DEF Inv, TypeOK, SearchInv, Sell, AtRest
    <2>6. Factor * gem' + Factor * amount = Factor * gem
      BY <1>1, <2>1
    <2>7. Factor * gem \in Nat /\ Factor * amount = amount * Factor
      BY <1>1
    <2>8. gem' \in Nat
      BY <2>4 DEF Uint
    <2>9. Factor * gem' \in Nat
      BY <2>8, MulNat
    <2>10. dai' + Factor * gem' <= dai + Factor * gem
      <3>1. Factor * amount \in Nat
        BY <1>1
      <3>2. SellDai(psm, amount) \in 0 .. Factor * amount
        BY <2>2, <2>7
      <3>3. dai' = dai + SellDai(psm, amount)
        BY <2>1
      <3>4. (dai + SellDai(psm, amount)) + Factor * gem' <= dai + Factor * gem
        BY <1>1, <2>6, <2>7, <2>9, <3>1, <3>2, SumAtMost
      <3> QED  BY <3>3, <3>4
    <2> QED  BY <2>3, <2>5, <2>10 DEF Inv
  <1>3. CASE ~outcome.ok
    <2>1. UNCHANGED <<psm, dai, gem, daiIn, low, high>> /\ pc' = "refused"
      BY <1>3 DEF Sell
    <2>2. Inv'
      BY <2>1 DEF Inv, TypeOK, Conserved, SearchInv, AtRest
    <2>3. Factor * gem \in Nat
      BY <1>1
    <2> QED  BY <1>1, <2>1, <2>2, <2>3
  <1> QED  BY <1>2, <1>3

LEMMA BuyInv ==
    ASSUME Inv, NEW amount \in 0 .. dai, Buy(amount)
    PROVE  Inv'
  <1>1. amount \in Nat /\ psm \in Psms /\ psm.tout # Halted /\ amount \in Uint
    BY DEF Inv, TypeOK, Buy, Uint
  <1>2. amount \div Factor \in 0 .. amount
    <2>1. amount \div Factor \in Nat /\ amount \div 1 = amount
      BY <1>1
    <2>2. (amount \div Factor) * 1 <= (amount \div Factor) * Factor
      BY <2>1
    <2>3. (amount \div Factor) * Factor <= amount
      BY <1>1
    <2> QED  BY <1>1, <2>1, <2>2, <2>3
  <1>3. Affordable(psm, amount, 0)
    BY <1>1, ZeroAffordable
  <1>4. \A g \in Nat : Affordable(psm, amount, g) => g <= amount \div Factor
    BY <1>1, UpperBound
  <1>5. TypeOK' /\ Conserved'
    BY <1>1, <1>2 DEF Inv, TypeOK, Conserved, Buy, Uint
  <1>6. SearchInv'
    BY <1>1, <1>3, <1>4 DEF SearchInv, Buy, Affordable, RequiredFits, RequiredDai
  <1> QED  BY <1>5, <1>6 DEF Inv

LEMMA NarrowInv ==
    ASSUME Inv, Narrow
    PROVE  Inv'
  <1>1. /\ pc = "search" /\ low < high /\ low \in Nat /\ high \in Nat /\ high <= MaxUint
        /\ psm \in Psms /\ psm.tout # Halted /\ daiIn \in Nat
    BY DEF Inv, TypeOK, SearchInv, Narrow, Uint
  <1>2. Middle \in low + 1 .. high
    BY <1>1 DEF Middle
  <1>3. CASE Affordable(psm, daiIn, Middle)
    <2>1. low' = Middle /\ UNCHANGED <<high, psm, dai, gem, pc, daiIn>>
      BY <1>3 DEF Narrow
    <2>2. TypeOK' /\ Conserved'
      BY <1>1, <1>2, <2>1 DEF Inv, TypeOK, Conserved
    <2>3. SearchInv'
      BY <1>3, <2>1 DEF Inv, SearchInv, Affordable, RequiredFits, RequiredDai
    <2> QED  BY <2>2, <2>3 DEF Inv
  <1>4. CASE ~Affordable(psm, daiIn, Middle)
    <2>1. high' = Middle - 1 /\ UNCHANGED <<low, psm, dai, gem, pc, daiIn>>
      BY <1>4 DEF Narrow
    <2>2. TypeOK' /\ Conserved'
      BY <1>1, <1>2, <2>1 DEF Inv, TypeOK, Conserved, Uint
    <2>3. ASSUME NEW g \in Nat, Affordable(psm, daiIn, g)
          PROVE  g <= Middle - 1
      <3>1. Middle \in Nat
        BY <1>1, <1>2
      <3>2. ~(Middle <= g)
        BY <1>1, <1>4, <2>3, <3>1, AffordableDown
      <3> QED  BY <3>1, <3>2
    <2>4. SearchInv'
      BY <1>1, <2>1, <2>3 DEF Inv, SearchInv, Affordable, RequiredFits, RequiredDai
    <2> QED  BY <2>2, <2>4 DEF Inv
  <1> QED  BY <1>3, <1>4

LEMMA SettleInv ==
    ASSUME Inv, Settle
    PROVE  Inv' /\ dai' + Factor * gem' <= dai + Factor * gem
  <1>1. /\ pc = "search" /\ low = high /\ low \in Nat /\ psm \in Psms
        /\ psm.tout # Halted /\ daiIn \in Nat /\ daiIn <= dai
        /\ dai \in Nat /\ gem \in Nat
    BY DEF Inv, TypeOK, SearchInv, Settle, Uint
  <1>2. CASE BuySettles(psm, daiIn, low)
    <2>1. /\ psm' = AfterBuy(psm, daiIn, low) /\ dai' = dai - daiIn
          /\ gem' = gem + low /\ pc' = "swapped"
          /\ daiIn' = 0 /\ low' = 0 /\ high' = 0
      BY <1>2 DEF Settle
    <2>2. /\ RequiredDai(psm, low) = daiIn /\ low <= psm.pocketGem
          /\ low <= psm.allowance /\ psm.daiBuffer + daiIn <= MaxUint
      BY <1>2 DEF BuySettles
    <2>3. /\ psm' \in Psms
          /\ psm'.daiBuffer = psm.daiBuffer + daiIn
          /\ psm'.pocketGem = psm.pocketGem - low
      <3>1. /\ psm.daiBuffer + daiIn \in Uint
            /\ psm.pocketGem - low \in Uint
            /\ psm.allowance - low \in Uint
        BY <1>1, <2>2 DEF Psms, Uint
      <3> QED  BY <1>1, <2>1, <3>1 DEF AfterBuy, Psms
    <2>4. Conserved'
      BY <1>1, <2>1, <2>3 DEF Inv, Conserved, Psms, Uint
    <2>5. dai' \in Uint /\ gem' \in Uint
      BY <1>1, <2>1, <2>3, <2>4 DEF Conserved, Psms, Uint
    <2>6. TypeOK' /\ SearchInv'
      BY <1>1, <2>1, <2>3, <2>5 DEF TypeOK, SearchInv, AtRest, Uint
    <2>7. low * Factor <= daiIn
      <3>1. low * Factor \in Nat /\ low * Factor <= low * Factor
        BY <1>1
      <3>2. psm.tout \in Nat
        BY <1>1 DEF Psms, Fees
      <3>3. Fee(low * Factor, psm.tout) \in Nat
        BY <3>1, <3>2, FeeMonotone
      <3> QED  BY <2>2, <3>1, <3>3 DEF RequiredDai
    <2>8. Factor * gem' = Factor * gem + low * Factor
      BY <1>1, <2>1
    <2>9. Factor * gem \in Nat /\ low * Factor \in Nat
      BY <1>1
    <2> QED  BY <1>1, <2>1, <2>4, <2>6, <2>7, <2>8, <2>9 DEF Inv
  <1>3. CASE ~BuySettles(psm, daiIn, low)
    <2>1. /\ UNCHANGED <<psm, dai, gem>> /\ pc' = "refused"
          /\ daiIn' = 0 /\ low' = 0 /\ high' = 0
      BY <1>3 DEF Settle
    <2>2. Inv'
      BY <2>1 DEF Inv, TypeOK, Conserved, SearchInv, AtRest, Uint
    <2>3. Factor * gem \in Nat
      BY <1>1
    <2> QED  BY <1>1, <2>1, <2>2, <2>3
  <1> QED  BY <1>2, <1>3

LEMMA NextInv == Inv /\ [Next]_vars => Inv'
  <1> SUFFICES ASSUME Inv, [Next]_vars PROVE Inv'
    OBVIOUS
  <1>1. ASSUME NEW amount \in 0 .. gem, Sell(amount) PROVE Inv'
    BY <1>1, SellInv
  <1>2. ASSUME NEW amount \in 0 .. dai, Buy(amount) PROVE Inv'
    BY <1>2, BuyInv
  <1>3. ASSUME BuyHalted PROVE Inv'
    BY <1>3 DEF BuyHalted, Inv, TypeOK, Conserved, SearchInv, AtRest
  <1>4. ASSUME Narrow PROVE Inv'
    BY <1>4, NarrowInv
  <1>5. ASSUME Settle PROVE Inv'
    BY <1>5, SettleInv
  <1>6. ASSUME UNCHANGED vars PROVE Inv'
    BY <1>6 DEF vars, Inv, TypeOK, Conserved, SearchInv, Affordable, RequiredFits, RequiredDai
  <1> QED  BY <1>1, <1>2, <1>3, <1>4, <1>5, <1>6 DEF Next, Search
-----------------------------------------------------------------------------
\* Types, the conservation of both tokens and the invariant of the search.
THEOREM Inductive == Spec => []Inv
  BY InitInv, NextInv, PTL DEF Spec

\* Balances, inventories and the allowance stay within uint256: no swap drives
\* one below zero or above the word, whatever the fees and the sequence.
THEOREM TypeCorrect == Spec => []TypeOK
  <1>1. Inv => TypeOK
    BY DEF Inv
  <1> QED  BY <1>1, Inductive, PTL

\* No swap creates or loses DAI or gem, refused ones included.
THEOREM SwapsConserve == Spec => []Conserved
  <1>1. Inv => Conserved
    BY DEF Inv
  <1> QED  BY <1>1, Inductive, PTL

\* The binary search of _buy_gem_exact_input ends on the largest amount of gem
\* that the input pays for, for every factor, fee and word size.
THEOREM SearchIsRight == Spec => []SearchFindsLargest
  <1>1. Inv => SearchFindsLargest
    <2> SUFFICES ASSUME Inv, pc = "search", low = high, NEW g \in Uint
                 PROVE  Affordable(psm, daiIn, g) <=> g <= low
      BY DEF SearchFindsLargest
    <2>1. /\ psm \in Psms /\ psm.tout # Halted /\ daiIn \in Nat /\ g \in Nat /\ low \in Nat
          /\ Affordable(psm, daiIn, low)
          /\ Affordable(psm, daiIn, g) => g <= high
      BY DEF Inv, TypeOK, SearchInv, Uint
    <2>2. ASSUME g <= low PROVE Affordable(psm, daiIn, g)
      BY <2>1, <2>2, AffordableDown
    <2> QED  BY <2>1, <2>2
  <1> QED  BY <1>1, Inductive, PTL

\* The search settles exactly the buys that BuyGem specifies.
THEOREM SearchImplementsBuyGem == Spec => SearchSettlesPreimage
  <1>1. ASSUME Inv, [Next]_vars, pc = "search", pc' # "search"
        PROVE  LET outcome == BuyGem(psm, daiIn) IN
               IF outcome.ok
                 THEN pc' = "swapped" /\ psm' = outcome.next /\ gem' = gem + outcome.out
                 ELSE pc' = "refused" /\ psm' = psm /\ gem' = gem
    <2>1. Settle
      BY <1>1 DEF Next, Search, Sell, Buy, BuyHalted, Narrow, AtRest, vars
    <2>2. /\ low = high /\ low \in Nat /\ low \in Uint /\ psm \in Psms /\ psm.tout # Halted
          /\ daiIn \in Nat /\ Affordable(psm, daiIn, low)
          /\ \A g \in Nat : Affordable(psm, daiIn, g) => g <= low
      BY <1>1, <2>1 DEF Inv, TypeOK, SearchInv, Settle, Uint
    <2>3. ASSUME NEW g \in Preimage(psm, daiIn) PROVE g = low
      <3>1. /\ g \in Nat /\ RequiredFits(psm, g) /\ RequiredDai(psm, g) = daiIn
        BY <2>3 DEF Preimage, BuySettles, Uint
      <3>2. g <= low
        BY <2>2, <3>1 DEF Affordable
      <3>3. ~(g < low)
        BY <2>2, <3>1, PriceStrict DEF Affordable
      <3> QED  BY <2>2, <3>1, <3>2, <3>3
    <2>4. low \in Preimage(psm, daiIn) <=> BuySettles(psm, daiIn, low)
      BY <2>2 DEF Preimage, Affordable
    <2>5. CASE BuySettles(psm, daiIn, low)
      <3>1. Preimage(psm, daiIn) = {low}
        BY <2>3, <2>4, <2>5
      <3>2. (CHOOSE g \in Preimage(psm, daiIn) : TRUE) = low
        BY <3>1
      <3>3. BuyGem(psm, daiIn) = [ok |-> TRUE, out |-> low,
                                  next |-> AfterBuy(psm, daiIn, low)]
        BY <2>2, <3>1, <3>2 DEF BuyGem
      <3> QED  BY <2>1, <2>5, <3>3 DEF Settle
    <2>6. CASE ~BuySettles(psm, daiIn, low)
      <3>1. Preimage(psm, daiIn) = {}
        BY <2>3, <2>4, <2>6
      <3>2. ~BuyGem(psm, daiIn).ok
        BY <3>1 DEF BuyGem, Unsupported
      <3> QED  BY <2>1, <2>6, <3>2 DEF Settle
    <2> QED  BY <2>5, <2>6
  <1> QED  BY <1>1, Inductive, PTL DEF Spec, SearchSettlesPreimage

\* No sequence of swaps enriches the trader.
THEOREM NoGain == Spec => TraderNeverGains
  <1>1. ASSUME Inv, [Next]_vars
        PROVE  dai' + Factor * gem' <= dai + Factor * gem
    <2>1. dai \in Nat /\ gem \in Nat /\ Factor * gem \in Nat
      BY <1>1 DEF Inv, TypeOK, Uint
    <2>2. ASSUME UNCHANGED <<dai, gem>> PROVE dai' + Factor * gem' <= dai + Factor * gem
      BY <2>1, <2>2
    <2>3. CASE \E amount \in 0 .. gem : Sell(amount)
      BY <1>1, <2>3, SellInv
    <2>4. CASE \E amount \in 0 .. dai : Buy(amount)
      BY <2>2, <2>4 DEF Buy
    <2>5. CASE BuyHalted \/ Narrow
      BY <2>2, <2>5 DEF BuyHalted, Narrow
    <2>6. CASE Settle
      BY <1>1, <2>6, SettleInv
    <2>7. CASE UNCHANGED vars
      BY <2>2, <2>7 DEF vars
    <2> QED  BY <1>1, <2>3, <2>4, <2>5, <2>6, <2>7 DEF Next, Search
  <1> QED  BY <1>1, Inductive, PTL DEF Spec, TraderNeverGains
-----------------------------------------------------------------------------
(* A pool of any family, from its first call to its last swap.             *)

USE PoolsAssumption

\* A step of the LitePSM leaves the pool alone.
LEMMA PoolSteps ==
    ASSUME [PoolsNext]_<<vars, poolVars, trading>>
    PROVE  Pool!Next \/ UNCHANGED poolVars
  BY DEF PoolsNext

\* A quotient is a natural number, and no more than what it is multiplied back to.
LEMMA QuotientTimes ==
    ASSUME NEW a \in Nat, NEW d \in Nat \ {0}
    PROVE  /\ a \div d \in Nat
           /\ (a \div d) * d \in Nat
           /\ (a \div d) * d <= a
  OBVIOUS

\* What is worth no more than n times d is n at most.
LEMMA QuotientAtMost ==
    ASSUME NEW a \in Nat, NEW n \in Nat, NEW d \in Nat \ {0}, a <= n * d
    PROVE  a \div d <= n
<1>1. n * d \in Nat /\ (n * d) \div d = n
  OBVIOUS
<1> QED
  BY <1>1, DivMonotone

\* Shares that are taken out and back in are no more than before: both steps round down.
LEMMA RoundTrip ==
    ASSUME NEW a \in Nat, NEW pooled \in Nat \ {0}, NEW shares \in Nat \ {0}
    PROVE  LET ether == (a * pooled) \div shares
               back == (ether * shares) \div pooled IN
           ether \in Nat /\ back \in Nat /\ back <= a
<1> DEFINE ether == (a * pooled) \div shares
           back == (ether * shares) \div pooled
<1>1. a * pooled \in Nat
  BY MulNat
<1>2. ether \in Nat /\ ether * shares \in Nat /\ ether * shares <= a * pooled
  BY <1>1, QuotientTimes
<1> HIDE DEF ether
<1>3. back \in Nat /\ back <= a
  BY <1>2, QuotientTimes, QuotientAtMost
<1> QED
  BY <1>2, <1>3 DEF ether

\* What a wrapper and an ARM look like once loaded, and what they owe.
LidoClaim ==
    /\ pool \in Pool!LidoPools
    /\ pool.pooled # 0 /\ pool.shares # 0
    /\ pool.backing - pool.supply >= source.backing - source.supply

ArmClaim ==
    /\ pool \in Pool!ArmPools
    /\ pool.pooled # 0 /\ pool.shares # 0 /\ pool.claimed <= pool.queued
    /\ pool.weth >= Pool!Lower(source.weth, Pool!Owed(pool))

ClaimInv ==
    /\ source \in Sources
    /\ phase = "loaded" /\ source.family = "lido" => LidoClaim
    /\ phase = "loaded" /\ source.family = "arm" => ArmClaim

LEMMA SourceFacts ==
    ASSUME source \in Sources
    PROVE  /\ source.family = "lido" => source \in Pool!LidoPools
           /\ source.family = "arm" => source \in Pool!ArmPools
           /\ Amounts[source.family] \subseteq Nat
           /\ PriceScale \in Nat \ {0}
  BY DEF Pool!PoolTradesAssumption

\* A pool of another family than the tick pools is loaded as it is.
LEMMA FixedLoaded ==
    ASSUME Pool!Load, phase' = "loaded", source.family # "tick"
    PROVE  /\ pool' = source /\ source' = source
           /\ source.family \notin Pool!Named => Pool!ValuesLoad(source)
<1>1. Pool!LoadState = Pool!FixedLoad
  BY DEF Pool!LoadState, Pool!IsTick
<1>2. Pool!FixedLoad.ok
  BY <1>1 DEF Pool!Load
<1> DEFINE loads == CASE source.family = "psm" -> Pool!PsmLoads
                      [] source.family = "wrapper" -> Pool!WrapperLoads
                      [] source.family = "converter" -> Pool!ConverterLoads
                      [] OTHER -> Pool!ValuesLoad(source)
           known == source.identity /\ Pool!FixedReads \subseteq got.ok
<1>3. Pool!FixedLoad = IF known /\ loads THEN [ok |-> TRUE, state |-> source] ELSE Pool!Refusal
  BY DEF Pool!FixedLoad
<1>4. source.family \notin Pool!Named /\ loads => Pool!ValuesLoad(source)
  BY DEF Pool!Named
<1> HIDE DEF loads, known
<1>5. ~Pool!Refusal.ok
  BY DEF Pool!Refusal
<1>6. loads /\ Pool!FixedLoad = [ok |-> TRUE, state |-> source]
  BY <1>2, <1>3, <1>5
<1>7. Pool!FixedLoad.state = source
  BY <1>6
<1> QED
  BY <1>1, <1>4, <1>6, <1>7 DEF Pool!Load

LEMMA ClaimLoads ==
    ASSUME ClaimInv, Pool!Load
    PROVE  ClaimInv'
<1>1. source' = source /\ source \in Sources
  BY DEF ClaimInv, Pool!Load
<1>2. ASSUME phase' = "loaded", source.family = "lido" PROVE LidoClaim'
  <2>1. pool' = source /\ Pool!LidoLoads(source) /\ source \in Pool!LidoPools
    BY <1>1, <1>2, FixedLoaded, SourceFacts DEF Pool!ValuesLoad, Pool!Named
  <2>2. source.backing - source.supply >= source.backing - source.supply
    BY <2>1 DEF Pool!LidoPools
  <2> QED
    BY <1>1, <2>1, <2>2 DEF LidoClaim, Pool!LidoLoads
<1>3. ASSUME phase' = "loaded", source.family = "arm" PROVE ArmClaim'
  <2>1. pool' = source /\ Pool!ArmLoads(source) /\ source \in Pool!ArmPools
    BY <1>1, <1>3, FixedLoaded, SourceFacts DEF Pool!ValuesLoad, Pool!Named
  <2>2. source.weth >= Pool!Lower(source.weth, Pool!Owed(source))
    BY <2>1 DEF Pool!ArmPools, Pool!Lower, Pool!Owed
  <2>3. Pool!Owed(pool)' = Pool!Owed(source)
    BY <2>1 DEF Pool!Owed
  <2> QED
    BY <1>1, <2>1, <2>2, <2>3 DEF ArmClaim, Pool!ArmLoads
<1> QED
  BY <1>1, <1>2, <1>3 DEF ClaimInv

\* Wrapping mints as many shares as it brings; unwrapping moves no more shares than the
\* wstETH it burns.
LEMMA LidoCovers ==
    ASSUME NEW p \in Pool!LidoPools, p.pooled # 0, p.shares # 0,
           NEW i \in 1 .. 3, NEW amount \in Nat, Pool!LidoSwap(p, i, amount).ok
    PROVE  LET next == Pool!LidoSwap(p, i, amount).next IN
           /\ next \in Pool!LidoPools
           /\ next.pooled = p.pooled /\ next.shares = p.shares
           /\ next.backing - next.supply >= p.backing - p.supply
<1>1. p.pooled \in Nat \ {0} /\ p.shares \in Nat \ {0} /\ p.supply \in Nat /\ p.backing \in Nat
  BY DEF Pool!LidoPools
<1> DEFINE minted == Pool!SharesOf(p, amount)
           ether == Pool!EtherOf(p, amount)
           moved == Pool!SharesOf(p, ether)
<1>2. minted \in Nat
  BY <1>1, MulNat, QuotientTimes DEF Pool!SharesOf
<1>3. moved \in Nat /\ moved <= amount
  BY <1>1, RoundTrip DEF Pool!SharesOf, Pool!EtherOf
<1> HIDE DEF moved
<1>4. CASE i = 1
  <2> DEFINE next == [p EXCEPT !.supply = @ + minted, !.backing = @ + minted]
  <2>1. Pool!LidoSwap(p, i, amount).next = next
    BY <1>4 DEF Pool!LidoSwap, Pool!Wrap, Pool!Filled, Pool!Refuse
  <2> HIDE DEF minted
  <2>2. p.supply + minted \in Nat /\ p.backing + minted \in Nat
    BY <1>1, <1>2
  <2>3. next \in Pool!LidoPools /\ next.pooled = p.pooled /\ next.shares = p.shares
        /\ next.supply = p.supply + minted /\ next.backing = p.backing + minted
    BY <2>2 DEF Pool!LidoPools
  <2> HIDE DEF next
  <2> QED
    BY <1>1, <1>2, <2>1, <2>3
<1>5. CASE i # 1
  <2> DEFINE next == [p EXCEPT !.supply = @ - amount, !.backing = @ - moved]
  <2>1. /\ Pool!LidoSwap(p, i, amount) = Pool!Unwrap(p, amount)
        /\ Pool!Unwrap(p, amount).ok
    BY <1>5 DEF Pool!LidoSwap, Pool!Refuse
  <2>2. ~(amount > p.supply) /\ ~(moved > p.backing)
        /\ Pool!Unwrap(p, amount).next = next
    BY <2>1 DEF Pool!Unwrap, Pool!Filled, Pool!Refuse, moved
  <2>3. p.supply - amount \in Nat /\ p.backing - moved \in Nat
    BY <1>1, <1>3, <2>2
  <2>4. next \in Pool!LidoPools /\ next.pooled = p.pooled /\ next.shares = p.shares
        /\ next.supply = p.supply - amount /\ next.backing = p.backing - moved
    BY <1>1, <2>3 DEF Pool!LidoPools
  <2> HIDE DEF next
  <2> QED
    BY <1>1, <1>3, <2>1, <2>2, <2>4
<1> QED
  BY <1>4, <1>5

\* An ARM gains WETH, or pays only what its queue leaves.
LEMMA ArmCovers ==
    ASSUME NEW p \in Pool!ArmPools, p.pooled # 0, p.shares # 0, p.claimed <= p.queued,
           NEW i \in 1 .. 3, NEW amount \in Nat, Pool!ArmSwap(p, i, amount).ok,
           NEW start \in Nat, p.weth >= Pool!Lower(start, Pool!Owed(p))
    PROVE  LET next == Pool!ArmSwap(p, i, amount).next IN
           /\ next \in Pool!ArmPools
           /\ next.pooled = p.pooled /\ next.shares = p.shares
           /\ next.claimed <= next.queued /\ Pool!Owed(next) = Pool!Owed(p)
           /\ next.weth >= Pool!Lower(start, Pool!Owed(p))
<1>1. /\ p.pooled \in Nat \ {0} /\ p.shares \in Nat \ {0} /\ p.weth \in Nat /\ p.held \in Nat
      /\ p.queued \in Nat /\ p.claimed \in Nat /\ p.rate[1] \in Nat /\ p.rate[2] \in Nat
  BY DEF Pool!ArmPools
<1>2. PriceScale \in Nat \ {0}
  BY DEF Pool!PoolTradesAssumption
<1>3. CASE i = 1
  <2> DEFINE out == (amount * p.rate[1]) \div PriceScale
             moved == Pool!SharesOf(p, out)
             next == [p EXCEPT !.weth = @ + amount, !.held = @ - moved]
  <2>1. out \in Nat
    BY <1>1, <1>2, MulNat, QuotientTimes
  <2> HIDE DEF out
  <2>2. moved \in Nat
    BY <1>1, <2>1, MulNat, QuotientTimes DEF Pool!SharesOf
  <2>3. ~(moved > p.held) /\ Pool!ArmSwap(p, i, amount).next = next
    BY <1>3 DEF Pool!ArmSwap, Pool!ArmSellWeth, Pool!Filled, Pool!Refuse, out
  <2> HIDE DEF moved
  <2>4. p.held - moved \in Nat /\ p.weth + amount \in Nat
    BY <1>1, <2>2, <2>3
  <2>5. /\ next \in Pool!ArmPools /\ next.pooled = p.pooled /\ next.shares = p.shares
        /\ next.weth = p.weth + amount /\ next.queued = p.queued /\ next.claimed = p.claimed
    BY <2>4 DEF Pool!ArmPools
  <2> HIDE DEF next
  <2>6. next.claimed <= next.queued /\ Pool!Owed(next) = Pool!Owed(p)
    BY <2>5 DEF Pool!Owed
  <2>7. next.weth >= Pool!Lower(start, Pool!Owed(p))
    BY <1>1, <2>5 DEF Pool!Lower, Pool!Owed
  <2> QED
    BY <2>3, <2>5, <2>6, <2>7
<1>4. CASE i # 1
  <2> DEFINE out == (amount * p.rate[2]) \div PriceScale
             gained == Pool!SharesOf(p, amount)
             next == [p EXCEPT !.weth = @ - out, !.held = @ + gained]
  <2>1. out \in Nat
    BY <1>1, <1>2, MulNat, QuotientTimes
  <2>2. gained \in Nat
    BY <1>1, MulNat, QuotientTimes DEF Pool!SharesOf
  <2>3. /\ ~(out > Pool!Reserve0(p))
        /\ ~(Pool!Owed(p) # 0 /\ p.weth < Pool!Owed(p))
        /\ Pool!ArmSwap(p, i, amount).next = next
    BY <1>4 DEF Pool!ArmSwap, Pool!ArmSellSteth, Pool!Filled, Pool!Refuse
  <2> HIDE DEF out, gained
  <2>4. /\ p.weth - out \in Nat /\ p.held + gained \in Nat
        /\ p.weth - out >= Pool!Owed(p) \/ p.weth - out = p.weth
    <3>1. Pool!Owed(p) \in Nat
      BY <1>1 DEF Pool!Owed
    <3>2. Pool!Reserve0(p) = Pool!Higher(0, p.weth - Pool!Owed(p))
      BY DEF Pool!Reserve0
    <3>3. CASE p.weth < Pool!Owed(p)
      BY <1>1, <2>1, <2>2, <2>3, <3>1, <3>2, <3>3 DEF Pool!Higher
    <3>4. CASE p.weth >= Pool!Owed(p)
      <4>1. ~(out > p.weth - Pool!Owed(p))
        BY <1>1, <2>3, <3>1, <3>2, <3>4 DEF Pool!Higher
      <4> QED
        BY <1>1, <2>1, <2>2, <3>1, <3>4, <4>1
    <3> QED
      BY <1>1, <3>1, <3>3, <3>4
  <2>5. /\ next \in Pool!ArmPools /\ next.pooled = p.pooled /\ next.shares = p.shares
        /\ next.weth = p.weth - out /\ next.queued = p.queued /\ next.claimed = p.claimed
    BY <2>4 DEF Pool!ArmPools
  <2> HIDE DEF next
  <2>6. next.claimed <= next.queued /\ Pool!Owed(next) = Pool!Owed(p)
    BY <2>5 DEF Pool!Owed
  <2>7. next.weth >= Pool!Lower(start, Pool!Owed(p))
    BY <1>1, <2>1, <2>4, <2>5 DEF Pool!Lower, Pool!Owed
  <2> QED
    BY <2>3, <2>5, <2>6, <2>7
<1> QED
  BY <1>3, <1>4

LEMMA ClaimTrades ==
    ASSUME ClaimInv, NEW pair \in Pool!PairsOf(pool), NEW amount \in Amounts[source.family],
           Pool!Trade(pair[1], pair[2], amount)
    PROVE  ClaimInv'
<1>1. /\ source' = source /\ source \in Sources /\ phase = "loaded" /\ amount \in Nat
      /\ pair[1] \in 1 .. 3
  BY SourceFacts DEF ClaimInv, Pool!Trade, Pool!PairsOf, Pool!Tokens
<1> DEFINE outcome == Pool!SwapPool(pool, pair[1], pair[2], amount)
<1>2. outcome.ok /\ pool' = outcome.next
  BY DEF Pool!Trade
<1>3. ASSUME source.family = "lido" PROVE LidoClaim'
  <2>1. LidoClaim /\ source \in Pool!LidoPools
    BY <1>1, <1>3, SourceFacts DEF ClaimInv
  <2>2. outcome = Pool!LidoSwap(pool, pair[1], amount)
    BY <2>1 DEF Pool!SwapPool, LidoClaim, Pool!LidoPools
  <2> HIDE DEF outcome
  <2>3. /\ pool' \in Pool!LidoPools
        /\ pool'.pooled = pool.pooled /\ pool'.shares = pool.shares
        /\ pool'.backing - pool'.supply >= pool.backing - pool.supply
    BY <1>1, <1>2, <2>1, <2>2, LidoCovers DEF LidoClaim
  <2>4. pool'.backing - pool'.supply >= source.backing - source.supply
    BY <2>1, <2>3 DEF LidoClaim, Pool!LidoPools
  <2> QED
    BY <1>1, <2>1, <2>3, <2>4 DEF LidoClaim
<1>4. ASSUME source.family = "arm" PROVE ArmClaim'
  <2>1. ArmClaim /\ source \in Pool!ArmPools /\ source.weth \in Nat
    BY <1>1, <1>4, SourceFacts DEF ClaimInv, Pool!ArmPools
  <2>2. outcome = Pool!ArmSwap(pool, pair[1], amount)
    BY <2>1 DEF Pool!SwapPool, ArmClaim, Pool!ArmPools
  <2> HIDE DEF outcome
  <2>3. /\ pool' \in Pool!ArmPools
        /\ pool'.pooled = pool.pooled /\ pool'.shares = pool.shares
        /\ pool'.claimed <= pool'.queued /\ Pool!Owed(pool') = Pool!Owed(pool)
        /\ pool'.weth >= Pool!Lower(source.weth, Pool!Owed(pool))
    BY <1>1, <1>2, <2>1, <2>2, ArmCovers DEF ArmClaim
  <2> QED
    BY <1>1, <2>1, <2>3 DEF ArmClaim
<1> QED
  BY <1>1, <1>3, <1>4 DEF ClaimInv

LEMMA ClaimStays ==
    ASSUME ClaimInv, [PoolsNext]_<<vars, poolVars, trading>>
    PROVE  ClaimInv'
<1>1. ASSUME UNCHANGED poolVars PROVE ClaimInv'
  BY <1>1 DEF ClaimInv, LidoClaim, ArmClaim, poolVars, Pool!Owed
<1>2. ASSUME Pool!Read \/ Pool!Prefetch \/ Pool!Serve \/ Pool!FollowUp PROVE ClaimInv'
  BY <1>2 DEF ClaimInv, Pool!Read, Pool!Prefetch, Pool!Serve, Pool!FollowUp, Pool!Ask
<1> QED
  BY <1>1, <1>2, PoolSteps, ClaimLoads, ClaimTrades DEF Pool!Next

\* Before it is loaded a pool owes nothing; then loads and trades keep what it owes.
THEOREM ClaimsStayCovered == PoolsSpec => []ClaimsCovered
<1>1. PoolsStart => ClaimInv
  BY DEF PoolsStart, PoolsInit, Pool!Init, ClaimInv
<1>2. ASSUME ClaimInv, [PoolsNext]_<<vars, poolVars, trading>> PROVE ClaimInv'
  BY <1>2, ClaimStays
<1>3. ClaimInv => ClaimsCovered
  BY DEF ClaimInv, LidoClaim, ArmClaim, ClaimsCovered, Pool!ClaimsCovered
<1> QED
  BY <1>1, <1>2, <1>3, PTL DEF PoolsSpec
-----------------------------------------------------------------------------
(* What acquisition leaves unasked, load_state does not miss.              *)

\* What is asked for before anything is known.
FirstReads == IF Pool!IsTick THEN Pool!Statics ELSE Pool!FixedReads

\* These are asked for first; a snapshot is complete when nothing depends on it any more.
AskedInv ==
    /\ source \in Sources
    /\ phase \in {"asked", "served", "complete"} => FirstReads \subseteq got.ok \cup got.failed \cup wanted
    /\ phase \in {"new", "served", "complete"} => wanted = {}
    /\ phase = "complete" => Pool!Dependents.ok /\ Pool!Dependents.calls = {}

LEMMA FirstAsked ==
    ASSUME NEW hints
    PROVE  Pool!Statics \subseteq Pool!TickReads(source, hints)
  BY DEF Pool!TickReads

LEMMA FirstPrefetched ==
    ASSUME NEW prior
    PROVE  Pool!Statics \subseteq Pool!TickPrefetch(source, prior)
  BY DEF Pool!TickPrefetch

LEMMA SameDependents ==
    ASSUME source' = source, got' = got
    PROVE  Pool!Dependents' = Pool!Dependents /\ FirstReads' = FirstReads
<1>1. Pool!FixedReads' = Pool!FixedReads /\ Pool!Follows' = Pool!Follows
      /\ Pool!IsTick' = Pool!IsTick
  BY DEF Pool!FixedReads, Pool!Follows, Pool!IsTick
<1>2. Pool!FixedDependents' = Pool!FixedDependents
  BY <1>1 DEF Pool!FixedDependents, Pool!Has
<1> QED
  BY <1>1, <1>2 DEF Pool!Dependents, FirstReads

LEMMA AskedSteps ==
    ASSUME AskedInv, Pool!Next \/ UNCHANGED poolVars
    PROVE  AskedInv'
<1>1. ASSUME NEW calls, Pool!Ask(calls), FirstReads \subseteq calls \cup got.ok \cup got.failed,
             source' = source, got' = got
      PROVE  AskedInv'
  <2>1. /\ FirstReads' = FirstReads /\ source' \in Sources
        /\ got'.ok = got.ok /\ got'.failed = got.failed
    BY <1>1, SameDependents DEF AskedInv
  <2>2. /\ wanted' = calls /\ phase' \in {"asked", "served"}
        /\ phase' = "served" => calls = {}
    BY <1>1 DEF Pool!Ask
  <2> QED
    BY <1>1, <2>1, <2>2 DEF AskedInv
<1>2. CASE Pool!Read
  <2>1. CASE Pool!IsTick
    <3>1. PICK hints \in {{}} \cup {{t} : t \in Hints} : Pool!Ask(Pool!TickReads(source, hints))
      BY <1>2, <2>1 DEF Pool!Read
    <3>2. FirstReads \subseteq Pool!TickReads(source, hints)
      BY <2>1, FirstAsked DEF FirstReads
    <3> QED
      BY <1>1, <1>2, <3>1, <3>2 DEF Pool!Read
  <2>2. CASE ~Pool!IsTick
    BY <1>1, <1>2, <2>2 DEF Pool!Read, FirstReads
  <2> QED
    BY <2>1, <2>2
<1>3. CASE Pool!Prefetch
  <2>1. PICK prior \in Priors :
          Pool!Ask(Pool!TickPrefetch(source, [source EXCEPT !.tick = prior.tick, !.net = prior.net]))
    BY <1>3 DEF Pool!Prefetch
  <2>2. FirstReads \subseteq
          Pool!TickPrefetch(source, [source EXCEPT !.tick = prior.tick, !.net = prior.net])
    BY <1>3, FirstPrefetched DEF FirstReads, Pool!Prefetch
  <2> QED
    BY <1>1, <1>3, <2>1, <2>2 DEF Pool!Prefetch
<1>4. CASE Pool!Serve
  <2>1. PICK failing \in {{}} \cup {{call} : call \in wanted} :
          got' = [ok |-> got.ok \cup (wanted \ failing), failed |-> got.failed \cup failing]
    BY <1>4 DEF Pool!Serve
  <2>2. /\ wanted' = {} /\ phase' = "served" /\ phase = "asked" /\ source' = source
    BY <1>4 DEF Pool!Serve
  <2>3. FirstReads' = FirstReads
    BY <2>2 DEF FirstReads, Pool!IsTick, Pool!FixedReads
  <2>4. FirstReads \subseteq got'.ok \cup got'.failed
    BY <2>1, <2>2 DEF AskedInv
  <2> QED
    BY <2>2, <2>3, <2>4 DEF AskedInv
<1>5. CASE Pool!FollowUp
  <2>1. /\ phase = "served" /\ wanted = {} /\ source' = source /\ got' = got
        /\ FirstReads \subseteq got.ok \cup got.failed /\ source \in Sources
    BY <1>5 DEF Pool!FollowUp, AskedInv
  <2>2. CASE ~Pool!Dependents.ok
    <3>1. phase' = "refused"
      BY <1>5, <2>2 DEF Pool!FollowUp
    <3> QED
      BY <2>1, <3>1 DEF AskedInv
  <2>3. CASE Pool!Dependents.ok /\ Pool!Dependents.calls = {}
    <3>1. phase' = "complete" /\ wanted' = wanted
      BY <1>5, <2>3 DEF Pool!FollowUp
    <3> QED
      BY <2>1, <2>3, <3>1, SameDependents DEF AskedInv
  <2>4. CASE Pool!Dependents.ok /\ Pool!Dependents.calls # {}
    BY <1>1, <1>5, <2>1, <2>4 DEF Pool!FollowUp
  <2> QED
    BY <2>2, <2>3, <2>4
<1>6. CASE Pool!Load
  <2>1. phase' \in {"loaded", "refused"} /\ source' = source
    BY <1>6 DEF Pool!Load
  <2> QED
    BY <2>1 DEF AskedInv
<1>7. CASE \E pair \in Pool!PairsOf(pool), amount \in Amounts[source.family] :
             Pool!Trade(pair[1], pair[2], amount)
  <2>1. phase' = "loaded" /\ source' = source
    BY <1>7 DEF Pool!Trade
  <2> QED
    BY <2>1 DEF AskedInv
<1>8. CASE UNCHANGED poolVars
  <2>1. source' = source /\ got' = got /\ phase' = phase /\ wanted' = wanted
    BY <1>8 DEF poolVars
  <2> QED
    BY <2>1, SameDependents DEF AskedInv
<1> QED
  BY <1>2, <1>3, <1>4, <1>5, <1>6, <1>7, <1>8 DEF Pool!Next

\* A complete snapshot of which no call failed.
LEMMA AllAnswered ==
    ASSUME AskedInv, phase = "complete", got.failed = {}
    PROVE  /\ FirstReads \subseteq got.ok
           /\ Pool!Dependents.ok /\ Pool!Dependents.calls = {}
           /\ \A call : Pool!Has(got, call) => call \in got.ok
  BY DEF AskedInv, Pool!Has

LEMMA FixedAcquired ==
    ASSUME AskedInv, phase = "complete", got.failed = {}, source.healthy, ~Pool!IsTick
    PROVE  Pool!LoadState.ok
<1>1. /\ Pool!FixedReads \subseteq got.ok
      /\ Pool!FixedDependents.ok /\ Pool!FixedDependents.calls = {}
  BY AllAnswered DEF FirstReads, Pool!Dependents
<1>2. Pool!FixedDependents =
        IF Pool!Follows.named \subseteq got.ok
          THEN [ok |-> TRUE, calls |-> {c \in Pool!Follows.calls : ~Pool!Has(got, c)}]
          ELSE Pool!Refusal
  <2>1. Pool!FixedReads \subseteq got.ok \cup got.failed
    BY <1>1
  <2> QED
    BY <2>1 DEF Pool!FixedDependents
<1>3. {c \in Pool!Follows.calls : ~Pool!Has(got, c)} = {}
  BY <1>1, <1>2 DEF Pool!Refusal
<1>4. Pool!Follows.calls \subseteq got.ok
  BY <1>3, AllAnswered
<1>5. /\ source \in Sources /\ source.identity
      /\ source.family \in Pool!Named \cup Pool!AtOnce
      /\ source.family \in Pool!AtOnce => Pool!ValuesLoad(source)
  BY DEF AskedInv, Pool!PoolTradesAssumption, Pool!IsTick
<1>6. CASE source.family = "psm"
  <2>1. Pool!PsmLoads
    BY <1>1, <1>4, <1>6 DEF Pool!PsmLoads, Pool!FixedReads, Pool!Follows
  <2> QED
    BY <1>1, <1>5, <1>6, <2>1 DEF Pool!LoadState, Pool!FixedLoad
<1>7. CASE source.family = "wrapper"
  <2>1. Pool!WrapperLoads
    BY <1>1, <1>4, <1>7 DEF Pool!WrapperLoads, Pool!FixedReads, Pool!Follows
  <2> QED
    BY <1>1, <1>5, <1>7, <2>1 DEF Pool!LoadState, Pool!FixedLoad
<1>8. CASE source.family = "converter"
  <2>1. Pool!ConverterLoads
    BY <1>1, <1>4, <1>8 DEF Pool!ConverterLoads, Pool!FixedReads, Pool!Follows
  <2> QED
    BY <1>1, <1>5, <1>8, <2>1 DEF Pool!LoadState, Pool!FixedLoad
<1>9. CASE source.family \in Pool!AtOnce
  BY <1>1, <1>5, <1>9 DEF Pool!LoadState, Pool!FixedLoad, Pool!AtOnce
<1> QED
  BY <1>5, <1>6, <1>7, <1>8, <1>9 DEF Pool!Named

\* A word covers its own ticks.
LEMMA TickOfWord ==
    ASSUME NEW w \in Int, NEW spacing \in Nat \ {0}, NEW t \in Pool!WordTicks(w, spacing)
    PROVE  Pool!Word(t, spacing) = w
<1>1. PICK n \in w * WordBits .. (w + 1) * WordBits - 1 : t = n * spacing
  BY DEF Pool!WordTicks
<1>2. WordBits \in Nat \ {0}
  BY DEF Pool!PoolTradesAssumption, Pool!PriceTable
<1>3. w * WordBits \in Int /\ (w + 1) * WordBits = w * WordBits + WordBits
  BY <1>2
<1>4. n \in Int /\ w * WordBits <= n /\ n < w * WordBits + WordBits
  BY <1>1, <1>2, <1>3
<1>5. (n * spacing) \div spacing = n
  BY <1>4
<1>6. n \div WordBits = w
  BY <1>2, <1>4
<1> QED
  BY <1>1, <1>5, <1>6 DEF Pool!Word

\* A window that was read as a whole has no gap.
LEMMA WholeWindow ==
    ASSUME NEW centre \in Int
    PROVE  LET words == centre - Radius .. centre + Radius IN
           Pool!Contiguous(words, centre) = words /\ centre \in words
<1> DEFINE words == centre - Radius .. centre + Radius
<1>1. Radius \in Nat
  BY DEF Pool!PoolTradesAssumption
<1>2. ASSUME NEW w \in words, NEW v \in Pool!Least(w, centre) .. Pool!Most(w, centre)
      PROVE  v \in words
  BY <1>1, <1>2 DEF Pool!Least, Pool!Most
<1>3. Pool!Contiguous(words, centre) = words
  BY <1>2 DEF Pool!Contiguous
<1> QED
  BY <1>1, <1>3

\* What a complete snapshot of a tick pool has: every word of the window, and what its
\* version asks of their ticks.
LEMMA WindowAnswered ==
    ASSUME AskedInv, phase = "complete", got.failed = {}, Pool!IsTick
    PROVE  LET words == Pool!Window(source.tick, source.spacing)
               asked == IF source.version = "v4" THEN Pool!DependentsV4(source, words)
                                                 ELSE Pool!DependentsV3(source, got, words) IN
           /\ Pool!Statics \subseteq got.ok
           /\ Pool!WordCalls(words) \subseteq got.ok
           /\ asked \subseteq got.ok
<1> DEFINE words == Pool!Window(source.tick, source.spacing)
           asked == IF source.version = "v4" THEN Pool!DependentsV4(source, words)
                                             ELSE Pool!DependentsV3(source, got, words)
           unknown == {w \in words : ~Pool!Has(got, <<"word", {w}>>)}
           gates == IF source.version = "v4" THEN {<<"slot0", {}>>} ELSE Pool!Statics
           tick == Pool!TickDependents(source, got)
<1>1. /\ Pool!Statics \subseteq got.ok /\ tick.ok /\ tick.calls = {}
      /\ \A call : Pool!Has(got, call) => call \in got.ok
  BY AllAnswered DEF FirstReads, Pool!Dependents
<1>2. gates \subseteq got.ok
  BY <1>1 DEF Pool!Statics
<1>3. tick = IF unknown # {}
               THEN [ok |-> TRUE, calls |-> Pool!WordCalls(unknown)]
               ELSE IF Pool!WordCalls(words) \subseteq got.ok
                 THEN [ok |-> TRUE, calls |-> {call \in asked : ~Pool!Has(got, call)}]
                 ELSE Pool!Refusal
  <2>1. /\ ~(gates \subseteq got.ok) <=> FALSE
        /\ gates \subseteq got.ok /\ unknown # {} <=> unknown # {}
        /\ gates \subseteq got.ok /\ unknown = {} <=> unknown = {}
    BY <1>2
  <2> HIDE DEF gates, unknown, asked
  <2>2. tick = CASE ~(gates \subseteq got.ok) -> [ok |-> TRUE, calls |-> {}]
                 [] gates \subseteq got.ok /\ unknown # {} ->
                       [ok |-> TRUE, calls |-> Pool!WordCalls(unknown)]
                 [] gates \subseteq got.ok /\ unknown = {} ->
                       IF Pool!WordCalls(words) \subseteq got.ok
                         THEN [ok |-> TRUE, calls |-> {call \in asked : ~Pool!Has(got, call)}]
                         ELSE Pool!Refusal
    BY DEF Pool!TickDependents, gates, unknown, asked
  <2> HIDE DEF tick
  <2> QED
    BY <2>1, <2>2
<1> HIDE DEF unknown, asked, tick
<1>4. unknown = {}
  <2>1. ASSUME NEW w \in unknown PROVE FALSE
    <3>1. <<"word", {w}>> \in Pool!WordCalls(unknown)
      BY DEF Pool!WordCalls
    <3>2. tick.calls = Pool!WordCalls(unknown)
      BY <1>3, <2>1
    <3> QED
      BY <1>1, <3>1, <3>2
  <2> QED
    BY <2>1
<1>5. /\ Pool!WordCalls(words) \subseteq got.ok
      /\ {call \in asked : ~Pool!Has(got, call)} = {}
  <2>1. tick = IF Pool!WordCalls(words) \subseteq got.ok
                 THEN [ok |-> TRUE, calls |-> {call \in asked : ~Pool!Has(got, call)}]
                 ELSE Pool!Refusal
    BY <1>3, <1>4
  <2>2. ~Pool!Refusal.ok
    BY DEF Pool!Refusal
  <2> QED
    BY <1>1, <2>1, <2>2
<1>6. asked \subseteq got.ok
  BY <1>1, <1>5
<1> QED
  BY <1>1, <1>5, <1>6 DEF asked

\* The nets of a word's ticks come one by one or, in bulk, with the word.
LEMMA NetsRead ==
    ASSUME AskedInv, phase = "complete", got.failed = {}, Pool!IsTick, source.version # "v4"
    PROVE  LET words == Pool!Window(source.tick, source.spacing) IN
           Pool!NetsV3(source, got, words) = Pool!InWords(source, words)
<1> DEFINE words == Pool!Window(source.tick, source.spacing)
           requests(w) == Pool!WordRequests(source, got, w)
<1>1. /\ Pool!TickFacts(source) /\ \A call : Pool!Has(got, call) => call \in got.ok
      /\ words \subseteq Int
  BY AllAnswered DEF AskedInv, Pool!PoolTradesAssumption, Pool!IsTick, Pool!Window, Pool!Word
<1>4. /\ source.spacing \in Nat \ {0}
      /\ source.version \in {"v3", "pancake"} /\ (source.version = "pancake" => ~source.bulk)
  <2>1. source \in Pool!TickSource(source) /\ (source.version = "pancake" => ~source.bulk)
    BY <1>1 DEF Pool!TickFacts
  <2> QED
    BY <2>1 DEF Pool!TickSource
<1>2. \A w \in words : requests(w) \subseteq got.ok
  BY WindowAnswered DEF Pool!DependentsV3
<1>3. ASSUME NEW t \in Pool!InWords(source, words)
      PROVE  \/ <<"tick", {t}>> \in got.ok
             \/ /\ source.version = "v3"
                /\ <<"lens", {Pool!Word(t, source.spacing)}>> \in got.ok
  <2>1. PICK w \in words : t \in Pool!WordTicks(w, source.spacing) /\ t \in DOMAIN source.net
    BY <1>3 DEF Pool!InWords
  <2>2. Pool!Word(t, source.spacing) = w
    BY <1>1, <1>4, <2>1, TickOfWord
  <2>3. <<"tick", {t}>> \in Pool!TickCalls(Pool!InWords(source, {w}))
    BY <2>1 DEF Pool!TickCalls, Pool!InWords
  <2>4. CASE source.bulk /\ ~(\A call \in Pool!TickCalls(Pool!InWords(source, {w})) : Pool!Has(got, call))
    <3>1. <<"lens", {w}>> \in requests(w)
      BY <2>4 DEF Pool!WordRequests
    <3>2. source.version = "v3"
      BY <1>4, <2>4
    <3> QED
      BY <1>2, <2>2, <3>1, <3>2
  <2>5. CASE ~(source.bulk /\ ~(\A call \in Pool!TickCalls(Pool!InWords(source, {w})) : Pool!Has(got, call)))
    <3>1. <<"tick", {t}>> \in requests(w)
      BY <2>3, <2>5 DEF Pool!WordRequests
    <3> QED
      BY <1>2, <3>1
  <2> QED
    BY <2>4, <2>5
<1> QED
  BY <1>3 DEF Pool!NetsV3

LEMMA TickAcquired ==
    ASSUME AskedInv, phase = "complete", got.failed = {}, source.healthy, Pool!IsTick
    PROVE  /\ Pool!LoadState.ok
           /\ Pool!LoadState.state.words = Pool!Window(source.tick, source.spacing)
<1> DEFINE words == Pool!Window(source.tick, source.spacing)
           centre == Pool!Word(source.tick, source.spacing)
           loaded == {w \in words : <<"word", {w}>> \in got.ok}
           nets == IF source.version = "v4" THEN Pool!NetsV4(source, got, words)
                                            ELSE Pool!NetsV3(source, got, words)
           state == [source EXCEPT !.net = [t \in nets |-> source.net[t]],
                                   !.words = words,
                                   !.initialized = Pool!InWords(source, words)]
<1>1. /\ Pool!TickFacts(source) /\ source.identity /\ centre \in Int
      /\ source.price \in Ratio[MinTick] .. Ratio[MaxTick] - 1
  <2>1. Pool!TickFacts(source) /\ source.identity
    BY DEF AskedInv, Pool!PoolTradesAssumption, Pool!IsTick
  <2>2. source.tick \in Pool!Ticks /\ source.spacing \in Nat \ {0}
    BY <2>1 DEF Pool!TickFacts, Pool!TickSource
  <2>3. source.tick \in Int /\ WordBits \in Nat \ {0}
    BY <2>2 DEF Pool!Ticks, Pool!PoolTradesAssumption, Pool!PriceTable
  <2>4. centre \in Int
    BY <2>2, <2>3 DEF Pool!Word
  <2> QED
    BY <2>1, <2>4 DEF Pool!TickFacts, Pool!Initialized
<1>2. loaded = words
  BY WindowAnswered DEF Pool!WordCalls
<1>3. Pool!Contiguous(loaded, centre) = words /\ centre \in loaded
  BY <1>1, <1>2, WholeWindow DEF Pool!Window
<1>4. IF source.version = "v4" THEN Pool!LoadsV4(source, got, words)
                               ELSE Pool!LoadsV3(source, nets, words)
  <2>1. CASE source.version = "v4"
    BY <1>1, <2>1, WindowAnswered DEF Pool!LoadsV4, Pool!DependentsV4
  <2>2. CASE source.version # "v4"
    BY <2>2, NetsRead DEF Pool!LoadsV3
  <2> QED
    BY <2>1, <2>2
<1>5. Pool!Statics \subseteq got.ok
  BY WindowAnswered
<1>6. Pool!TickLoad(source, got) = [ok |-> TRUE, state |-> state]
  BY <1>3, <1>4, <1>5 DEF Pool!TickLoad
<1>7. state.words = words
  BY <1>1 DEF Pool!TickFacts
<1>8. Pool!LoadState = Pool!TickLoad(source, got)
  BY <1>1 DEF Pool!LoadState
<1> HIDE DEF state, words
<1> QED
  BY <1>6, <1>7, <1>8 DEF words

\* What dependent_requests leaves unasked, load_state does not miss, whatever hint or
\* earlier snapshot the calls were asked for by.
THEOREM AcquiredPoolsLoad == PoolsSpec => []AcquiredLoads
<1>1. PoolsStart => AskedInv
  BY DEF PoolsStart, PoolsInit, Pool!Init, AskedInv
<1>2. ASSUME AskedInv, [PoolsNext]_<<vars, poolVars, trading>> PROVE AskedInv'
  BY <1>2, PoolSteps, AskedSteps
<1>3. AskedInv => AcquiredLoads
  BY FixedAcquired, TickAcquired DEF AcquiredLoads, Pool!AcquiredLoads
<1> QED
  BY <1>1, <1>2, <1>3, PTL DEF PoolsSpec
-----------------------------------------------------------------------------
(* Least elements, induction and sums.                                     *)

LEMMA LeastExists ==
    ASSUME NEW S \in SUBSET Nat, S # {}
    PROVE  \E b \in S : \A c \in S : b <= c
<1> DEFINE lessThan == {ss \in Nat \X Nat : ss[1] < ss[2]}
<1>1. IsWellFoundedOn(lessThan, Nat)
  BY NatLessThanWellFounded DEF OpToRel
<1>2. PICK b \in S : \A c \in S : ~(<<c, b>> \in lessThan)
  BY <1>1, WFMin
<1>3. ASSUME NEW c \in S PROVE b <= c
  <2>1. c < b => <<c, b>> \in lessThan
    <3>1. <<c, b>> \in Nat \X Nat /\ <<c, b>>[1] = c /\ <<c, b>>[2] = b
      OBVIOUS
    <3> QED
      BY <3>1
  <2> QED
    BY <1>2, <2>1
<1> QED
  BY <1>3

\* A set of numbers that has 0 and every successor has every number.
LEMMA AllNumbers ==
    ASSUME NEW good, 0 \in good, \A n \in Nat : n \in good => n + 1 \in good
    PROVE  Nat \subseteq good
<1> DEFINE bad == Nat \ good
<1>1. ASSUME bad # {} PROVE FALSE
  <2>1. PICK n \in bad : \A m \in bad : n <= m
    BY <1>1, LeastExists
  <2>2. n # 0 /\ n - 1 \in Nat /\ n - 1 \notin bad
    BY <2>1
  <2> QED
    BY <2>1, <2>2
<1> QED
  BY <1>1

\* A sum as the model writes it.
Total(F, S) == Pool!MapThenSumSet(LAMBDA x : F[x], S)

\* The element a sum takes next, and one turn of it.
Pick(s) == CHOOSE x \in s : TRUE
SumBody(F, g, s) == IF s = {} THEN 0 ELSE F[Pick(s)] + g[s \ {Pick(s)}]
SumOf(F, S) == CHOOSE g : g = [s \in SUBSET S |-> SumBody(F, g, s)]

LEMMA TotalSum ==
    ASSUME NEW F, NEW S
    PROVE  Total(F, S) = SumOf(F, S)[S]
  BY DEF Total, Pool!MapThenSumSet, Pool!MapThenFoldSet, SumOf, SumBody, Pick

LEMMA PickIn ==
    ASSUME NEW s, s # {}
    PROVE  Pick(s) \in s
  BY DEF Pick

\* One element less is one less to count.
LEMMA OneLess ==
    ASSUME NEW S, IsFiniteSet(S), NEW x \in S
    PROVE  /\ IsFiniteSet(S \ {x})
           /\ Cardinality(S) \in Nat /\ Cardinality(S \ {x}) \in Nat
           /\ Cardinality(S \ {x}) + 1 = Cardinality(S)
<1>1. IsFiniteSet(S \ {x}) /\ Cardinality(S \ {x}) = Cardinality(S) - 1
  BY FS_RemoveElement
<1>2. Cardinality(S) \in Nat /\ Cardinality(S \ {x}) \in Nat
  BY <1>1, FS_CardinalityType
<1> QED
  BY <1>1, <1>2

\* The recursion of a sum has a solution: it goes through no more elements than there are.
LEMMA SumDefined ==
    ASSUME NEW F, NEW S, IsFiniteSet(S)
    PROVE  \A s \in SUBSET S : SumOf(F, S)[s] = SumBody(F, SumOf(F, S), s)
<1> DEFINE Small(n) == {s \in SUBSET S : Cardinality(s) <= n}
           Solves(n, g) == g = [s \in Small(n) |-> SumBody(F, g, s)]
           good == {n \in Nat : \E g : Solves(n, g)}
<1>1. 0 \in good
  <2> DEFINE g == [s \in Small(0) |-> 0]
  <2>1. \A s \in Small(0) : s = {}
    BY FS_Subset, FS_EmptySet, FS_CardinalityType
  <2>2. \A s \in Small(0) : SumBody(F, g, s) = 0
    BY <2>1 DEF SumBody
  <2>3. Solves(0, g)
    BY <2>2
  <2> QED
    BY <2>3
<1>2. ASSUME NEW n \in Nat, n \in good PROVE n + 1 \in good
  <2>1. PICK g : Solves(n, g)
    BY <1>2
  <2> DEFINE h == [s \in Small(n + 1) |-> SumBody(F, g, s)]
  <2>2. ASSUME NEW s \in Small(n + 1) PROVE SumBody(F, h, s) = SumBody(F, g, s)
    <3>1. CASE s = {}
      BY <3>1 DEF SumBody
    <3>2. CASE s # {}
      <4> DEFINE r == s \ {Pick(s)}
      <4>1. IsFiniteSet(s) /\ Pick(s) \in s
        BY <3>2, FS_Subset, PickIn
      <4>2. r \in Small(n)
        BY <4>1, OneLess
      <4>3. r \in Small(n + 1)
        BY <4>2, FS_Subset, FS_CardinalityType
      <4>4. h[r] = SumBody(F, g, r) /\ g[r] = SumBody(F, g, r)
        BY <2>1, <4>2, <4>3
      <4> HIDE DEF h, r
      <4> QED
        BY <3>2, <4>4 DEF SumBody, r
    <3> QED
      BY <3>1, <3>2
  <2>3. Solves(n + 1, h)
    <3>1. h = [s \in Small(n + 1) |-> SumBody(F, g, s)]
      OBVIOUS
    <3> HIDE DEF h, Small
    <3>2. [s \in Small(n + 1) |-> SumBody(F, g, s)] = [s \in Small(n + 1) |-> SumBody(F, h, s)]
      BY <2>2
    <3> QED
      BY <3>1, <3>2
  <2> HIDE DEF h, Solves
  <2> QED
    BY <2>3
<1>3. Cardinality(S) \in good
  BY <1>1, <1>2, AllNumbers, FS_CardinalityType
<1>4. Small(Cardinality(S)) = SUBSET S
  BY FS_Subset
<1>5. \E g : g = [s \in SUBSET S |-> SumBody(F, g, s)]
  BY <1>3, <1>4
<1> DEFINE sum == SumOf(F, S)
<1>6. sum = [s \in SUBSET S |-> SumBody(F, sum, s)]
  BY <1>5 DEF SumOf
<1> HIDE DEF sum
<1>7. \A s \in SUBSET S : sum[s] = SumBody(F, sum, s)
  BY <1>6
<1> QED
  BY <1>7 DEF sum

LEMMA Smaller ==
    ASSUME NEW S, IsFiniteSet(S), NEW x \in S, NEW n \in Nat, Cardinality(S) <= n + 1
    PROVE  IsFiniteSet(S \ {x}) /\ Cardinality(S \ {x}) <= n
<1>1. /\ IsFiniteSet(S \ {x}) /\ Cardinality(S \ {x}) \in Nat
      /\ Cardinality(S \ {x}) + 1 = Cardinality(S)
  BY OneLess
<1> QED
  BY <1>1

\* A sum over a part is the same recursion.
LEMMA SumAgrees ==
    ASSUME NEW F, NEW S, IsFiniteSet(S), NEW T \in SUBSET S
    PROVE  \A s \in SUBSET T : SumOf(F, T)[s] = SumOf(F, S)[s]
<1> DEFINE g == SumOf(F, T)
           h == SumOf(F, S)
           good == {n \in Nat : \A s \in SUBSET T : Cardinality(s) <= n => g[s] = h[s]}
<1>1. IsFiniteSet(T)
  BY FS_Subset
<1>2. \A s \in SUBSET T : g[s] = SumBody(F, g, s) /\ h[s] = SumBody(F, h, s)
  <2>1. ASSUME NEW s \in SUBSET T PROVE g[s] = SumBody(F, g, s) /\ h[s] = SumBody(F, h, s)
    <3>1. s \in SUBSET S
      OBVIOUS
    <3> QED
      BY <1>1, <3>1, SumDefined
  <2> QED
    BY <2>1
<1> HIDE DEF g, h
<1>3. 0 \in good
  <2>1. ASSUME NEW s \in SUBSET T, Cardinality(s) <= 0 PROVE s = {}
    BY <1>1, <2>1, FS_Subset, FS_EmptySet, FS_CardinalityType
  <2> QED
    BY <1>2, <2>1 DEF SumBody
<1>4. ASSUME NEW n \in Nat, n \in good PROVE n + 1 \in good
  <2>1. ASSUME NEW s \in SUBSET T, Cardinality(s) <= n + 1 PROVE g[s] = h[s]
    <3>1. CASE s = {}
      BY <1>2, <3>1 DEF SumBody
    <3>2. CASE s # {}
      <4>1. IsFiniteSet(s) /\ Pick(s) \in s
        BY <1>1, <3>2, FS_Subset, PickIn
      <4>2. s \ {Pick(s)} \in SUBSET T /\ Cardinality(s \ {Pick(s)}) <= n
        BY <2>1, <4>1, Smaller
      <4>3. g[s \ {Pick(s)}] = h[s \ {Pick(s)}]
        BY <1>4, <4>2
      <4> QED
        BY <1>2, <3>2, <4>3 DEF SumBody
    <3> QED
      BY <3>1, <3>2
  <2> QED
    BY <2>1
<1>5. Nat \subseteq good
  BY <1>3, <1>4, AllNumbers
<1>6. Cardinality(T) \in good /\ \A s \in SUBSET T : Cardinality(s) <= Cardinality(T)
  BY <1>1, <1>5, FS_Subset, FS_CardinalityType
<1> QED
  BY <1>6 DEF g, h

LEMMA TotalEmpty ==
    ASSUME NEW F
    PROVE  Total(F, {}) = 0
<1>1. SumOf(F, {})[{}] = SumBody(F, SumOf(F, {}), {})
  BY SumDefined, FS_EmptySet
<1> QED
  BY <1>1, TotalSum DEF SumBody

LEMMA TotalStep ==
    ASSUME NEW F, NEW S, IsFiniteSet(S), S # {}
    PROVE  Total(F, S) = F[Pick(S)] + Total(F, S \ {Pick(S)})
<1> DEFINE rest == S \ {Pick(S)}
<1>1. SumOf(F, S)[S] = SumBody(F, SumOf(F, S), S)
  BY SumDefined
<1>2. SumOf(F, rest)[rest] = SumOf(F, S)[rest]
  BY SumAgrees
<1> QED
  BY <1>1, <1>2, TotalSum DEF SumBody

\* A sum of integers is one, and the same for amounts that are the same.
LEMMA TotalSame ==
    ASSUME NEW F, NEW G, NEW S, IsFiniteSet(S), \A x \in S : F[x] \in Int /\ F[x] = G[x]
    PROVE  Total(F, S) \in Int /\ Total(F, S) = Total(G, S)
<1> DEFINE Same(T) == Total(F, T) \in Int /\ Total(F, T) = Total(G, T)
           good == {n \in Nat : \A T \in SUBSET S : Cardinality(T) <= n => Same(T)}
<1>1. Same({})
  BY TotalEmpty
<1>2. 0 \in good
  <2>1. ASSUME NEW T \in SUBSET S, Cardinality(T) <= 0 PROVE T = {}
    BY <2>1, FS_Subset, FS_EmptySet, FS_CardinalityType
  <2> QED
    BY <1>1, <2>1
<1>3. ASSUME NEW n \in Nat, n \in good PROVE n + 1 \in good
  <2>1. ASSUME NEW T \in SUBSET S, Cardinality(T) <= n + 1 PROVE Same(T)
    <3>1. CASE T # {}
      <4> DEFINE rest == T \ {Pick(T)}
      <4>1. IsFiniteSet(T) /\ Pick(T) \in T
        BY <3>1, FS_Subset, PickIn
      <4>2. rest \in SUBSET S /\ Cardinality(rest) <= n
        BY <2>1, <4>1, Smaller
      <4>3. Same(rest)
        BY <1>3, <4>2
      <4>4. Total(F, T) = F[Pick(T)] + Total(F, rest) /\ Total(G, T) = G[Pick(T)] + Total(G, rest)
        BY <3>1, <4>1, TotalStep
      <4>5. F[Pick(T)] \in Int /\ F[Pick(T)] = G[Pick(T)]
        BY <4>1
      <4> HIDE DEF rest
      <4> QED
        BY <4>3, <4>4, <4>5
    <3> QED
      BY <1>1, <3>1
  <2> QED
    BY <2>1
<1>4. Cardinality(S) \in good
  BY <1>2, <1>3, AllNumbers, FS_CardinalityType
<1> HIDE DEF Same
<1>5. Same(S)
  BY <1>4, FS_CardinalityType
<1> QED
  BY <1>5 DEF Same

\* Any element may be taken out first.
LEMMA TotalRemove ==
    ASSUME NEW F, NEW S, IsFiniteSet(S), \A x \in S : F[x] \in Int, NEW e \in S
    PROVE  Total(F, S) = F[e] + Total(F, S \ {e})
<1> DEFINE Removes(T) == \A x \in T : Total(F, T) = F[x] + Total(F, T \ {x})
           good == {n \in Nat : \A T \in SUBSET S : Cardinality(T) <= n => Removes(T)}
<1>1. 0 \in good
  <2>1. ASSUME NEW T \in SUBSET S, Cardinality(T) <= 0 PROVE T = {}
    BY <2>1, FS_Subset, FS_EmptySet, FS_CardinalityType
  <2> QED
    BY <2>1
<1>2. ASSUME NEW n \in Nat, n \in good PROVE n + 1 \in good
  <2>1. ASSUME NEW T \in SUBSET S, Cardinality(T) <= n + 1, NEW x \in T
        PROVE  Total(F, T) = F[x] + Total(F, T \ {x})
    <3> DEFINE c == Pick(T)
    <3>1. IsFiniteSet(T) /\ c \in T /\ T # {}
      BY <2>1, FS_Subset, PickIn
    <3>2. Total(F, T) = F[c] + Total(F, T \ {c})
      BY <3>1, TotalStep
    <3> HIDE DEF c
    <3>3. CASE x = c
      BY <3>2, <3>3
    <3>4. CASE x # c
      <4>1. /\ T \ {c} \in SUBSET S /\ Cardinality(T \ {c}) <= n /\ x \in T \ {c}
            /\ T \ {x} \in SUBSET S /\ Cardinality(T \ {x}) <= n /\ c \in T \ {x}
        BY <2>1, <3>1, <3>4, Smaller
      <4>2. Total(F, T \ {c}) = F[x] + Total(F, (T \ {c}) \ {x})
        BY <1>2, <4>1
      <4>3. Total(F, T \ {x}) = F[c] + Total(F, (T \ {x}) \ {c})
        BY <1>2, <4>1
      <4> DEFINE others == Total(F, (T \ {x}) \ {c})
      <4>4. Total(F, T \ {c}) = F[x] + others /\ Total(F, T \ {x}) = F[c] + others
        <5>1. (T \ {c}) \ {x} = (T \ {x}) \ {c}
          OBVIOUS
        <5> QED
          BY <4>2, <4>3, <5>1
      <4>5. F[x] \in Int /\ F[c] \in Int /\ others \in Int
        <5>1. IsFiniteSet((T \ {x}) \ {c}) /\ \A y \in (T \ {x}) \ {c} : F[y] \in Int
          BY <2>1, <3>1, FS_Subset
        <5> QED
          BY <2>1, <3>1, <5>1, TotalSame
      <4> HIDE DEF others
      <4> QED
        BY <3>2, <4>4, <4>5
    <3> QED
      BY <3>3, <3>4
  <2> QED
    BY <2>1
<1>3. Cardinality(S) \in good
  BY <1>1, <1>2, AllNumbers, FS_CardinalityType
<1> HIDE DEF Removes
<1>4. Removes(S)
  BY <1>3, FS_CardinalityType
<1> QED
  BY <1>4 DEF Removes
-----------------------------------------------------------------------------
(* The arithmetic of one step of a swap (TickMath).                        *)

LEMMA TickConstants ==
    /\ MinTick \in Int /\ MaxTick \in Int /\ MinTick < MaxTick
    /\ One \in Nat \ {0} /\ WordBits \in Nat \ {0} /\ WalkTurns \in Nat \ {0}
    /\ Radius \in Nat
    /\ Pool!Ticks = MinTick .. MaxTick
    /\ \A t \in MinTick .. MaxTick : Ratio[t] \in Nat \ {0}
    /\ \A t, u \in MinTick .. MaxTick : t < u => Ratio[t] < Ratio[u]
  BY DEF Pool!PoolTradesAssumption, Pool!PriceTable, Pool!Ticks

LEMMA MulStrict ==
    ASSUME NEW a \in Int, NEW b \in Int, NEW c \in Nat \ {0}, a < b
    PROVE  a * c \in Int /\ b * c \in Int /\ a * c < b * c
  OBVIOUS

LEMMA MulBack ==
    ASSUME NEW a \in Int, NEW b \in Int, NEW c \in Nat \ {0}, a * c < b * c
    PROVE  a < b
<1>1. ASSUME b <= a PROVE FALSE
  <2>1. b * c <= a * c
    BY <1>1
  <2> QED
    BY <2>1
<1> QED
  BY <1>1

\* A quotient rounded up, and what lies below it.
LEMMA CeilFacts ==
    ASSUME NEW a \in Nat, NEW b \in Nat \ {0}
    PROVE  /\ Pool!DivUp(a, b) \in Nat
           /\ a <= Pool!DivUp(a, b) * b
           /\ Pool!DivUp(a, b) * b < a + b
<1> DEFINE q == (a + b - 1) \div b
<1>1. q \in Nat /\ q * b <= a + b - 1 /\ a + b - 1 < q * b + b
  OBVIOUS
<1> HIDE DEF q
<1>2. q * b \in Nat
  BY <1>1
<1>3. a <= q * b /\ q * b < a + b
  BY <1>1, <1>2
<1> QED
  BY <1>1, <1>3 DEF Pool!DivUp, q

LEMMA BelowCeil ==
    ASSUME NEW a \in Nat, NEW b \in Nat \ {0}, NEW n \in Int, n < Pool!DivUp(a, b)
    PROVE  n * b < a
<1> DEFINE q == Pool!DivUp(a, b)
<1>1. q \in Nat /\ q * b < a + b
  BY CeilFacts
<1> HIDE DEF q
<1>2. n + 1 <= q
  BY <1>1 DEF q
<1>3. (n + 1) * b <= q * b
  BY <1>1, <1>2
<1>4. (n + 1) * b = n * b + b /\ n * b \in Int /\ q * b \in Int
  BY <1>1
<1> QED
  BY <1>1, <1>3, <1>4

LEMMA CeilAtMost ==
    ASSUME NEW a \in Nat, NEW b \in Nat \ {0}, NEW n \in Int, a <= n * b
    PROVE  Pool!DivUp(a, b) <= n
<1>1. ASSUME n < Pool!DivUp(a, b) PROVE FALSE
  <2>1. n * b < a
    BY <1>1, BelowCeil
  <2> QED
    BY <2>1
<1>2. Pool!DivUp(a, b) \in Nat
  BY CeilFacts
<1> QED
  BY <1>1, <1>2

LEMMA CeilAbove ==
    ASSUME NEW a \in Nat, NEW b \in Nat \ {0}, NEW n \in Int, n * b < a
    PROVE  n < Pool!DivUp(a, b)
<1>1. Pool!DivUp(a, b) \in Nat /\ a <= Pool!DivUp(a, b) * b
  BY CeilFacts
<1>2. n * b < Pool!DivUp(a, b) * b
  BY <1>1
<1> QED
  BY <1>1, <1>2, MulBack

\* The product that a step works with.
LEMMA LiquidityTimes ==
    ASSUME NEW liquidity \in Nat
    PROVE  liquidity * One \in Nat /\ (liquidity * One = 0 <=> liquidity = 0)
  BY TickConstants

\* What reaches a lower price, and what falls short of it.
LEMMA DownCost ==
    ASSUME NEW p \in Nat \ {0}, NEW t \in Nat \ {0}, t <= p, NEW liquidity \in Nat
    PROVE  LET cost == Pool!Amount0(t, p, liquidity, TRUE) IN
           /\ cost \in Nat
           /\ \A a \in Nat : a < cost =>
                (liquidity * One + a * p) * t < (liquidity * One) * p
<1> DEFINE k == liquidity * One
           product == k * (p - t)
           once == Pool!DivUp(product, p)
           cost == Pool!DivUp(once, t)
<1>1. k \in Nat /\ p - t \in Nat
  BY LiquidityTimes
<1> HIDE DEF k
<1>2. product \in Nat /\ product = k * p - k * t
  BY <1>1
<1>3. Pool!Amount0(t, p, liquidity, TRUE) = cost
  BY DEF Pool!Amount0, Pool!Least, Pool!Most, k
<1> HIDE DEF product
<1>4. once \in Nat
  BY <1>2, CeilFacts
<1> HIDE DEF once
<1>5. cost \in Nat
  BY <1>4, CeilFacts
<1>6. ASSUME NEW a \in Nat, a < cost
      PROVE  (k + a * p) * t < k * p
  <2>1. a * t < once
    BY <1>4, <1>6, BelowCeil
  <2>2. (a * t) * p < product
    <3>1. a * t \in Int
      OBVIOUS
    <3> HIDE DEF cost
    <3> QED
      BY <1>2, <2>1, <3>1, BelowCeil DEF once
  <2>3. (k + a * p) * t = k * t + (a * t) * p
    <3>1. (k + a * p) * t = k * t + (a * p) * t
      BY <1>1
    <3>2. (a * p) * t = (a * t) * p
      OBVIOUS
    <3> QED
      BY <3>1, <3>2
  <2>4. k * t \in Int /\ k * p \in Int /\ (a * t) * p \in Int
    BY <1>1
  <2> QED
    BY <1>2, <2>2, <2>3, <2>4
<1> QED
  BY <1>3, <1>5, <1>6 DEF k

LEMMA DownPrice ==
    ASSUME NEW p \in Nat \ {0}, NEW t \in Nat \ {0}, t <= p, NEW liquidity \in Nat,
           NEW a \in Nat, a < Pool!Amount0(t, p, liquidity, TRUE)
    PROVE  Pool!NextPrice(p, liquidity, a, TRUE) \in t .. p
<1> DEFINE k == liquidity * One
           next == Pool!DivUp(k * p, k + a * p)
<1>1. k \in Nat /\ (k + a * p) * t < k * p
  BY LiquidityTimes, DownCost
<1> HIDE DEF k
<1>2. CASE a = 0
  BY <1>2 DEF Pool!NextPrice
<1>3. CASE a # 0
  <2>1. Pool!NextPrice(p, liquidity, a, TRUE) = next
    BY <1>3 DEF Pool!NextPrice, k
  <2>2. a * p \in Nat \ {0}
    BY <1>3
  <2> DEFINE d == k + a * p
  <2>3. d \in Nat \ {0} /\ k <= d /\ k * p \in Nat
    BY <1>1, <2>2
  <2>4. k * p <= p * d
    <3> HIDE DEF d
    <3>1. k * p <= d * p
      BY <1>1, <2>3
    <3>2. d * p = p * d
      BY <2>3
    <3> QED
      BY <3>1, <3>2
  <2>5. t * d < k * p
    <3>1. d * t < k * p
      BY <1>1
    <3> HIDE DEF d
    <3>2. d * t = t * d
      BY <2>3
    <3> QED
      BY <3>1, <3>2
  <2>6. next = Pool!DivUp(k * p, d)
    OBVIOUS
  <2> DEFINE n == k * p
  <2>7. n \in Nat /\ n <= p * d /\ t * d < n /\ next = Pool!DivUp(n, d)
    BY <2>3, <2>4, <2>5, <2>6
  <2> HIDE DEF d, next, n
  <2>8. next \in Nat
    BY <2>3, <2>7, CeilFacts
  <2>9. next <= p
    BY <2>3, <2>7, CeilAtMost
  <2>10. t < next
    BY <2>3, <2>7, CeilAbove
  <2>11. next \in t .. p
    BY <2>8, <2>9, <2>10
  <2> QED
    BY <2>1, <2>11
<1> QED
  BY <1>2, <1>3

\* And upwards.
LEMMA UpCost ==
    ASSUME NEW p \in Nat \ {0}, NEW t \in Nat \ {0}, p < t, NEW liquidity \in Nat
    PROVE  LET cost == Pool!Amount1(p, t, liquidity, TRUE) IN
           /\ cost \in Nat
           /\ \A a \in Nat : a < cost => a * One < (t - p) * liquidity
<1>1. One \in Nat \ {0} /\ t - p \in Nat
  BY TickConstants
<1>2. liquidity * (t - p) \in Nat /\ liquidity * (t - p) = (t - p) * liquidity
  BY <1>1
<1>3. Pool!Amount1(p, t, liquidity, TRUE) = Pool!DivUp(liquidity * (t - p), One)
  BY DEF Pool!Amount1, Pool!Least, Pool!Most
<1>4. \A a \in Nat : a < Pool!DivUp(liquidity * (t - p), One) => a * One < liquidity * (t - p)
  BY <1>1, <1>2, BelowCeil
<1>5. Pool!DivUp(liquidity * (t - p), One) \in Nat
  BY <1>1, <1>2, CeilFacts
<1> QED
  BY <1>2, <1>3, <1>4, <1>5

LEMMA UpPrice ==
    ASSUME NEW p \in Nat \ {0}, NEW t \in Nat \ {0}, p < t, NEW liquidity \in Nat,
           NEW a \in Nat, a < Pool!Amount1(p, t, liquidity, TRUE)
    PROVE  Pool!NextPrice(p, liquidity, a, FALSE) \in p .. t
<1> DEFINE q == (a * One) \div liquidity
<1>0. a * One < (t - p) * liquidity
  BY UpCost
<1>1. a * One < (t - p) * liquidity /\ a * One \in Nat
  <2>1. a * One \in Nat
    BY TickConstants
  <2> QED
    BY <1>0, <2>1
<1>2. liquidity # 0
  <2>1. (t - p) * 0 = 0
    OBVIOUS
  <2> QED
    BY <1>1, <2>1
<1>3. q \in Nat /\ q * liquidity <= a * One
  <2> DEFINE n == a * One
  <2> HIDE DEF n
  <2>1. n \in Nat => n \div liquidity \in Nat /\ (n \div liquidity) * liquidity <= n
    BY <1>2
  <2> QED
    BY <1>1, <2>1 DEF n
<1>4. Pool!NextPrice(p, liquidity, a, FALSE) = p + q
  BY DEF Pool!NextPrice
<1> HIDE DEF q
<1>5. q < t - p
  <2>1. q * liquidity < (t - p) * liquidity
    <3>1. q * liquidity \in Int /\ (t - p) * liquidity \in Int
      BY <1>3
    <3> QED
      BY <1>1, <1>3, <3>1
  <2> QED
    BY <1>2, <1>3, <2>1, MulBack
<1>6. q \in Nat /\ q < t - p
  BY <1>3, <1>5
<1>7. p + q \in p .. t
  BY <1>6
<1> QED
  BY <1>4, <1>7
-----------------------------------------------------------------------------
(* One step of a swap.                                                     *)

LEMMA AmountsTyped ==
    ASSUME NEW a \in Nat \ {0}, NEW b \in Nat \ {0}, NEW liquidity \in Nat, NEW up \in BOOLEAN
    PROVE  Pool!Amount0(a, b, liquidity, up) \in Nat /\ Pool!Amount1(a, b, liquidity, up) \in Nat
<1> DEFINE least == Pool!Least(a, b)
           most == Pool!Most(a, b)
           k == liquidity * One
           product0 == k * (most - least)
           product1 == liquidity * (most - least)
<1>1. least \in Nat \ {0} /\ most \in Nat \ {0} /\ most - least \in Nat
  BY DEF Pool!Least, Pool!Most
<1> HIDE DEF least, most
<1>2. k \in Nat /\ One \in Nat \ {0}
  BY LiquidityTimes, TickConstants
<1> HIDE DEF k
<1>3. product0 \in Nat /\ product1 \in Nat
  BY <1>1, <1>2
<1> HIDE DEF product0, product1
<1>4. /\ Pool!DivUp(product0, most) \in Nat /\ Pool!DivUp(product1, One) \in Nat
      /\ product0 \div most \in Nat /\ product1 \div One \in Nat
  BY <1>1, <1>2, <1>3, CeilFacts, QuotientTimes
<1>5. Pool!DivUp(Pool!DivUp(product0, most), least) \in Nat
      /\ (product0 \div most) \div least \in Nat
  <2> DEFINE q == product0 \div most
             c == Pool!DivUp(product0, most)
  <2>1. q \in Nat /\ c \in Nat
    BY <1>4
  <2> HIDE DEF q, c
  <2>2. Pool!DivUp(c, least) \in Nat /\ q \div least \in Nat
    BY <1>1, <2>1, CeilFacts
  <2> QED
    BY <2>2 DEF q, c
<1> QED
  BY <1>4, <1>5 DEF Pool!Amount0, Pool!Amount1, least, most, product0, product1, k

LEMMA InOutTyped ==
    ASSUME NEW a \in Nat \ {0}, NEW b \in Nat \ {0}, NEW liquidity \in Nat, NEW z
    PROVE  Pool!AmountIn(a, b, liquidity, z) \in Nat /\ Pool!AmountOut(a, b, liquidity, z) \in Nat
<1>1. \A up \in BOOLEAN : /\ Pool!Amount0(a, b, liquidity, up) \in Nat
                          /\ Pool!Amount0(b, a, liquidity, up) \in Nat
                          /\ Pool!Amount1(a, b, liquidity, up) \in Nat
                          /\ Pool!Amount1(b, a, liquidity, up) \in Nat
  BY AmountsTyped
<1>2. CASE z
  BY <1>1, <1>2 DEF Pool!AmountIn, Pool!AmountOut
<1>3. CASE ~z
  BY <1>1, <1>3 DEF Pool!AmountIn, Pool!AmountOut
<1> QED
  BY <1>2, <1>3

\* The fee on an input that is reached leaves no less than nothing.
LEMMA FeeFitsStep ==
    ASSUME NEW remaining \in Nat, NEW fee \in Nat, NEW pips \in Nat \ {0}, fee < pips,
           NEW in \in Nat, in <= (remaining * (pips - fee)) \div pips
    PROVE  Pool!DivUp(in * fee, pips - fee) \in Nat
           /\ in + Pool!DivUp(in * fee, pips - fee) <= remaining
<1> DEFINE d == pips - fee
           m == remaining * d
           q == m \div pips
<1>1. d \in Nat \ {0} /\ pips = d + fee
  OBVIOUS
<1> HIDE DEF d
<1>2. m \in Nat
  BY <1>1
<1> HIDE DEF m
<1>3. q \in Nat /\ q * pips <= m
  BY <1>2, QuotientTimes
<1>4. in <= q
  BY DEF d, m
<1> HIDE DEF q
<1>5. in * pips <= m
  <2>1. in * pips <= q * pips
    BY <1>3, <1>4
  <2>2. in * pips \in Int /\ q * pips \in Int
    BY <1>3
  <2> QED
    BY <1>2, <1>3, <2>1, <2>2
<1>6. in * pips = in * d + in * fee
  BY <1>1
<1>7. in * d \in Nat /\ in * fee \in Nat /\ remaining * d \in Nat
  BY <1>1
<1>8. in * fee <= remaining * d - in * d
  BY <1>5, <1>6, <1>7 DEF m
<1>9. remaining * d - in * d = (remaining - in) * d
  BY <1>1
<1>10. Pool!DivUp(in * fee, d) \in Nat /\ Pool!DivUp(in * fee, d) <= remaining - in
  <2> DEFINE f == in * fee
             n == remaining - in
  <2>1. f \in Nat /\ n \in Int /\ f <= n * d
    BY <1>7, <1>8, <1>9
  <2> HIDE DEF f, n
  <2>2. Pool!DivUp(f, d) \in Nat /\ Pool!DivUp(f, d) <= n
    BY <1>1, <2>1, CeilFacts, CeilAtMost
  <2> QED
    BY <2>2 DEF f, n
<1> QED
  BY <1>10 DEF d

Versions == {"v3", "v4", "pancake"}

\* A step ends between its start and its target, and leaves what it did not take.
StepHolds(step, p, t, remaining) ==
    /\ step.price \in Nat \ {0}
    /\ step.price \in t .. p \/ step.price \in p .. t
    /\ step.out \in Int
    /\ remaining - step.in - step.fee \in Nat

LEMMA PipsNat == Pool!Pips \in Nat \ {0}
  BY SMT DEF Pool!Pips

LEMMA StepFacts ==
    ASSUME NEW version \in Versions, NEW p \in Nat \ {0}, NEW t \in Nat \ {0},
           NEW liquidity \in Nat, NEW remaining \in Nat, NEW fee \in 0 .. Pool!Pips
    PROVE  StepHolds(Pool!SwapStep(version, p, t, liquidity, remaining, fee), p, t, remaining)
<1> DEFINE down == p >= t
           lessFee == (remaining * (Pool!Pips - fee)) \div Pool!Pips
           cost == Pool!AmountIn(p, t, liquidity, down)
           reached == lessFee >= cost
           next == IF reached THEN t ELSE Pool!NextPrice(p, liquidity, lessFee, down)
           in == IF reached THEN cost
                 ELSE IF version = "v4" THEN Pool!ShortInV4(lessFee)
                                        ELSE Pool!ShortInV3(p, next, liquidity, down)
           out == Pool!AmountOut(p, next, liquidity, down)
           paid == IF ~reached THEN remaining - in
                   ELSE IF fee = Pool!Pips THEN in
                        ELSE Pool!DivUp(in * fee, Pool!Pips - fee)
<1>1. Pool!SwapStep(version, p, t, liquidity, remaining, fee)
        = [price |-> next, in |-> in, out |-> out, fee |-> paid]
  BY DEF Pool!SwapStep
<1>2. Pool!Pips \in Nat \ {0} /\ fee \in Nat /\ Pool!Pips - fee \in Nat
  BY PipsNat
<1>3. lessFee \in Nat
  <2>1. remaining * (Pool!Pips - fee) \in Nat
    <3> DEFINE d == Pool!Pips - fee
    <3> HIDE DEF d
    <3>1. d \in Nat => remaining * d \in Nat
      OBVIOUS
    <3> QED
      BY <1>2, <3>1 DEF d
  <2> DEFINE n == remaining * (Pool!Pips - fee)
  <2> HIDE DEF n
  <2>2. n \in Nat => n \div Pool!Pips \in Nat
    BY <1>2
  <2> QED
    BY <2>1, <2>2 DEF n
<1>4. cost \in Nat
  <2> HIDE DEF down
  <2> QED
    BY InOutTyped
<1>5. ASSUME ~reached
      PROVE  next \in Nat \ {0} /\ (next \in t .. p \/ next \in p .. t)
  <2>1. lessFee < cost /\ next = Pool!NextPrice(p, liquidity, lessFee, down)
    BY <1>3, <1>4, <1>5
  <2>4. p \in Nat /\ t \in Nat /\ (down \/ p < t)
    OBVIOUS
  <2>5. /\ down => t <= p /\ cost = Pool!Amount0(t, p, liquidity, TRUE)
                    /\ Pool!NextPrice(p, liquidity, lessFee, down)
                         = Pool!NextPrice(p, liquidity, lessFee, TRUE)
        /\ ~down => cost = Pool!Amount1(p, t, liquidity, TRUE)
                    /\ Pool!NextPrice(p, liquidity, lessFee, down)
                         = Pool!NextPrice(p, liquidity, lessFee, FALSE)
    <3>1. down => t <= p
      OBVIOUS
    <3> HIDE DEF down, lessFee
    <3> QED
      BY <3>1 DEF Pool!AmountIn, Pool!NextPrice
  <2> HIDE DEF lessFee, cost, next, down
  <2>2. CASE down
    <3>1. lessFee < Pool!Amount0(t, p, liquidity, TRUE)
      BY <2>1, <2>2, <2>5
    <3>2. Pool!NextPrice(p, liquidity, lessFee, TRUE) \in t .. p
      BY <1>3, <2>2, <2>5, <3>1, DownPrice
    <3>3. next \in t .. p
      BY <2>1, <2>2, <2>5, <3>2
    <3> QED
      BY <2>4, <3>3
  <2>3. CASE ~down
    <3>1. lessFee < Pool!Amount1(p, t, liquidity, TRUE)
      BY <2>1, <2>3, <2>5
    <3>2. Pool!NextPrice(p, liquidity, lessFee, FALSE) \in p .. t
      BY <1>3, <2>3, <2>4, <3>1, UpPrice
    <3>3. next \in p .. t
      BY <2>1, <2>3, <2>5, <3>2
    <3> QED
      BY <2>4, <3>3
  <2> QED
    BY <2>2, <2>3
<1>6. next \in Nat \ {0} /\ (next \in t .. p \/ next \in p .. t)
  <2>1. CASE reached
    <3>1. next = t
      BY <2>1
    <3> QED
      BY <3>1
  <2> QED
    BY <1>5, <2>1
<1> HIDE DEF down
<1>7. out \in Int
  <2> HIDE DEF next
  <2> QED
    BY <1>6, InOutTyped
<1>8. in \in Nat
  <2>1. CASE reached
    BY <1>4, <2>1
  <2>2. CASE ~reached
    <3>1. Pool!ShortInV3(p, next, liquidity, down) \in Nat
      <4> HIDE DEF next
      <4> QED
        BY <1>6, InOutTyped DEF Pool!ShortInV3
    <3>2. Pool!ShortInV4(lessFee) \in Nat
      BY <1>3 DEF Pool!ShortInV4
    <3> QED
      BY <2>2, <3>1, <3>2
  <2> QED
    BY <2>1, <2>2
<1>9. remaining - in - paid \in Nat
  <2>1. CASE ~reached
    <3>1. paid = remaining - in
      BY <2>1
    <3> HIDE DEF in, paid
    <3> QED
      BY <1>8, <3>1
  <2>2. CASE reached /\ fee = Pool!Pips
    <3>1. in = cost /\ paid = in
      BY <2>2
    <3>2. lessFee = 0
      <4>1. Pool!Pips - fee = 0
        BY <1>2, <2>2
      <4>2. remaining * (Pool!Pips - fee) = 0
        BY <4>1
      <4> QED
        BY <1>2, <4>2
    <3>3. in = 0
      BY <1>4, <2>2, <3>1, <3>2
    <3> HIDE DEF in, paid
    <3> QED
      BY <3>1, <3>3
  <2>3. CASE reached /\ fee # Pool!Pips
    <3>1. in = cost /\ paid = Pool!DivUp(in * fee, Pool!Pips - fee)
      BY <2>3
    <3>2. fee < Pool!Pips /\ in <= (remaining * (Pool!Pips - fee)) \div Pool!Pips
      BY <1>2, <1>3, <1>4, <2>3, <3>1
    <3> HIDE DEF in, paid
    <3>3. /\ Pool!DivUp(in * fee, Pool!Pips - fee) \in Nat
          /\ in + Pool!DivUp(in * fee, Pool!Pips - fee) <= remaining
      BY <1>2, <1>8, <3>2, FeeFitsStep
    <3> QED
      BY <1>8, <3>1, <3>3
  <2> QED
    BY <2>1, <2>2, <2>3
<1> HIDE DEF next, in, out, paid
<1> QED
  BY <1>1, <1>6, <1>7, <1>9 DEF StepHolds
-----------------------------------------------------------------------------
(* Ticks, words and the liquidity in range.                                *)

LEMMA GreatestExists ==
    ASSUME NEW a \in Int, NEW b \in Int, NEW S \in SUBSET (a .. b), S # {}
    PROVE  \E m \in S : \A x \in S : x <= m
<1> DEFINE gaps == {b - x : x \in S}
<1>1. gaps \in SUBSET Nat /\ gaps # {}
  <2>1. \A x \in S : b - x \in Nat
    OBVIOUS
  <2> QED
    BY <2>1
<1>2. PICK d \in gaps : \A e \in gaps : d <= e
  BY <1>1, LeastExists
<1>3. PICK m \in S : d = b - m
  BY <1>2
<1>4. ASSUME NEW x \in S PROVE x <= m
  <2>1. d <= b - x
    BY <1>2
  <2> QED
    BY <1>3, <2>1
<1> QED
  BY <1>4

LEMMA SmallestExists ==
    ASSUME NEW a \in Int, NEW b \in Int, NEW S \in SUBSET (a .. b), S # {}
    PROVE  \E m \in S : \A x \in S : m <= x
<1> DEFINE gaps == {x - a : x \in S}
<1>1. gaps \in SUBSET Nat /\ gaps # {}
  <2>1. \A x \in S : x - a \in Nat
    OBVIOUS
  <2> QED
    BY <2>1
<1>2. PICK d \in gaps : \A e \in gaps : d <= e
  BY <1>1, LeastExists
<1>3. PICK m \in S : d = m - a
  BY <1>2
<1>4. ASSUME NEW x \in S PROVE m <= x
  <2>1. d <= x - a
    BY <1>2
  <2> QED
    BY <1>3, <2>1
<1> QED
  BY <1>4

LEMMA PricesRise ==
    ASSUME NEW t \in MinTick .. MaxTick, NEW u \in MinTick .. MaxTick, t <= u
    PROVE  Ratio[t] \in Nat \ {0} /\ Ratio[u] \in Nat \ {0} /\ Ratio[t] <= Ratio[u]
<1>1. CASE t = u
  BY <1>1, TickConstants
<1>2. CASE t < u
  BY <1>2, TickConstants
<1> QED
  BY <1>1, <1>2, TickConstants

\* The tick of a price that is initialized.
LEMMA TickOfPrice ==
    ASSUME NEW p \in Nat, Ratio[MinTick] <= p, p < Ratio[MaxTick]
    PROVE  /\ Pool!TickAt(p) \in MinTick .. MaxTick /\ Pool!TickAt(p) < MaxTick
           /\ Ratio[Pool!TickAt(p)] <= p /\ p < Ratio[Pool!TickAt(p) + 1]
<1> DEFINE S == {t \in MinTick .. MaxTick : Ratio[t] <= p}
           tick == Pool!TickAt(p)
<1>1. MinTick \in Int /\ MaxTick \in Int /\ MinTick < MaxTick /\ Pool!Ticks = MinTick .. MaxTick
  BY TickConstants
<1>2. MinTick \in S /\ S \in SUBSET (MinTick .. MaxTick)
  BY <1>1
<1> HIDE DEF S
<1>3. PICK m \in S : \A x \in S : x <= m
  BY <1>1, <1>2, GreatestExists
<1>4. \E t \in Pool!Ticks : Ratio[t] <= p /\ \A u \in Pool!Ticks : Ratio[u] <= p => u <= t
  BY <1>1, <1>3 DEF S
<1>5. /\ tick \in Pool!Ticks /\ Ratio[tick] <= p
      /\ \A u \in Pool!Ticks : Ratio[u] <= p => u <= tick
  BY <1>4 DEF Pool!TickAt
<1> HIDE DEF tick
<1>6. Ratio[MaxTick] \in Nat /\ \A t \in MinTick .. MaxTick : Ratio[t] \in Nat
  BY <1>1, TickConstants
<1>7. tick # MaxTick
  BY <1>5, <1>6
<1>8. tick \in MinTick .. MaxTick /\ tick < MaxTick /\ tick + 1 \in MinTick .. MaxTick
  BY <1>1, <1>5, <1>7
<1>9. p < Ratio[tick + 1]
  <2>1. ~(Ratio[tick + 1] <= p)
    <3>1. Ratio[tick + 1] <= p => tick + 1 <= tick
      BY <1>1, <1>5, <1>8
    <3> QED
      BY <1>8, <3>1
  <2> QED
    BY <1>6, <1>8, <2>1
<1> QED
  BY <1>5, <1>8, <1>9 DEF tick

\* The initialized ticks of a pool: finitely many multiples of its spacing.
Book(nets, spacing) ==
    /\ spacing \in Nat \ {0}
    /\ nets \subseteq MinTick .. MaxTick
    /\ \A t \in nets : (t \div spacing) * spacing = t

\* Where a tick is among the multiples of the spacing, and where those are in words.
LEMMA Compressed ==
    ASSUME NEW tick \in Int, NEW spacing \in Nat \ {0}
    PROVE  LET q == tick \div spacing IN
           q \in Int /\ q * spacing \in Int /\ q * spacing <= tick /\ tick < (q + 1) * spacing
<1> DEFINE q == tick \div spacing
<1>1. q \in Int /\ q * spacing <= tick /\ tick < q * spacing + spacing
  OBVIOUS
<1> HIDE DEF q
<1>2. (q + 1) * spacing = q * spacing + spacing
  BY <1>1
<1>3. q * spacing \in Int
  BY <1>1
<1> QED
  BY <1>1, <1>2, <1>3 DEF q

LEMMA CompressedOrder ==
    ASSUME NEW n \in Int, NEW tick \in Int, NEW spacing \in Nat \ {0}
    PROVE  n * spacing <= tick <=> n <= tick \div spacing
<1> DEFINE q == tick \div spacing
<1>1. q \in Int /\ q * spacing \in Int /\ q * spacing <= tick /\ tick < (q + 1) * spacing
  BY Compressed
<1> HIDE DEF q
<1>2. ASSUME n * spacing <= tick PROVE n <= q
  <2>1. n * spacing < (q + 1) * spacing
    <3>1. n * spacing \in Int /\ (q + 1) * spacing \in Int
      BY <1>1
    <3> QED
      BY <1>1, <1>2, <3>1
  <2>2. n < q + 1
    BY <1>1, <2>1, MulBack
  <2> QED
    BY <1>1, <2>2
<1>3. ASSUME n <= q PROVE n * spacing <= tick
  <2>1. n * spacing <= q * spacing
    BY <1>1, <1>3
  <2>2. n * spacing \in Int
    OBVIOUS
  <2> QED
    BY <1>1, <2>1, <2>2
<1> QED
  BY <1>2, <1>3 DEF q

LEMMA TimesWord ==
    ASSUME NEW w \in Int
    PROVE  w * WordBits \in Int /\ (w + 1) * WordBits = w * WordBits + WordBits
  BY TickConstants

LEMMA WordHas ==
    ASSUME NEW word \in Int, NEW spacing \in Nat \ {0}, NEW t
    PROVE  t \in Pool!WordTicks(word, spacing)
             <=> \E n \in word * WordBits .. word * WordBits + WordBits - 1 : t = n * spacing
<1> DEFINE top == (word + 1) * WordBits - 1
<1>1. top = word * WordBits + WordBits - 1
  BY TimesWord, TickConstants
<1>2. t \in Pool!WordTicks(word, spacing)
        <=> \E n \in word * WordBits .. top : t = n * spacing
  BY DEF Pool!WordTicks
<1> HIDE DEF top
<1> QED
  BY <1>1, <1>2

\* The next tick downwards: none that is initialized is passed over.
DownTick(next, nets, spacing, tick) ==
    /\ next.word = Pool!Word(tick, spacing)
    /\ next.tick \in Int /\ next.tick <= tick
    /\ next.initialized \in BOOLEAN
    /\ next.initialized => next.tick \in nets
    /\ ~next.initialized => next.tick \notin nets
    /\ \A t \in nets : ~(next.tick < t /\ t <= tick)

SameWord(seen, nets, word, spacing) ==
    \A t \in Pool!WordTicks(word, spacing) : t \in seen <=> t \in nets

LEMMA NextDown ==
    ASSUME NEW nets, NEW spacing, Book(nets, spacing), NEW tick \in Int, NEW seen,
           SameWord(seen, nets, Pool!Word(tick, spacing), spacing)
    PROVE  DownTick(Pool!NextTick(seen, tick, spacing, TRUE), nets, spacing, tick)
<1> DEFINE word == Pool!Word(tick, spacing)
           q == tick \div spacing
           ahead == {t \in seen \cap Pool!WordTicks(word, spacing) : t <= tick}
           edge == word * WordBits * spacing
           nt == IF ahead = {} THEN edge ELSE CHOOSE t \in ahead : \A u \in ahead : u <= t
           next == Pool!NextTick(seen, tick, spacing, TRUE)
<1>1. /\ spacing \in Nat \ {0} /\ WordBits \in Nat \ {0} /\ MinTick \in Int /\ MaxTick \in Int
      /\ nets \subseteq MinTick .. MaxTick /\ \A t \in nets : (t \div spacing) * spacing = t
  BY TickConstants DEF Book
<1>2. next.word = word /\ next.tick = nt /\ next.initialized = (ahead # {})
  BY DEF Pool!NextTick
<1>0. \A t : t \in ahead <=> t \in nets /\ t \in Pool!WordTicks(word, spacing) /\ t <= tick
  BY DEF SameWord
<1> HIDE DEF ahead
<1>3. word \in Int /\ q \in Int /\ word * WordBits <= q /\ q < word * WordBits + WordBits
  <2>1. q \in Int
    BY <1>1, Compressed
  <2>2. word = q \div WordBits
    BY DEF Pool!Word
  <2> HIDE DEF q, word
  <2>3. (q \div WordBits) \in Int /\ (q \div WordBits) * WordBits <= q
        /\ q < (q \div WordBits + 1) * WordBits
    BY <1>1, <2>1, Compressed
  <2> QED
    BY <2>1, <2>2, <2>3, TimesWord
<1> HIDE DEF word
<1>4. word * WordBits \in Int
  BY <1>3, TimesWord
<1> DEFINE bottom == word * WordBits
<1>5. bottom \in Int /\ bottom <= q /\ q < bottom + WordBits /\ edge = bottom * spacing
  BY <1>3, <1>4
<1>6. \A t : t \in Pool!WordTicks(word, spacing)
              <=> \E n \in bottom .. bottom + WordBits - 1 : t = n * spacing
  BY <1>1, <1>3, WordHas
<1> HIDE DEF bottom
<1>7. edge \in Int /\ edge <= tick
  <2>1. bottom * spacing <= tick
    BY <1>1, <1>3, <1>5, CompressedOrder DEF q
  <2>2. bottom * spacing \in Int
    BY <1>1, <1>5
  <2> QED
    BY <1>5, <2>1, <2>2
<1> HIDE DEF edge, q
<1>8. ASSUME NEW t \in nets, edge <= t, t <= tick PROVE t \in ahead
  <2> DEFINE n == t \div spacing
  <2>1. t \in Int
    BY <1>1
  <2>2. n \in Int /\ n * spacing = t
    BY <1>1, <2>1, Compressed
  <2> HIDE DEF n
  <2>3. n <= q
    BY <1>1, <1>8, <2>2, CompressedOrder DEF q
  <2>4. bottom <= n
    <3>1. bottom <= t \div spacing
      BY <1>1, <1>5, <1>8, <2>1, CompressedOrder
    <3> QED
      BY <3>1 DEF n
  <2>5. n \in bottom .. bottom + WordBits - 1
    BY <1>1, <1>3, <1>5, <2>2, <2>3, <2>4
  <2> QED
    BY <1>0, <1>6, <1>8, <2>2, <2>5
<1>9. CASE ahead = {}
  <2>1. nt = edge
    BY <1>9
  <2>2. edge \notin nets /\ \A t \in nets : ~(edge < t /\ t <= tick)
    <3>1. ASSUME NEW t \in nets, edge <= t, t <= tick PROVE FALSE
      BY <1>8, <1>9, <3>1
    <3>2. \A t \in nets : t \in Int
      BY <1>1
    <3> QED
      BY <1>7, <3>1, <3>2
  <2> HIDE DEF next, nt
  <2>3. next.tick = edge /\ next.initialized = FALSE
    BY <1>2, <1>9, <2>1
  <2>5. next.initialized = FALSE /\ next.tick \notin nets
    BY <2>2, <2>3
  <2>6. /\ next.word = Pool!Word(tick, spacing)
        /\ next.tick \in Int /\ next.tick <= tick
        /\ \A t \in nets : ~(next.tick < t /\ t <= tick)
    BY <1>2, <1>7, <2>2, <2>3 DEF word
  <2>4. DownTick(next, nets, spacing, tick)
    BY <2>5, <2>6 DEF DownTick
  <2> QED
    BY <2>4 DEF next
<1>10. CASE ahead # {}
  <2>1. ahead \in SUBSET (MinTick .. MaxTick)
    BY <1>0, <1>1
  <2>2. PICK m \in ahead : \A x \in ahead : x <= m
    BY <1>1, <1>10, <2>1, GreatestExists
  <2>3. nt = CHOOSE t \in ahead : \A u \in ahead : u <= t
    BY <1>10
  <2>4. nt \in ahead /\ \A u \in ahead : u <= nt
    <3> HIDE DEF nt
    <3> QED
      BY <2>2, <2>3
  <2> HIDE DEF nt
  <2>5. nt \in nets /\ nt <= tick /\ nt \in Int
    <3>1. nt \in nets /\ nt <= tick
      BY <1>0, <2>4
    <3> QED
      BY <1>1, <3>1
  <2>6. edge <= nt
    <3>1. PICK n \in bottom .. bottom + WordBits - 1 : nt = n * spacing
      BY <1>0, <1>6, <2>4
    <3>2. n \in Int /\ bottom <= n
      BY <1>1, <1>5, <3>1
    <3>3. bottom * spacing <= n * spacing
      BY <1>1, <1>5, <3>2
    <3> QED
      BY <1>5, <3>1, <3>3
  <2>7. ASSUME NEW t \in nets, nt < t, t <= tick PROVE FALSE
    <3>1. t \in Int /\ edge <= t
      BY <1>1, <1>7, <2>5, <2>6, <2>7
    <3>2. t \in ahead
      BY <1>8, <2>7, <3>1
    <3> QED
      BY <2>4, <2>5, <2>7, <3>1, <3>2
  <2> HIDE DEF next
  <2>8. next.tick = nt /\ next.initialized = TRUE
    BY <1>2, <1>10
  <2>9. DownTick(next, nets, spacing, tick)
    BY <1>2, <2>5, <2>7, <2>8 DEF word, DownTick
  <2> QED
    BY <2>9 DEF next
<1> QED
  BY <1>9, <1>10

\* The next tick upwards.
UpTick(next, nets, spacing, tick) ==
    /\ next.word = (tick \div spacing + 1) \div WordBits
    /\ next.tick \in Int /\ tick < next.tick
    /\ next.initialized \in BOOLEAN
    /\ next.initialized => next.tick \in nets
    /\ ~next.initialized => next.tick \notin nets
    /\ \A t \in nets : ~(tick < t /\ t < next.tick)

LEMMA NextUp ==
    ASSUME NEW nets, NEW spacing, Book(nets, spacing), NEW tick \in Int, NEW seen,
           SameWord(seen, nets, (tick \div spacing + 1) \div WordBits, spacing)
    PROVE  UpTick(Pool!NextTick(seen, tick, spacing, FALSE), nets, spacing, tick)
<1> DEFINE q == tick \div spacing
           word == (q + 1) \div WordBits
           ahead == {t \in seen \cap Pool!WordTicks(word, spacing) : t > tick}
           edge == ((word + 1) * WordBits - 1) * spacing
           nt == IF ahead = {} THEN edge ELSE CHOOSE t \in ahead : \A u \in ahead : t <= u
           next == Pool!NextTick(seen, tick, spacing, FALSE)
<1>1. /\ spacing \in Nat \ {0} /\ WordBits \in Nat \ {0} /\ MinTick \in Int /\ MaxTick \in Int
      /\ nets \subseteq MinTick .. MaxTick /\ \A t \in nets : (t \div spacing) * spacing = t
  BY TickConstants DEF Book
<1>2. next.word = word /\ next.tick = nt /\ next.initialized = (ahead # {})
  BY DEF Pool!NextTick
<1>0. \A t : t \in ahead <=> t \in nets /\ t \in Pool!WordTicks(word, spacing) /\ t > tick
  BY DEF SameWord
<1> HIDE DEF ahead
<1>3. /\ word \in Int /\ q \in Int /\ word * WordBits <= q + 1
      /\ q + 1 < word * WordBits + WordBits
  <2>1. q \in Int
    BY <1>1, Compressed
  <2> DEFINE n == q + 1
  <2>2. n \in Int /\ word = n \div WordBits
    BY <2>1
  <2> HIDE DEF q, word, n
  <2>3. (n \div WordBits) \in Int /\ (n \div WordBits) * WordBits <= n
        /\ n < (n \div WordBits + 1) * WordBits
    BY <1>1, <2>2, Compressed
  <2>4. word \in Int /\ word * WordBits <= n /\ n < word * WordBits + WordBits
    BY <2>2, <2>3, TimesWord
  <2> QED
    BY <2>1, <2>4 DEF n
<1> HIDE DEF word
<1> DEFINE bottom == word * WordBits
           last == bottom + WordBits - 1
<1>5. bottom \in Int /\ last \in Int /\ bottom <= q + 1 /\ q + 1 <= last
  <2>1. bottom \in Int /\ bottom <= q + 1 /\ q + 1 < bottom + WordBits
    BY <1>3, TimesWord
  <2> HIDE DEF bottom, q
  <2> QED
    BY <1>1, <1>3, <2>1
<1>4. edge = last * spacing
  <2>1. (word + 1) * WordBits = bottom + WordBits
    BY <1>3, TimesWord
  <2>2. edge = ((word + 1) * WordBits - 1) * spacing
    OBVIOUS
  <2>3. last = bottom + WordBits - 1
    OBVIOUS
  <2>4. (word + 1) * WordBits - 1 = last
    <3> HIDE DEF bottom, last
    <3> QED
      BY <1>1, <1>3, <1>5, <2>1, <2>3
  <2> HIDE DEF edge, last
  <2> QED
    BY <2>2, <2>4
<1>6. \A t : t \in Pool!WordTicks(word, spacing)
              <=> \E n \in bottom .. last : t = n * spacing
  BY <1>1, <1>3, WordHas
<1> HIDE DEF bottom, last
<1>7. edge \in Int /\ tick < edge
  <2>1. last * spacing \in Int
    BY <1>1, <1>5
  <2>2. ~(last <= q)
    <3> HIDE DEF q
    <3> QED
      BY <1>3, <1>5
  <2>3. ~(last * spacing <= tick)
    BY <1>1, <1>5, <2>2, CompressedOrder DEF q
  <2> HIDE DEF edge
  <2> QED
    BY <1>4, <2>1, <2>3
<1> HIDE DEF edge, q
<1>8. ASSUME NEW t \in nets, tick < t, t <= edge PROVE t \in ahead
  <2> DEFINE n == t \div spacing
  <2>1. t \in Int
    BY <1>1
  <2>2. n \in Int /\ n * spacing = t
    BY <1>1, <2>1, Compressed
  <2> HIDE DEF n
  <2>3. ~(n <= q)
    <3>1. ~(n * spacing <= tick)
      BY <1>8, <2>1, <2>2
    <3> QED
      BY <1>1, <2>2, <3>1, CompressedOrder DEF q
  <2>4. n <= last
    <3>1. ~(last < n)
      <4>1. ASSUME last < n PROVE FALSE
        <5>1. last * spacing < n * spacing
          BY <1>1, <1>5, <2>2, <4>1, MulStrict
        <5> QED
          BY <1>4, <1>7, <1>8, <2>1, <2>2, <5>1
      <4> QED
        BY <4>1
    <3> QED
      BY <1>5, <2>2, <3>1
  <2>5. n \in bottom .. last
    BY <1>3, <1>5, <2>2, <2>3, <2>4
  <2> QED
    BY <1>0, <1>6, <1>8, <2>1, <2>2, <2>5
<1>9. CASE ahead = {}
  <2>1. nt = edge
    BY <1>9
  <2>2. edge \notin nets /\ \A t \in nets : ~(tick < t /\ t < edge)
    <3>1. ASSUME NEW t \in nets, tick < t, t <= edge PROVE FALSE
      BY <1>8, <1>9, <3>1
    <3>2. \A t \in nets : t \in Int
      BY <1>1
    <3> QED
      BY <1>7, <3>1, <3>2
  <2> HIDE DEF next, nt
  <2>3. next.tick = edge /\ next.initialized = FALSE
    BY <1>2, <1>9, <2>1
  <2>5. next.initialized = FALSE /\ next.tick \notin nets
    BY <2>2, <2>3
  <2>6. /\ next.word = (tick \div spacing + 1) \div WordBits
        /\ next.tick \in Int /\ tick < next.tick
        /\ \A t \in nets : ~(tick < t /\ t < next.tick)
    BY <1>2, <1>7, <2>2, <2>3 DEF word, q
  <2>4. UpTick(next, nets, spacing, tick)
    BY <2>5, <2>6 DEF UpTick
  <2> QED
    BY <2>4 DEF next
<1>10. CASE ahead # {}
  <2>1. ahead \in SUBSET (MinTick .. MaxTick)
    BY <1>0, <1>1
  <2>2. PICK m \in ahead : \A x \in ahead : m <= x
    BY <1>1, <1>10, <2>1, SmallestExists
  <2>3. nt = CHOOSE t \in ahead : \A u \in ahead : t <= u
    BY <1>10
  <2>4. nt \in ahead /\ \A u \in ahead : nt <= u
    <3> HIDE DEF nt
    <3> QED
      BY <2>2, <2>3
  <2> HIDE DEF nt
  <2>5. nt \in nets /\ tick < nt /\ nt \in Int
    <3>1. nt \in nets /\ nt > tick
      BY <1>0, <2>4
    <3> QED
      BY <1>1, <3>1
  <2>6. nt <= edge
    <3>1. PICK n \in bottom .. last : nt = n * spacing
      BY <1>0, <1>6, <2>4
    <3>2. n \in Int /\ n <= last
      BY <1>5, <3>1
    <3>3. n * spacing <= last * spacing
      BY <1>1, <1>5, <3>2
    <3> QED
      BY <1>4, <3>1, <3>3
  <2>7. ASSUME NEW t \in nets, tick < t, t < nt PROVE FALSE
    <3>1. t \in Int /\ t <= edge
      BY <1>1, <1>7, <2>5, <2>6, <2>7
    <3>2. t \in ahead
      BY <1>8, <2>7, <3>1
    <3> QED
      BY <2>4, <2>5, <2>7, <3>1, <3>2
  <2> HIDE DEF next
  <2>8. next.tick = nt /\ next.initialized = TRUE
    BY <1>2, <1>10
  <2>9. UpTick(next, nets, spacing, tick)
    BY <1>2, <2>5, <2>7, <2>8 DEF word, q, UpTick
  <2> QED
    BY <2>9 DEF next
<1> QED
  BY <1>9, <1>10
-----------------------------------------------------------------------------
(* One turn of a swap on a window and on the whole pool.                   *)

LEMMA BelowTotal ==
    ASSUME NEW net, NEW tick
    PROVE  Pool!Below(net, tick) = Total(net, {t \in DOMAIN net : t <= tick})
  BY DEF Pool!Below, Total

LEMMA SameFinite == ASSUME NEW S PROVE Pool!IsFiniteSet(S) = IsFiniteSet(S)
  BY DEF Pool!IsFiniteSet, IsFiniteSet

\* No initialized tick lies between.
LEMMA BelowSame ==
    ASSUME NEW net, NEW a \in Int, NEW b \in Int, DOMAIN net \subseteq Int,
           a <= b, \A t \in DOMAIN net : ~(a < t /\ t <= b)
    PROVE  Pool!Below(net, a) = Pool!Below(net, b)
<1>1. {t \in DOMAIN net : t <= a} = {t \in DOMAIN net : t <= b}
  OBVIOUS
<1> QED
  BY <1>1, BelowTotal

LEMMA BelowStep ==
    ASSUME NEW net, IsFiniteSet(DOMAIN net), DOMAIN net \subseteq Int,
           \A t \in DOMAIN net : net[t] \in Int, NEW e \in DOMAIN net
    PROVE  Pool!Below(net, e) = net[e] + Pool!Below(net, e - 1)
<1> DEFINE S == {t \in DOMAIN net : t <= e}
<1>1. S \ {e} = {t \in DOMAIN net : t <= e - 1}
  OBVIOUS
<1>2. IsFiniteSet(S) /\ e \in S /\ \A t \in S : net[t] \in Int
  <2>1. S \in SUBSET DOMAIN net /\ e \in S
    OBVIOUS
  <2> QED
    BY <2>1, FS_Subset
<1> HIDE DEF S
<1>3. Total(net, S) = net[e] + Total(net, S \ {e})
  BY <1>2, TotalRemove
<1> QED
  BY <1>1, <1>3, BelowTotal DEF S

LEMMA BelowTyped ==
    ASSUME NEW net, IsFiniteSet(DOMAIN net), \A t \in DOMAIN net : net[t] \in Int, NEW tick
    PROVE  Pool!Below(net, tick) \in Int
<1> DEFINE S == {t \in DOMAIN net : t <= tick}
<1>1. IsFiniteSet(S) /\ \A t \in S : net[t] \in Int
  BY FS_Subset
<1> HIDE DEF S
<1>2. Total(net, S) \in Int
  BY <1>1, TotalSame
<1> QED
  BY <1>2, BelowTotal DEF S

\* What TickFacts says of a pool on the chain, as the steps below use it.
Chain(c) ==
    /\ Book(DOMAIN c.net, c.spacing)
    /\ IsFiniteSet(DOMAIN c.net)
    /\ \A t \in DOMAIN c.net : c.net[t] \in Int
    /\ \A t \in MinTick .. MaxTick : Pool!Below(c.net, t) \in Nat
    /\ c.version \in Versions
    /\ c.protocol[1] \in 0 .. Pool!Pips /\ c.protocol[2] \in 0 .. Pool!Pips
    /\ c.fee \in 0 .. Pool!Pips

LEMMA ChainFacts ==
    ASSUME NEW c, Pool!TickFacts(c)
    PROVE  Chain(c)
<1>1. /\ c \in Pool!TickSource(c)
      /\ IsFiniteSet(DOMAIN c.net) /\ DOMAIN c.net \subseteq MinTick .. MaxTick
      /\ \A t \in DOMAIN c.net : (t \div c.spacing) * c.spacing = t
      /\ \A t \in MinTick .. MaxTick : Pool!Below(c.net, t) >= 0
  BY SameFinite, TickConstants DEF Pool!TickFacts
<1>2. /\ c.spacing \in Nat \ {0} /\ c.version \in Versions
      /\ c.net \in [DOMAIN c.net -> Int]
      /\ c.protocol \in [1 .. 2 -> 0 .. Pool!Pips] /\ c.fee \in 0 .. Pool!Pips
  BY <1>1 DEF Pool!TickSource, Versions
<1>3. \A t \in DOMAIN c.net : c.net[t] \in Int
  BY <1>2
<1>4. \A t \in MinTick .. MaxTick : Pool!Below(c.net, t) \in Nat
  <2>1. \A t \in MinTick .. MaxTick : Pool!Below(c.net, t) \in Int
    BY <1>1, <1>3, BelowTyped
  <2> QED
    BY <1>1, <2>1
<1>5. c.protocol[1] \in 0 .. Pool!Pips /\ c.protocol[2] \in 0 .. Pool!Pips
  BY <1>2
<1>6. Book(DOMAIN c.net, c.spacing)
  BY <1>1, <1>2 DEF Book
<1> QED
  BY <1>1, <1>2, <1>3, <1>4, <1>5, <1>6 DEF Chain

\* A price between those of a tick and the next, with the liquidity in range there: of a
\* pool, and of a walk.
Placed(c, s) ==
    /\ s.price \in Nat /\ Ratio[MinTick] <= s.price /\ s.price < Ratio[MaxTick]
    /\ s.tick \in MinTick .. MaxTick /\ s.tick < MaxTick
    /\ Ratio[s.tick] <= s.price /\ s.price <= Ratio[s.tick + 1]
    /\ s.liquidity = Pool!Below(c.net, s.tick)

OnTheWay(c, z, walk) ==
    /\ Placed(c, walk)
    /\ walk.remaining \in Nat
    /\ z => Ratio[MinTick] < walk.price

\* A state that shows its pool truly where it shows it.
Shows(c, p) ==
    /\ p.version = c.version /\ p.spacing = c.spacing
    /\ p.protocol = c.protocol /\ p.fee = c.fee
    /\ \A w \in p.words : SameWord(p.initialized, DOMAIN c.net, w, c.spacing)
    /\ DOMAIN p.net \subseteq DOMAIN c.net
    /\ \A t \in DOMAIN p.net : p.net[t] = c.net[t]

Complete(c, p) ==
    /\ p.words = Pool!Word(MinTick, c.spacing) - 1 .. Pool!Word(MaxTick, c.spacing) + 1
    /\ DOMAIN p.net = DOMAIN c.net

LEMMA FeeInUnits ==
    ASSUME NEW protocol \in 0 .. Pool!Pips, NEW lp \in 0 .. Pool!Pips
    PROVE  Pool!SwapFee(protocol, lp) \in 0 .. Pool!Pips
<1> DEFINE m == protocol * lp
           q == m \div Pool!Pips
<1>1. Pool!Pips \in Nat \ {0} /\ protocol \in Nat /\ lp \in Nat
      /\ protocol <= Pool!Pips /\ lp <= Pool!Pips
  BY PipsNat
<1>2. m \in Nat
  BY <1>1
<1>3. m <= lp * Pool!Pips
  <2>1. protocol * lp <= Pool!Pips * lp
    BY <1>1
  <2>2. Pool!Pips * lp = lp * Pool!Pips
    BY <1>1
  <2> QED
    BY <2>1, <2>2
<1>4. q \in Nat /\ q * Pool!Pips <= m /\ m < (q + 1) * Pool!Pips
  <2> HIDE DEF m
  <2> QED
    BY <1>1, <1>2, Compressed, QuotientTimes
<1>5. q <= lp
  <2> HIDE DEF m, q
  <2>1. q * Pool!Pips < (lp + 1) * Pool!Pips
    <3>1. lp * Pool!Pips \in Int /\ q * Pool!Pips \in Int
          /\ (lp + 1) * Pool!Pips = lp * Pool!Pips + Pool!Pips
      BY <1>1, <1>4
    <3> QED
      BY <1>1, <1>2, <1>3, <1>4, <3>1
  <2>2. q < lp + 1
    BY <1>1, <1>4, <2>1, MulBack
  <2> QED
    BY <1>1, <1>4, <2>2
<1>6. protocol + lp - q <= Pool!Pips
  <2> DEFINE a == Pool!Pips - protocol
             b == Pool!Pips - lp
  <2>1. a \in Nat /\ b \in Nat
    BY <1>1
  <2>2. ASSUME q + Pool!Pips < protocol + lp PROVE FALSE
    <3>1. q + 1 <= protocol - b
      BY <1>1, <1>4, <2>1, <2>2
    <3>2. (q + 1) * Pool!Pips <= (protocol - b) * Pool!Pips
      BY <1>1, <1>4, <2>1, <3>1
    <3>3. protocol * b <= Pool!Pips * b
      BY <1>1, <2>1
    <3>4. m = protocol * Pool!Pips - protocol * b
      BY <1>1, <2>1
    <3>5. (protocol - b) * Pool!Pips = protocol * Pool!Pips - Pool!Pips * b
      BY <1>1, <2>1
    <3>6. protocol * Pool!Pips \in Int /\ protocol * b \in Int /\ Pool!Pips * b \in Int
          /\ (q + 1) * Pool!Pips \in Int
      BY <1>1, <1>4, <2>1
    <3> HIDE DEF m, q, b
    <3> QED
      BY <1>2, <1>4, <3>2, <3>3, <3>4, <3>5, <3>6
  <2> HIDE DEF m, q
  <2> QED
    BY <1>1, <1>4, <2>2
<1> HIDE DEF m, q
<1>7. protocol + lp - q \in 0 .. Pool!Pips
  BY <1>1, <1>4, <1>5, <1>6
<1> QED
  BY <1>7 DEF Pool!SwapFee, q, m

\* Two states that show the same ticks of a word find the same next tick in it.
NextOf(ahead, word, spacing, lte) ==
    [word |-> word, initialized |-> ahead # {},
     tick |-> IF ahead = {}
                THEN IF lte THEN word * WordBits * spacing
                            ELSE ((word + 1) * WordBits - 1) * spacing
              ELSE IF lte THEN CHOOSE t \in ahead : \A u \in ahead : u <= t
                          ELSE CHOOSE t \in ahead : \A u \in ahead : t <= u]

SearchedWord(tick, spacing, lte) ==
    IF lte THEN Pool!Word(tick, spacing) ELSE (tick \div spacing + 1) \div WordBits

AheadIn(seen, tick, spacing, lte) ==
    LET word == SearchedWord(tick, spacing, lte) IN
    IF lte THEN {t \in seen \cap Pool!WordTicks(word, spacing) : t <= tick}
           ELSE {t \in seen \cap Pool!WordTicks(word, spacing) : t > tick}

LEMMA NextParts ==
    ASSUME NEW seen, NEW tick, NEW spacing, NEW lte \in BOOLEAN
    PROVE  Pool!NextTick(seen, tick, spacing, lte)
             = NextOf(AheadIn(seen, tick, spacing, lte),
                      SearchedWord(tick, spacing, lte), spacing, lte)
<1>1. CASE lte = TRUE
  BY <1>1 DEF Pool!NextTick, NextOf, AheadIn, SearchedWord
<1>2. CASE lte = FALSE
  BY <1>2 DEF Pool!NextTick, NextOf, AheadIn, SearchedWord
<1> QED
  BY <1>1, <1>2

LEMMA NextSame ==
    ASSUME NEW seen, NEW other, NEW tick, NEW spacing, NEW lte \in BOOLEAN,
           SameWord(seen, other, SearchedWord(tick, spacing, lte), spacing)
    PROVE  /\ Pool!NextTick(seen, tick, spacing, lte) = Pool!NextTick(other, tick, spacing, lte)
           /\ Pool!NextTick(seen, tick, spacing, lte).word = SearchedWord(tick, spacing, lte)
<1>1. AheadIn(seen, tick, spacing, lte) = AheadIn(other, tick, spacing, lte)
  BY DEF SameWord, AheadIn
<1>2. \A ahead, word : NextOf(ahead, word, spacing, lte).word = word
  BY DEF NextOf
<1> QED
  BY <1>1, <1>2, NextParts

\* The tick that a turn goes to, and its target.
TickOf(next) == Pool!Most(MinTick, Pool!Least(MaxTick, next.tick))
TargetOf(z, tick) ==
    IF z THEN Pool!Most(Ratio[tick], Pool!PriceLimit(z)) ELSE Pool!Least(Ratio[tick], Pool!PriceLimit(z))

StepOf(c, z, walk, next) ==
    Pool!SwapStep(c.version, walk.price, TargetOf(z, TickOf(next)), walk.liquidity,
                  walk.remaining, Pool!StepFee(c, z))

\* What a turn leads to once the net of the tick is known.
TurnTo(c, z, walk, next) ==
    LET tick == TickOf(next)
        step == StepOf(c, z, walk, next) IN
    [ok |-> TRUE,
     price |-> step.price,
     tick |-> Pool!TickAfter(z, walk, tick, step.price),
     liquidity |-> IF step.price = Ratio[tick] /\ next.initialized
                     THEN Pool!Crossed(z, walk.liquidity, c.net[tick])
                     ELSE walk.liquidity,
     remaining |-> walk.remaining - step.in - step.fee,
     out |-> walk.out + step.out]

NextIn(c, z, walk) == Pool!NextTick(DOMAIN c.net, walk.tick, c.spacing, z)

LEMMA AfterStepOk ==
    ASSUME NEW c, NEW p, NEW z \in BOOLEAN, NEW walk, NEW next, Shows(c, p),
           Pool!AfterStep(p, z, walk, next, StepOf(c, z, walk, next)).ok
    PROVE  Pool!AfterStep(p, z, walk, next, StepOf(c, z, walk, next)) = TurnTo(c, z, walk, next)
<1> DEFINE tick == TickOf(next)
           step == StepOf(c, z, walk, next)
           crossed == step.price = Ratio[tick] /\ next.initialized
           known == tick \in DOMAIN p.net
<1>1. Pool!AfterStep(p, z, walk, next, step)
        = [ok |-> crossed => known,
           price |-> step.price,
           tick |-> Pool!TickAfter(z, walk, tick, step.price),
           liquidity |-> IF crossed /\ known
                           THEN Pool!Crossed(z, walk.liquidity, p.net[tick])
                           ELSE walk.liquidity,
           remaining |-> walk.remaining - step.in - step.fee,
           out |-> walk.out + step.out]
  BY DEF Pool!AfterStep, TickOf
<1>2. crossed => known
  <2> HIDE DEF step
  <2>1. Pool!AfterStep(p, z, walk, next, step).ok => (crossed => known)
    BY DEF Pool!AfterStep, TickOf
  <2> QED
    BY <2>1 DEF step
<1>3. known => p.net[tick] = c.net[tick]
  BY DEF Shows
<1> HIDE DEF step, tick
<1>4. (IF crossed /\ known THEN Pool!Crossed(z, walk.liquidity, p.net[tick]) ELSE walk.liquidity)
        = IF crossed THEN Pool!Crossed(z, walk.liquidity, c.net[tick]) ELSE walk.liquidity
  BY <1>2, <1>3
<1> QED
  BY <1>1, <1>2, <1>4 DEF TurnTo, step, tick

LEMMA WholeKnows ==
    ASSUME NEW c, NEW p, NEW z \in BOOLEAN, NEW walk, NEW next, Shows(c, p), Complete(c, p),
           next.initialized => TickOf(next) \in DOMAIN c.net
    PROVE  Pool!AfterStep(p, z, walk, next, StepOf(c, z, walk, next)).ok
<1>1. next.initialized => TickOf(next) \in DOMAIN p.net
  BY DEF Complete
<1> HIDE DEF TickOf
<1> QED
  BY <1>1 DEF Pool!AfterStep, TickOf

LEMMA FeeShown ==
    ASSUME NEW c, NEW p, NEW z, Shows(c, p)
    PROVE  Pool!StepFee(p, z) = Pool!StepFee(c, z)
  BY DEF Shows, Pool!StepFee

\* A turn that a state allows goes where the whole pool's turn goes.
LEMMA TurnShown ==
    ASSUME NEW c, NEW p, NEW z \in BOOLEAN, NEW walk, Shows(c, p), Pool!Advance(p, z, walk).ok
    PROVE  /\ SearchedWord(walk.tick, c.spacing, z) \in p.words
           /\ Pool!Advance(p, z, walk) = TurnTo(c, z, walk, NextIn(c, z, walk))
<1> DEFINE next == Pool!NextTick(p.initialized, walk.tick, p.spacing, z)
           word == SearchedWord(walk.tick, c.spacing, z)
<1>1. next.word = word /\ p.spacing = c.spacing
  <2>1. p.spacing = c.spacing
    BY DEF Shows
  <2>2. SameWord(p.initialized, p.initialized, word, c.spacing)
    BY DEF SameWord
  <2> QED
    BY <2>1, <2>2, NextSame
<1>2. Pool!Advance(p, z, walk) =
        IF Pool!Covered(p, next.word)
          THEN Pool!AfterStep(p, z, walk, next,
                 Pool!SwapStep(p.version, walk.price, TargetOf(z, TickOf(next)), walk.liquidity,
                               walk.remaining, Pool!StepFee(p, z)))
          ELSE [walk EXCEPT !.ok = FALSE]
  BY DEF Pool!Advance, TargetOf, TickOf
<1>3. Pool!Covered(p, next.word)
  <2>1. ASSUME ~Pool!Covered(p, next.word) PROVE FALSE
    <3>1. [walk EXCEPT !.ok = FALSE].ok
      BY <1>2, <2>1
    <3> QED
      BY <3>1
  <2> QED
    BY <2>1
<1>4. word \in p.words
  BY <1>1, <1>3 DEF Pool!Covered
<1>5. next = NextIn(c, z, walk)
  <2>1. SameWord(p.initialized, DOMAIN c.net, word, c.spacing)
    BY <1>4 DEF Shows
  <2> QED
    BY <1>1, <2>1, NextSame DEF NextIn
<1> HIDE DEF next, word
<1>6. p.version = c.version /\ Pool!StepFee(p, z) = Pool!StepFee(c, z)
  BY FeeShown DEF Shows
<1>7. Pool!Advance(p, z, walk) = Pool!AfterStep(p, z, walk, next, StepOf(c, z, walk, next))
  BY <1>2, <1>3, <1>6 DEF StepOf
<1>8. Pool!Advance(p, z, walk) = TurnTo(c, z, walk, next)
  BY <1>7, AfterStepOk
<1> QED
  BY <1>4, <1>5, <1>8 DEF word

\* The whole pool allows it.
LEMMA TurnWhole ==
    ASSUME NEW c, NEW p, NEW z \in BOOLEAN, NEW walk, Shows(c, p), Complete(c, p),
           SearchedWord(walk.tick, c.spacing, z) \in p.words,
           NextIn(c, z, walk).initialized => TickOf(NextIn(c, z, walk)) \in DOMAIN c.net
    PROVE  Pool!Advance(p, z, walk) = TurnTo(c, z, walk, NextIn(c, z, walk))
<1> DEFINE next == Pool!NextTick(p.initialized, walk.tick, p.spacing, z)
           word == SearchedWord(walk.tick, c.spacing, z)
<1>1. SameWord(p.initialized, DOMAIN c.net, word, c.spacing) /\ p.spacing = c.spacing
  BY DEF Shows
<1>2. next = NextIn(c, z, walk) /\ next.word = word
  BY <1>1, NextSame DEF NextIn
<1>3. Pool!Covered(p, next.word)
  BY <1>2 DEF Pool!Covered
<1>4. Pool!Advance(p, z, walk) =
        Pool!AfterStep(p, z, walk, next,
                 Pool!SwapStep(p.version, walk.price, TargetOf(z, TickOf(next)), walk.liquidity,
                               walk.remaining, Pool!StepFee(p, z)))
  BY <1>3 DEF Pool!Advance, TargetOf, TickOf
<1> HIDE DEF next, word
<1>6. p.version = c.version /\ Pool!StepFee(p, z) = Pool!StepFee(c, z)
  BY FeeShown DEF Shows
<1>7. Pool!Advance(p, z, walk) = Pool!AfterStep(p, z, walk, next, StepOf(c, z, walk, next))
  BY <1>4, <1>6 DEF StepOf
<1>8. Pool!AfterStep(p, z, walk, next, StepOf(c, z, walk, next)).ok
  BY <1>2, WholeKnows
<1> QED
  BY <1>2, <1>7, <1>8, AfterStepOk

LEMMA RatioBack ==
    ASSUME NEW t \in MinTick .. MaxTick, NEW u \in MinTick .. MaxTick, Ratio[t] < Ratio[u]
    PROVE  t < u
<1>1. ASSUME u <= t PROVE FALSE
  <2>1. Ratio[t] \in Nat /\ Ratio[u] \in Nat /\ Ratio[u] <= Ratio[t]
    BY <1>1, PricesRise
  <2> QED
    BY <2>1
<1>2. t \in Int /\ u \in Int
  BY TickConstants
<1> QED
  BY <1>1, <1>2

\* What a step may be paid.
LEMMA FeeOfChain ==
    ASSUME NEW c, Chain(c), NEW z \in BOOLEAN
    PROVE  Pool!StepFee(c, z) \in 0 .. Pool!Pips
<1>1. /\ c.protocol[1] \in 0 .. Pool!Pips /\ c.protocol[2] \in 0 .. Pool!Pips
      /\ c.fee \in 0 .. Pool!Pips
  BY DEF Chain
<1>2. Pool!StepFee(c, z) = Pool!SwapFee(c.protocol[IF z THEN 1 ELSE 2], c.fee)
  BY DEF Pool!StepFee
<1>3. CASE z
  <2>1. Pool!StepFee(c, z) = Pool!SwapFee(c.protocol[1], c.fee)
    BY <1>2, <1>3
  <2> QED
    BY <1>1, <2>1, FeeInUnits
<1>4. CASE ~z
  <2>1. Pool!StepFee(c, z) = Pool!SwapFee(c.protocol[2], c.fee)
    BY <1>2, <1>4
  <2> QED
    BY <1>1, <2>1, FeeInUnits
<1> QED
  BY <1>3, <1>4

\* What a walk is on its way, with the types of what a step takes.
LEMMA WayFacts ==
    ASSUME NEW c, Chain(c), NEW z \in BOOLEAN, NEW walk, OnTheWay(c, z, walk)
    PROVE  /\ walk.price \in Nat \ {0} /\ Ratio[MinTick] <= walk.price
           /\ walk.price < Ratio[MaxTick]
           /\ walk.tick \in MinTick .. MaxTick /\ walk.tick < MaxTick
           /\ walk.tick + 1 \in MinTick .. MaxTick
           /\ Ratio[walk.tick] <= walk.price /\ walk.price <= Ratio[walk.tick + 1]
           /\ walk.liquidity \in Nat /\ walk.liquidity = Pool!Below(c.net, walk.tick)
           /\ walk.remaining \in Nat /\ (z => Ratio[MinTick] < walk.price)
           /\ c.version \in Versions
<1>1. /\ Placed(c, walk) /\ walk.remaining \in Nat /\ (z => Ratio[MinTick] < walk.price)
  BY DEF OnTheWay
<1>2. /\ walk.price \in Nat /\ Ratio[MinTick] <= walk.price /\ walk.price < Ratio[MaxTick]
      /\ walk.tick \in MinTick .. MaxTick /\ walk.tick < MaxTick
      /\ Ratio[walk.tick] <= walk.price /\ walk.price <= Ratio[walk.tick + 1]
      /\ walk.liquidity = Pool!Below(c.net, walk.tick)
  BY <1>1 DEF Placed
<1>3. Ratio[MinTick] \in Nat \ {0} /\ walk.tick + 1 \in MinTick .. MaxTick
  BY <1>2, TickConstants
<1>4. Pool!Below(c.net, walk.tick) \in Nat /\ c.version \in Versions
  BY <1>2 DEF Chain
<1> QED
  BY <1>1, <1>2, <1>3, <1>4

\* The step of a turn stays between the price and the target.
LEMMA StepBetween ==
    ASSUME NEW c, Chain(c), NEW z \in BOOLEAN, NEW walk, OnTheWay(c, z, walk), NEW next,
           TargetOf(z, TickOf(next)) \in Nat \ {0}
    PROVE  LET step == StepOf(c, z, walk, next)
               target == TargetOf(z, TickOf(next)) IN
           /\ step.price \in Nat \ {0}
           /\ \/ step.price \in target .. walk.price
              \/ step.price \in walk.price .. target
           /\ step.out \in Int
           /\ walk.remaining - step.in - step.fee \in Nat
<1> DEFINE target == TargetOf(z, TickOf(next))
<1>1. /\ walk.price \in Nat \ {0} /\ walk.liquidity \in Nat /\ walk.remaining \in Nat
      /\ c.version \in Versions /\ Pool!StepFee(c, z) \in 0 .. Pool!Pips
  BY WayFacts, FeeOfChain
<1> HIDE DEF target
<1>2. StepHolds(Pool!SwapStep(c.version, walk.price, target, walk.liquidity, walk.remaining,
                              Pool!StepFee(c, z)), walk.price, target, walk.remaining)
  BY <1>1, StepFacts DEF target
<1>3. StepHolds(StepOf(c, z, walk, next), walk.price, target, walk.remaining)
  BY <1>2 DEF StepOf, target
<1> QED
  BY <1>3 DEF StepHolds, target

Turned(turn, z, walk, next, tick, step, net) ==
    /\ turn.price = step.price
    /\ turn.tick = Pool!TickAfter(z, walk, tick, step.price)
    /\ step.price = Ratio[tick] /\ next.initialized =>
         turn.liquidity = Pool!Crossed(z, walk.liquidity, net[tick])
    /\ ~(step.price = Ratio[tick] /\ next.initialized) => turn.liquidity = walk.liquidity
    /\ turn.remaining = walk.remaining - step.in - step.fee

LEMMA TurnParts ==
    ASSUME NEW c, NEW z \in BOOLEAN, NEW walk, NEW next
    PROVE  Turned(TurnTo(c, z, walk, next), z, walk, next, TickOf(next), StepOf(c, z, walk, next),
                  c.net)
<1> DEFINE step == StepOf(c, z, walk, next)
           tick == TickOf(next)
<1>1. TurnTo(c, z, walk, next)
        = [ok |-> TRUE, price |-> step.price,
           tick |-> Pool!TickAfter(z, walk, tick, step.price),
           liquidity |-> IF step.price = Ratio[tick] /\ next.initialized
                           THEN Pool!Crossed(z, walk.liquidity, c.net[tick])
                           ELSE walk.liquidity,
           remaining |-> walk.remaining - step.in - step.fee,
           out |-> walk.out + step.out]
  BY DEF TurnTo
<1> HIDE DEF step, tick
<1>2. Turned(TurnTo(c, z, walk, next), z, walk, next, tick, step, c.net)
  BY <1>1 DEF Turned
<1> QED
  BY <1>2 DEF step, tick

\* Where a turn downwards goes: to a tick at or below, with no initialized tick in between.
LEMMA DownTarget ==
    ASSUME NEW c, Chain(c), NEW z \in BOOLEAN, z, NEW walk, OnTheWay(c, z, walk)
    PROVE  LET next == NextIn(c, z, walk)
               tick == TickOf(next)
               target == TargetOf(z, tick)
               step == StepOf(c, z, walk, next) IN
           /\ next.tick \in Int /\ next.tick <= walk.tick
           /\ next.initialized => next.tick \in DOMAIN c.net
           /\ ~next.initialized => next.tick \notin DOMAIN c.net
           /\ \A t \in DOMAIN c.net : ~(next.tick < t /\ t <= walk.tick)
           /\ tick = IF MinTick < next.tick THEN next.tick ELSE MinTick
           /\ tick \in MinTick .. MaxTick /\ tick <= walk.tick /\ next.tick <= tick
           /\ Ratio[tick] \in Nat \ {0} /\ Ratio[MinTick] \in Nat \ {0} /\ Ratio[tick] <= walk.price
           /\ target \in Nat \ {0} /\ Ratio[tick] <= target /\ Ratio[MinTick] < target
           /\ target <= walk.price
           /\ step.price \in Nat \ {0} /\ target <= step.price /\ step.price <= walk.price
           /\ walk.remaining - step.in - step.fee \in Nat
<1> DEFINE next == NextIn(c, z, walk)
           nets == DOMAIN c.net
           tick == TickOf(next)
           target == TargetOf(z, tick)
           step == StepOf(c, z, walk, next)
           np == step.price
<1>1. /\ MinTick \in Int /\ MaxTick \in Int /\ MinTick < MaxTick
      /\ \A t \in MinTick .. MaxTick : Ratio[t] \in Nat \ {0}
  BY TickConstants
<1>2. /\ Book(nets, c.spacing) /\ IsFiniteSet(nets) /\ nets \subseteq MinTick .. MaxTick
  BY DEF Chain, Book
<1>3. /\ walk.price \in Nat \ {0} /\ walk.price < Ratio[MaxTick] /\ Ratio[MinTick] < walk.price
      /\ walk.tick \in MinTick .. MaxTick /\ walk.tick < MaxTick
      /\ Ratio[walk.tick] <= walk.price
  BY WayFacts
<1>4. DownTick(next, nets, c.spacing, walk.tick)
  <2>1. SameWord(nets, nets, Pool!Word(walk.tick, c.spacing), c.spacing)
    BY DEF SameWord
  <2>2. walk.tick \in Int
    BY <1>1, <1>3
  <2>3. z = TRUE
    OBVIOUS
  <2>4. next = Pool!NextTick(nets, walk.tick, c.spacing, TRUE)
    BY <2>3 DEF NextIn
  <2> HIDE DEF next
  <2> QED
    BY <1>2, <2>1, <2>2, <2>4, NextDown
<1> HIDE DEF next
<1>5. /\ next.tick \in Int /\ next.tick <= walk.tick
      /\ next.initialized => next.tick \in nets
      /\ ~next.initialized => next.tick \notin nets
      /\ \A t \in nets : ~(next.tick < t /\ t <= walk.tick)
  BY <1>4 DEF DownTick
<1>6. /\ tick = IF MinTick < next.tick THEN next.tick ELSE MinTick
      /\ tick \in MinTick .. MaxTick /\ tick <= walk.tick /\ next.tick <= tick
  BY <1>1, <1>3, <1>5 DEF TickOf, Pool!Most, Pool!Least
<1> HIDE DEF tick
<1>7. /\ Ratio[tick] \in Nat \ {0} /\ Ratio[MinTick] \in Nat \ {0} /\ Ratio[tick] <= walk.price
  <2>1. Ratio[tick] <= Ratio[walk.tick] /\ Ratio[tick] \in Nat /\ Ratio[walk.tick] \in Nat
    BY <1>3, <1>6, PricesRise
  <2> QED
    BY <1>1, <1>3, <1>6, <2>1
<1>8. /\ target \in Nat \ {0} /\ Ratio[tick] <= target /\ Ratio[MinTick] < target
      /\ target <= walk.price
  BY <1>3, <1>7 DEF TargetOf, Pool!Most, Pool!PriceLimit
<1> HIDE DEF target
<1>9. /\ np \in Nat \ {0} /\ target <= np /\ np <= walk.price
      /\ walk.remaining - step.in - step.fee \in Nat
  <2>1. /\ np \in Nat \ {0}
        /\ np \in target .. walk.price \/ np \in walk.price .. target
        /\ walk.remaining - step.in - step.fee \in Nat
    BY <1>8, StepBetween DEF target, tick
  <2> HIDE DEF np, step
  <2> QED
    BY <1>3, <1>8, <2>1
<1> QED
  BY <1>5, <1>6, <1>7, <1>8, <1>9 DEF target, tick, next

LEMMA UpTarget ==
    ASSUME NEW c, Chain(c), NEW z \in BOOLEAN, ~z, NEW walk, OnTheWay(c, z, walk)
    PROVE  LET next == NextIn(c, z, walk)
               tick == TickOf(next)
               target == TargetOf(z, tick)
               step == StepOf(c, z, walk, next) IN
           /\ next.tick \in Int /\ walk.tick < next.tick
           /\ next.initialized => next.tick \in DOMAIN c.net
           /\ ~next.initialized => next.tick \notin DOMAIN c.net
           /\ \A t \in DOMAIN c.net : ~(walk.tick < t /\ t < next.tick)
           /\ tick = IF next.tick < MaxTick THEN next.tick ELSE MaxTick
           /\ tick \in MinTick .. MaxTick /\ walk.tick + 1 <= tick /\ tick <= next.tick
           /\ Ratio[tick] \in Nat \ {0} /\ Ratio[MaxTick] \in Nat \ {0} /\ walk.price <= Ratio[tick]
           /\ target \in Nat \ {0} /\ target <= Ratio[tick] /\ target < Ratio[MaxTick]
           /\ walk.price <= target
           /\ step.price \in Nat \ {0} /\ walk.price <= step.price /\ step.price <= target
           /\ walk.remaining - step.in - step.fee \in Nat
<1> DEFINE next == NextIn(c, z, walk)
           nets == DOMAIN c.net
           tick == TickOf(next)
           target == TargetOf(z, tick)
           step == StepOf(c, z, walk, next)
           np == step.price
<1>1. /\ MinTick \in Int /\ MaxTick \in Int /\ MinTick < MaxTick
      /\ \A t \in MinTick .. MaxTick : Ratio[t] \in Nat \ {0}
  BY TickConstants
<1>2. /\ Book(nets, c.spacing) /\ IsFiniteSet(nets) /\ nets \subseteq MinTick .. MaxTick
  BY DEF Chain, Book
<1>3. /\ walk.price \in Nat \ {0} /\ walk.price < Ratio[MaxTick]
      /\ walk.tick \in MinTick .. MaxTick /\ walk.tick < MaxTick
      /\ walk.tick + 1 \in MinTick .. MaxTick
      /\ walk.price <= Ratio[walk.tick + 1]
  BY WayFacts
<1>4. UpTick(next, nets, c.spacing, walk.tick)
  <2>1. SameWord(nets, nets, (walk.tick \div c.spacing + 1) \div WordBits, c.spacing)
    BY DEF SameWord
  <2>2. walk.tick \in Int
    BY <1>1, <1>3
  <2>3. z = FALSE
    OBVIOUS
  <2>4. next = Pool!NextTick(nets, walk.tick, c.spacing, FALSE)
    BY <2>3 DEF NextIn
  <2> HIDE DEF next
  <2> QED
    BY <1>2, <2>1, <2>2, <2>4, NextUp
<1> HIDE DEF next
<1>5. /\ next.tick \in Int /\ walk.tick < next.tick
      /\ next.initialized => next.tick \in nets
      /\ ~next.initialized => next.tick \notin nets
      /\ \A t \in nets : ~(walk.tick < t /\ t < next.tick)
  BY <1>4 DEF UpTick
<1>6. /\ tick = IF next.tick < MaxTick THEN next.tick ELSE MaxTick
      /\ tick \in MinTick .. MaxTick /\ walk.tick + 1 <= tick /\ tick <= next.tick
  BY <1>1, <1>3, <1>5 DEF TickOf, Pool!Most, Pool!Least
<1> HIDE DEF tick
<1>7. /\ Ratio[tick] \in Nat \ {0} /\ Ratio[MaxTick] \in Nat \ {0} /\ walk.price <= Ratio[tick]
  <2>1. Ratio[walk.tick + 1] <= Ratio[tick] /\ Ratio[tick] \in Nat /\ Ratio[walk.tick + 1] \in Nat
    BY <1>3, <1>6, PricesRise
  <2> QED
    BY <1>1, <1>3, <1>6, <2>1
<1>8. /\ target \in Nat \ {0} /\ target <= Ratio[tick] /\ target < Ratio[MaxTick]
      /\ walk.price <= target
  BY <1>3, <1>7 DEF TargetOf, Pool!Least, Pool!PriceLimit
<1> HIDE DEF target
<1>9. /\ np \in Nat \ {0} /\ walk.price <= np /\ np <= target
      /\ walk.remaining - step.in - step.fee \in Nat
  <2>1. /\ np \in Nat \ {0}
        /\ np \in target .. walk.price \/ np \in walk.price .. target
        /\ walk.remaining - step.in - step.fee \in Nat
    BY <1>8, StepBetween DEF target, tick
  <2> HIDE DEF np, step
  <2> QED
    BY <1>3, <1>8, <2>1
<1> QED
  BY <1>5, <1>6, <1>7, <1>8, <1>9 DEF target, tick, next

\* A turn downwards leaves the walk on its way, and crosses only ticks of the pool.
LEMMA DownKeeps ==
    ASSUME NEW c, Chain(c), NEW z \in BOOLEAN, z, NEW walk, OnTheWay(c, z, walk)
    PROVE  /\ OnTheWay(c, z, TurnTo(c, z, walk, NextIn(c, z, walk)))
           /\ NextIn(c, z, walk).initialized => TickOf(NextIn(c, z, walk)) \in DOMAIN c.net
<1> DEFINE next == NextIn(c, z, walk)
           nets == DOMAIN c.net
           tick == TickOf(next)
           target == TargetOf(z, tick)
           step == StepOf(c, z, walk, next)
           np == step.price
           turn == TurnTo(c, z, walk, next)
<1>1. /\ MinTick \in Int /\ MaxTick \in Int /\ MinTick < MaxTick
      /\ \A t \in MinTick .. MaxTick : Ratio[t] \in Nat \ {0}
  BY TickConstants
<1>2. /\ Book(nets, c.spacing) /\ IsFiniteSet(nets) /\ nets \subseteq MinTick .. MaxTick
      /\ \A t \in nets : c.net[t] \in Int
      /\ \A t \in MinTick .. MaxTick : Pool!Below(c.net, t) \in Nat
  BY DEF Chain, Book
<1>3. /\ walk.price \in Nat \ {0} /\ walk.price < Ratio[MaxTick] /\ Ratio[MinTick] < walk.price
      /\ walk.tick \in MinTick .. MaxTick /\ walk.tick < MaxTick
      /\ walk.tick + 1 \in MinTick .. MaxTick
      /\ Ratio[walk.tick] <= walk.price /\ walk.price <= Ratio[walk.tick + 1]
      /\ walk.liquidity \in Nat /\ walk.liquidity = Pool!Below(c.net, walk.tick)
  BY WayFacts
<1>5. /\ next.tick \in Int /\ next.tick <= walk.tick
      /\ next.initialized => next.tick \in nets
      /\ ~next.initialized => next.tick \notin nets
      /\ \A t \in nets : ~(next.tick < t /\ t <= walk.tick)
  BY DownTarget
<1>6. /\ tick = IF MinTick < next.tick THEN next.tick ELSE MinTick
      /\ tick \in MinTick .. MaxTick /\ tick <= walk.tick /\ next.tick <= tick
  BY DownTarget
<1>8. /\ Ratio[tick] \in Nat \ {0} /\ Ratio[MinTick] \in Nat \ {0} /\ Ratio[tick] <= walk.price
  BY DownTarget
<1>9. /\ target \in Nat \ {0} /\ Ratio[tick] <= target /\ Ratio[MinTick] < target
      /\ target <= walk.price
  BY DownTarget
<1>10. /\ np \in Nat \ {0} /\ target <= np /\ np <= walk.price
       /\ walk.remaining - step.in - step.fee \in Nat
  BY DownTarget
<1> HIDE DEF next, tick, target
<1>7. next.initialized => tick \in nets
  BY <1>1, <1>2, <1>5, <1>6
<1>14. Turned(turn, z, walk, next, tick, step, c.net)
  BY TurnParts DEF tick
<1> HIDE DEF step, turn
<1>11. /\ turn.price = np /\ turn.tick = Pool!TickAfter(z, walk, tick, np)
       /\ np = Ratio[tick] /\ next.initialized => turn.liquidity = walk.liquidity - c.net[tick]
       /\ ~(np = Ratio[tick] /\ next.initialized) => turn.liquidity = walk.liquidity
       /\ turn.remaining \in Nat
  <2>1. Pool!Crossed(z, walk.liquidity, c.net[tick]) = walk.liquidity - c.net[tick]
    BY DEF Pool!Crossed
  <2> QED
    BY <1>10, <1>14, <2>1 DEF Turned
<1> HIDE DEF np
<1>12. Ratio[MinTick] < np /\ np < Ratio[MaxTick] /\ Ratio[tick] <= np
  BY <1>1, <1>3, <1>8, <1>9, <1>10
<1>13. turn.tick = IF np = Ratio[tick] THEN tick - 1
                   ELSE IF np # walk.price THEN Pool!TickAt(np) ELSE walk.tick
  BY <1>11 DEF Pool!TickAfter
<1>15. nets \subseteq Int
  BY <1>1, <1>2
<1>16. ASSUME NEW new, new = turn.tick, new \in MinTick .. MaxTick, new < MaxTick,
              Ratio[new] <= np, np <= Ratio[new + 1], turn.liquidity = Pool!Below(c.net, new)
       PROVE  OnTheWay(c, z, turn)
  <2>1. /\ turn.price \in Nat /\ Ratio[MinTick] <= turn.price /\ turn.price < Ratio[MaxTick]
        /\ Ratio[MinTick] < turn.price
    BY <1>8, <1>10, <1>11, <1>12
  <2>2. Placed(c, turn)
    BY <1>11, <1>16, <2>1 DEF Placed
  <2> QED
    BY <1>11, <2>1, <2>2 DEF OnTheWay
<1>17. ASSUME np = Ratio[tick] PROVE OnTheWay(c, z, turn)
  <2>1. tick # MinTick
    BY <1>8, <1>12, <1>17
  <2>2. tick = next.tick /\ turn.tick = tick - 1
    BY <1>6, <1>13, <1>17, <2>1
  <2> DEFINE new == tick - 1
  <2>3. new \in MinTick .. MaxTick /\ new < MaxTick /\ new + 1 = tick /\ new \in Int /\ tick \in Int
    BY <1>1, <1>3, <1>6, <2>1
  <2> HIDE DEF new
  <2>4. Ratio[new] <= np /\ np <= Ratio[new + 1]
    <3>1. Ratio[new] <= Ratio[tick]
      BY <1>6, <2>3, PricesRise
    <3> QED
      BY <1>8, <1>17, <2>3, <3>1
  <2>5. turn.liquidity = Pool!Below(c.net, new)
    <3>1. CASE next.initialized
      <4>1. tick \in nets /\ turn.liquidity = walk.liquidity - c.net[tick]
        BY <1>7, <1>11, <1>17, <3>1
      <4>2. Pool!Below(c.net, tick) = Pool!Below(c.net, walk.tick)
        <5>1. \A t \in nets : ~(tick < t /\ t <= walk.tick)
          BY <1>5, <2>2
        <5>2. tick \in Int /\ walk.tick \in Int
          BY <1>1, <1>3, <1>6
        <5> QED
          BY <1>6, <1>15, <5>1, <5>2, BelowSame
      <4>3. Pool!Below(c.net, tick) = c.net[tick] + Pool!Below(c.net, new)
        BY <1>2, <1>15, <4>1, BelowStep DEF new
      <4>4. Pool!Below(c.net, new) \in Int /\ c.net[tick] \in Int /\ walk.liquidity \in Int
        BY <1>2, <1>3, <2>3, <4>1
      <4> QED
        BY <1>3, <4>1, <4>2, <4>3, <4>4
    <3>2. CASE ~next.initialized
      <4>1. turn.liquidity = Pool!Below(c.net, walk.tick)
        BY <1>3, <1>11, <3>2
      <4>2. \A t \in nets : ~(new < t /\ t <= walk.tick)
        <5>1. ASSUME NEW t \in nets, new < t, t <= walk.tick PROVE FALSE
          <6>1. t \in Int /\ t # tick
            BY <1>5, <1>15, <2>2, <3>2
          <6>2. tick < t
            BY <2>3, <5>1, <6>1
          <6> QED
            BY <1>5, <2>2, <5>1, <6>2
        <5> QED
          BY <5>1
      <4>3. new <= walk.tick /\ walk.tick \in Int
        BY <1>1, <1>3, <1>6, <2>3
      <4>4. Pool!Below(c.net, new) = Pool!Below(c.net, walk.tick)
        BY <1>15, <2>3, <4>2, <4>3, BelowSame
      <4> QED
        BY <4>1, <4>4
    <3> QED
      BY <3>1, <3>2
  <2>6. new = turn.tick
    BY <2>2 DEF new
  <2> QED
    BY <1>16, <2>3, <2>4, <2>5, <2>6
<1>18. ASSUME np # Ratio[tick] /\ np # walk.price PROVE OnTheWay(c, z, turn)
  <2> DEFINE new == Pool!TickAt(np)
  <2>1. /\ new \in MinTick .. MaxTick /\ new < MaxTick
        /\ Ratio[new] <= np /\ np < Ratio[new + 1]
    BY <1>8, <1>10, <1>12, TickOfPrice
  <2>2. new = turn.tick /\ turn.liquidity = walk.liquidity
    BY <1>13, <1>11, <1>18
  <2> HIDE DEF new
  <2>3. new \in Int /\ new + 1 \in MinTick .. MaxTick /\ tick \in Int /\ walk.tick \in Int
    BY <1>1, <1>3, <1>6, <2>1
  <2>4. Ratio[new] \in Nat /\ Ratio[new + 1] \in Nat /\ Ratio[walk.tick + 1] \in Nat
    BY <1>1, <1>3, <2>1, <2>3
  <2>5. tick <= new
    <3>1. Ratio[tick] < Ratio[new + 1]
      BY <1>8, <1>10, <1>12, <2>1, <2>4
    <3>2. tick < new + 1
      BY <1>6, <2>3, <3>1, RatioBack
    <3> QED
      BY <2>3, <3>2
  <2>6. new <= walk.tick
    <3>1. Ratio[new] < Ratio[walk.tick + 1]
      BY <1>3, <1>10, <1>18, <2>1, <2>4
    <3>2. new < walk.tick + 1
      BY <1>3, <2>1, <3>1, RatioBack
    <3> QED
      BY <2>3, <3>2
  <2>7. \A t \in nets : ~(new < t /\ t <= walk.tick)
    <3>1. ASSUME NEW t \in nets, new < t, t <= walk.tick PROVE FALSE
      <4>1. next.tick < t
        BY <1>5, <1>6, <1>15, <2>3, <2>5, <3>1
      <4> QED
        BY <1>5, <3>1, <4>1
    <3> QED
      BY <3>1
  <2>8. Pool!Below(c.net, new) = Pool!Below(c.net, walk.tick)
    BY <1>15, <2>3, <2>6, <2>7, BelowSame
  <2>9. np <= Ratio[new + 1]
    BY <1>10, <2>1, <2>4
  <2> QED
    BY <1>3, <1>16, <2>1, <2>2, <2>8, <2>9
<1>19. ASSUME np # Ratio[tick] /\ np = walk.price PROVE OnTheWay(c, z, turn)
  <2>1. turn.tick = walk.tick /\ turn.liquidity = walk.liquidity
    BY <1>13, <1>11, <1>19
  <2> QED
    BY <1>3, <1>16, <1>19, <2>1
<1>20. OnTheWay(c, z, turn)
  BY <1>17, <1>18, <1>19
<1> QED
  BY <1>7, <1>20 DEF turn, tick, next

\* A turn upwards does too.
LEMMA UpKeeps ==
    ASSUME NEW c, Chain(c), NEW z \in BOOLEAN, ~z, NEW walk, OnTheWay(c, z, walk)
    PROVE  /\ OnTheWay(c, z, TurnTo(c, z, walk, NextIn(c, z, walk)))
           /\ NextIn(c, z, walk).initialized => TickOf(NextIn(c, z, walk)) \in DOMAIN c.net
<1> DEFINE next == NextIn(c, z, walk)
           nets == DOMAIN c.net
           tick == TickOf(next)
           target == TargetOf(z, tick)
           step == StepOf(c, z, walk, next)
           np == step.price
           turn == TurnTo(c, z, walk, next)
<1>1. /\ MinTick \in Int /\ MaxTick \in Int /\ MinTick < MaxTick
      /\ \A t \in MinTick .. MaxTick : Ratio[t] \in Nat \ {0}
  BY TickConstants
<1>2. /\ Book(nets, c.spacing) /\ IsFiniteSet(nets) /\ nets \subseteq MinTick .. MaxTick
      /\ \A t \in nets : c.net[t] \in Int
      /\ \A t \in MinTick .. MaxTick : Pool!Below(c.net, t) \in Nat
  BY DEF Chain, Book
<1>3. /\ walk.price \in Nat \ {0} /\ walk.price < Ratio[MaxTick] /\ Ratio[MinTick] <= walk.price
      /\ walk.tick \in MinTick .. MaxTick /\ walk.tick < MaxTick
      /\ walk.tick + 1 \in MinTick .. MaxTick
      /\ Ratio[walk.tick] <= walk.price /\ walk.price <= Ratio[walk.tick + 1]
      /\ walk.liquidity \in Nat /\ walk.liquidity = Pool!Below(c.net, walk.tick)
  BY WayFacts
<1>5. /\ next.tick \in Int /\ walk.tick < next.tick
      /\ next.initialized => next.tick \in nets
      /\ ~next.initialized => next.tick \notin nets
      /\ \A t \in nets : ~(walk.tick < t /\ t < next.tick)
  BY UpTarget
<1>6. /\ tick = IF next.tick < MaxTick THEN next.tick ELSE MaxTick
      /\ tick \in MinTick .. MaxTick /\ walk.tick + 1 <= tick /\ tick <= next.tick
  BY UpTarget
<1>8. /\ Ratio[tick] \in Nat \ {0} /\ Ratio[MaxTick] \in Nat \ {0} /\ walk.price <= Ratio[tick]
  BY UpTarget
<1>9. /\ target \in Nat \ {0} /\ target <= Ratio[tick] /\ target < Ratio[MaxTick]
      /\ walk.price <= target
  BY UpTarget
<1>10. /\ np \in Nat \ {0} /\ walk.price <= np /\ np <= target
       /\ walk.remaining - step.in - step.fee \in Nat
  BY UpTarget
<1> HIDE DEF next, tick, target
<1>7. next.initialized => tick \in nets
  BY <1>1, <1>2, <1>5, <1>6
<1>14. Turned(turn, z, walk, next, tick, step, c.net)
  BY TurnParts DEF tick
<1> HIDE DEF step, turn
<1>11. /\ turn.price = np /\ turn.tick = Pool!TickAfter(z, walk, tick, np)
       /\ np = Ratio[tick] /\ next.initialized => turn.liquidity = walk.liquidity + c.net[tick]
       /\ ~(np = Ratio[tick] /\ next.initialized) => turn.liquidity = walk.liquidity
       /\ turn.remaining \in Nat
  <2>1. Pool!Crossed(z, walk.liquidity, c.net[tick]) = walk.liquidity + c.net[tick]
    BY DEF Pool!Crossed
  <2> QED
    BY <1>10, <1>14, <2>1 DEF Turned
<1> HIDE DEF np
<1>12. Ratio[MinTick] <= np /\ np < Ratio[MaxTick] /\ np <= Ratio[tick]
  <2>1. Ratio[MinTick] \in Nat
    BY <1>1
  <2> QED
    BY <1>3, <1>8, <1>9, <1>10, <2>1
<1>13. turn.tick = IF np = Ratio[tick] THEN tick
                   ELSE IF np # walk.price THEN Pool!TickAt(np) ELSE walk.tick
  BY <1>11 DEF Pool!TickAfter
<1>15. nets \subseteq Int
  BY <1>1, <1>2
<1>16. ASSUME NEW new, new = turn.tick, new \in MinTick .. MaxTick, new < MaxTick,
              Ratio[new] <= np, np <= Ratio[new + 1], turn.liquidity = Pool!Below(c.net, new)
       PROVE  OnTheWay(c, z, turn)
  <2>1. turn.price \in Nat /\ Ratio[MinTick] <= turn.price /\ turn.price < Ratio[MaxTick]
    BY <1>10, <1>11, <1>12
  <2>2. Placed(c, turn)
    BY <1>11, <1>16, <2>1 DEF Placed
  <2> QED
    BY <1>11, <2>1, <2>2 DEF OnTheWay
<1>17. ASSUME np = Ratio[tick] PROVE OnTheWay(c, z, turn)
  <2>1. tick # MaxTick
    BY <1>8, <1>12, <1>17
  <2>2. tick = next.tick /\ turn.tick = tick
    BY <1>6, <1>13, <1>17, <2>1
  <2>3. /\ tick < MaxTick /\ tick \in Int /\ tick + 1 \in MinTick .. MaxTick
        /\ walk.tick \in Int /\ walk.tick <= tick
    BY <1>1, <1>3, <1>6, <2>1
  <2>4. Ratio[tick] <= np /\ np <= Ratio[tick + 1]
    <3>1. Ratio[tick] <= Ratio[tick + 1]
      BY <1>6, <2>3, PricesRise
    <3> QED
      BY <1>8, <1>17, <3>1
  <2>5. turn.liquidity = Pool!Below(c.net, tick)
    <3>1. CASE next.initialized
      <4>1. tick \in nets /\ turn.liquidity = walk.liquidity + c.net[tick]
        BY <1>7, <1>11, <1>17, <3>1
      <4> DEFINE before == tick - 1
      <4>2. before \in Int /\ walk.tick <= before
        BY <1>6, <2>3
      <4>3. Pool!Below(c.net, walk.tick) = Pool!Below(c.net, before)
        <5>1. \A t \in nets : ~(walk.tick < t /\ t <= before)
          BY <1>5, <1>15, <2>2, <2>3
        <5> HIDE DEF before
        <5> QED
          BY <1>15, <2>3, <4>2, <5>1, BelowSame
      <4>4. Pool!Below(c.net, tick) = c.net[tick] + Pool!Below(c.net, before)
        BY <1>2, <1>15, <4>1, BelowStep DEF before
      <4> HIDE DEF before
      <4>5. c.net[tick] \in Int /\ walk.liquidity \in Int
        BY <1>2, <1>3, <4>1
      <4> QED
        BY <1>3, <4>1, <4>3, <4>4, <4>5
    <3>2. CASE ~next.initialized
      <4>1. turn.liquidity = Pool!Below(c.net, walk.tick)
        BY <1>3, <1>11, <3>2
      <4>2. \A t \in nets : ~(walk.tick < t /\ t <= tick)
        <5>1. ASSUME NEW t \in nets, walk.tick < t, t <= tick PROVE FALSE
          <6>1. t \in Int /\ t # tick
            BY <1>5, <1>15, <2>2, <3>2
          <6>2. t < tick
            BY <2>3, <5>1, <6>1
          <6> QED
            BY <1>5, <2>2, <5>1, <6>2
        <5> QED
          BY <5>1
      <4>4. Pool!Below(c.net, walk.tick) = Pool!Below(c.net, tick)
        BY <1>15, <2>3, <4>2, BelowSame
      <4> QED
        BY <4>1, <4>4
    <3> QED
      BY <3>1, <3>2
  <2> QED
    BY <1>6, <1>16, <2>2, <2>3, <2>4, <2>5
<1>18. ASSUME np # Ratio[tick] /\ np # walk.price PROVE OnTheWay(c, z, turn)
  <2> DEFINE new == Pool!TickAt(np)
  <2>1. /\ new \in MinTick .. MaxTick /\ new < MaxTick
        /\ Ratio[new] <= np /\ np < Ratio[new + 1]
    BY <1>10, <1>12, TickOfPrice
  <2>2. new = turn.tick /\ turn.liquidity = walk.liquidity
    BY <1>11, <1>13, <1>18
  <2> HIDE DEF new
  <2>3. new \in Int /\ new + 1 \in MinTick .. MaxTick /\ tick \in Int /\ walk.tick \in Int
    BY <1>1, <1>3, <1>6, <2>1
  <2>4. Ratio[new] \in Nat /\ Ratio[new + 1] \in Nat /\ Ratio[walk.tick] \in Nat
    BY <1>1, <1>3, <2>1, <2>3
  <2>5. new < tick
    <3>1. Ratio[new] < Ratio[tick]
      BY <1>8, <1>10, <1>12, <1>18, <2>1, <2>4
    <3> QED
      BY <1>6, <2>1, <3>1, RatioBack
  <2>6. walk.tick <= new
    <3>1. Ratio[walk.tick] < Ratio[new + 1]
      BY <1>3, <1>10, <2>1, <2>4
    <3>2. walk.tick < new + 1
      BY <1>3, <2>3, <3>1, RatioBack
    <3> QED
      BY <2>3, <3>2
  <2>7. \A t \in nets : ~(walk.tick < t /\ t <= new)
    <3>1. ASSUME NEW t \in nets, walk.tick < t, t <= new PROVE FALSE
      <4>1. t < next.tick
        BY <1>5, <1>6, <1>15, <2>3, <2>5, <3>1
      <4> QED
        BY <1>5, <3>1, <4>1
    <3> QED
      BY <3>1
  <2>8. Pool!Below(c.net, walk.tick) = Pool!Below(c.net, new)
    BY <1>15, <2>3, <2>6, <2>7, BelowSame
  <2>9. np <= Ratio[new + 1]
    BY <1>10, <2>1, <2>4
  <2> QED
    BY <1>3, <1>16, <2>1, <2>2, <2>8, <2>9
<1>19. ASSUME np # Ratio[tick] /\ np = walk.price PROVE OnTheWay(c, z, turn)
  <2>1. turn.tick = walk.tick /\ turn.liquidity = walk.liquidity
    BY <1>11, <1>13, <1>19
  <2> QED
    BY <1>3, <1>16, <1>19, <2>1
<1>20. OnTheWay(c, z, turn)
  BY <1>17, <1>18, <1>19
<1> QED
  BY <1>7, <1>20 DEF turn, tick, next

LEMMA TurnKeeps ==
    ASSUME NEW c, Chain(c), NEW z \in BOOLEAN, NEW walk, OnTheWay(c, z, walk)
    PROVE  /\ OnTheWay(c, z, TurnTo(c, z, walk, NextIn(c, z, walk)))
           /\ NextIn(c, z, walk).initialized => TickOf(NextIn(c, z, walk)) \in DOMAIN c.net
<1>1. CASE z
  BY <1>1, DownKeeps
<1>2. CASE ~z
  BY <1>2, UpKeeps
<1> QED
  BY <1>1, <1>2

LEMMA QuotientsRise ==
    ASSUME NEW a \in Int, NEW b \in Int, NEW d \in Nat \ {0}, a <= b
    PROVE  a \div d \in Int /\ b \div d \in Int /\ a \div d <= b \div d
<1> DEFINE q == a \div d
<1>1. q \in Int /\ q * d \in Int /\ q * d <= a
  BY Compressed
<1> HIDE DEF q
<1>2. q * d <= b
  BY <1>1
<1>3. q <= b \div d
  BY <1>1, <1>2, CompressedOrder
<1>4. b \div d \in Int
  BY Compressed
<1> QED
  BY <1>1, <1>3, <1>4 DEF q

LEMMA NextQuotient ==
    ASSUME NEW a \in Int, NEW d \in Nat \ {0}
    PROVE  (a + 1) \div d \in Int /\ (a + 1) \div d <= a \div d + 1
<1> DEFINE q == a \div d
           n == a + 1
           m == n \div d
<1>1. q \in Int /\ a < (q + 1) * d
  BY Compressed
<1>2. n \in Int /\ m \in Int /\ m * d \in Int /\ m * d <= n
  <2>1. n \in Int
    OBVIOUS
  <2> HIDE DEF n
  <2> QED
    BY <2>1, Compressed
<1> HIDE DEF q, m
<1>3. ASSUME q + 1 < m PROVE FALSE
  <2>1. (q + 1) * d < m * d
    BY <1>1, <1>2, <1>3, MulStrict
  <2>2. (q + 1) * d \in Int
    BY <1>1
  <2>3. (q + 1) * d < a + 1
    BY <1>2, <2>1, <2>2
  <2> QED
    BY <1>1, <2>2, <2>3
<1>4. m <= q + 1
  BY <1>1, <1>2, <1>3
<1> QED
  BY <1>2, <1>4 DEF q, m, n

\* The whole pool has every word that is searched.
LEMMA WordsWhole ==
    ASSUME NEW c, NEW p, Complete(c, p), NEW z \in BOOLEAN, NEW tick \in MinTick .. MaxTick,
           c.spacing \in Nat \ {0}
    PROVE  SearchedWord(tick, c.spacing, z) \in p.words
<1> DEFINE q == tick \div c.spacing
           first == MinTick \div c.spacing
           final == MaxTick \div c.spacing
<1>1. /\ MinTick \in Int /\ MaxTick \in Int /\ WordBits \in Nat \ {0} /\ tick \in Int
      /\ MinTick <= tick /\ tick <= MaxTick
  BY TickConstants
<1>2. q \in Int /\ first \in Int /\ final \in Int /\ first <= q /\ q <= final
  BY <1>1, QuotientsRise
<1> DEFINE w == q \div WordBits
           up == (q + 1) \div WordBits
           least == first \div WordBits
           most == final \div WordBits
<1>3. /\ w = Pool!Word(tick, c.spacing) /\ least = Pool!Word(MinTick, c.spacing)
      /\ most = Pool!Word(MaxTick, c.spacing)
      /\ SearchedWord(tick, c.spacing, z) = IF z THEN w ELSE up
  BY DEF Pool!Word, SearchedWord
<1> HIDE DEF q, first, final
<1>4. w \in Int /\ least \in Int /\ most \in Int /\ least <= w /\ w <= most
  BY <1>1, <1>2, QuotientsRise
<1>5. up \in Int /\ up <= w + 1
  BY <1>1, <1>2, NextQuotient
<1>6. w <= up
  <2> DEFINE n == q + 1
  <2>1. n \in Int /\ q <= n
    BY <1>2
  <2> HIDE DEF n
  <2>2. w <= n \div WordBits
    BY <1>1, <1>2, <2>1, QuotientsRise
  <2> QED
    BY <2>2 DEF n
<1>7. p.words = least - 1 .. most + 1
  BY <1>3 DEF Complete
<1> HIDE DEF w, up, least, most
<1>8. w \in least - 1 .. most + 1 /\ up \in least - 1 .. most + 1
  BY <1>4, <1>5, <1>6
<1> QED
  BY <1>3, <1>7, <1>8
-----------------------------------------------------------------------------
(* A swap on a window and on the whole pool.                               *)

Turn(p, z, walk) == IF Pool!Goes(z, walk) THEN Pool!Advance(p, z, walk) ELSE walk

TurnBody(p, z, start, g, n) == IF n = 0 THEN start ELSE Turn(p, z, g[n - 1])

\* The walks of a swap, by the number of turns.
WalksOf(p, z, start, N) == CHOOSE g : g = [n \in 0 .. N |-> TurnBody(p, z, start, g, n)]

LEMMA WalkTurn ==
    ASSUME NEW p, NEW z, NEW start
    PROVE  Pool!Walk(p, z, start)
             = WalksOf(p, z, start, Pool!TurnLimit(p.version))[Pool!TurnLimit(p.version)]
  BY DEF Pool!Walk, WalksOf, TurnBody, Turn

LEMMA WalksExist ==
    ASSUME NEW p, NEW z, NEW start, NEW N \in Nat
    PROVE  \E g : g = [n \in 0 .. N |-> TurnBody(p, z, start, g, n)]
<1> DEFINE IsWalks(g, k) == g = [n \in 0 .. k |-> TurnBody(p, z, start, g, n)]
           good == {k \in Nat : \E g : IsWalks(g, k)}
<1>1. 0 \in good
  <2> DEFINE g == [n \in 0 .. 0 |-> start]
  <2>1. \A n \in 0 .. 0 : TurnBody(p, z, start, g, n) = start
    BY DEF TurnBody
  <2>2. IsWalks(g, 0)
    BY <2>1
  <2> QED
    BY <2>2
<1>2. ASSUME NEW k \in Nat, k \in good PROVE k + 1 \in good
  <2>1. PICK g : IsWalks(g, k)
    BY <1>2
  <2>2. \A n \in 0 .. k : g[n] = TurnBody(p, z, start, g, n)
    BY <2>1
  <2> DEFINE h == [n \in 0 .. k + 1 |-> TurnBody(p, z, start, g, n)]
  <2>3. \A n \in 0 .. k : h[n] = g[n]
    BY <2>2
  <2> HIDE DEF h
  <2>4. \A n \in 0 .. k + 1 : TurnBody(p, z, start, h, n) = TurnBody(p, z, start, g, n)
    <3>1. ASSUME NEW n \in 0 .. k + 1, n # 0
          PROVE  TurnBody(p, z, start, h, n) = TurnBody(p, z, start, g, n)
      <4>1. n - 1 \in 0 .. k
        BY <3>1
      <4>2. h[n - 1] = g[n - 1]
        BY <2>3, <4>1
      <4> QED
        BY <4>2 DEF TurnBody
    <3>2. TurnBody(p, z, start, h, 0) = TurnBody(p, z, start, g, 0)
      BY DEF TurnBody
    <3> QED
      BY <3>1, <3>2
  <2>5. h = [n \in 0 .. k + 1 |-> TurnBody(p, z, start, h, n)]
    BY <2>4 DEF h
  <2>6. IsWalks(h, k + 1) /\ k + 1 \in Nat
    BY <2>5
  <2> QED
    BY <2>6
<1> HIDE DEF good
<1>3. N \in good
  BY <1>1, <1>2, AllNumbers
<1> QED
  BY <1>3 DEF good

LEMMA WalksFacts ==
    ASSUME NEW p, NEW z, NEW start, NEW N \in Nat
    PROVE  /\ WalksOf(p, z, start, N)[0] = start
           /\ \A n \in Nat : n + 1 <= N =>
                 WalksOf(p, z, start, N)[n + 1] = Turn(p, z, WalksOf(p, z, start, N)[n])
<1> DEFINE g == WalksOf(p, z, start, N)
<1>1. g = [n \in 0 .. N |-> TurnBody(p, z, start, g, n)]
  BY WalksExist DEF WalksOf
<1> HIDE DEF g
<1>2. \A n \in 0 .. N : g[n] = TurnBody(p, z, start, g, n)
  BY <1>1
<1>3. g[0] = start
  BY <1>2 DEF TurnBody
<1>4. ASSUME NEW n \in Nat, n + 1 <= N PROVE g[n + 1] = Turn(p, z, g[n])
  <2> DEFINE m == n + 1
  <2>1. m \in 0 .. N /\ m # 0 /\ m - 1 = n
    BY <1>4
  <2> HIDE DEF m
  <2>2. g[m] = Turn(p, z, g[n])
    BY <1>2, <2>1 DEF TurnBody
  <2> QED
    BY <2>2 DEF m
<1> QED
  BY <1>3, <1>4 DEF g

\* A state that says what it shows truly and the whole pool take the same turns, as
\* long as the state refuses none.
LEMMA WalkShown ==
    ASSUME NEW c, Chain(c), NEW p, Shows(c, p), NEW w, Shows(c, w), Complete(c, w),
           NEW z \in BOOLEAN, NEW start, OnTheWay(c, z, start), Pool!Walk(p, z, start).ok
    PROVE  /\ Pool!Walk(w, z, start) = Pool!Walk(p, z, start)
           /\ OnTheWay(c, z, Pool!Walk(p, z, start))
<1> DEFINE N == Pool!TurnLimit(c.version)
           here == WalksOf(p, z, start, N)
           there == WalksOf(w, z, start, N)
           Same(n) == here[n].ok => there[n] = here[n] /\ OnTheWay(c, z, here[n])
           good == {n \in Nat : n <= N => Same(n)}
<1>1. N \in Nat
  BY TickConstants DEF Pool!TurnLimit
<1>2. Pool!Walk(p, z, start) = here[N] /\ Pool!Walk(w, z, start) = there[N]
  <2>1. p.version = c.version /\ w.version = c.version
    BY DEF Shows
  <2> QED
    BY <2>1, WalkTurn
<1> HIDE DEF N
<1>3. /\ here[0] = start /\ there[0] = start
      /\ \A n \in Nat : n + 1 <= N => here[n + 1] = Turn(p, z, here[n])
      /\ \A n \in Nat : n + 1 <= N => there[n + 1] = Turn(w, z, there[n])
  BY <1>1, WalksFacts
<1> HIDE DEF here, there
<1>4. 0 \in good
  BY <1>3
<1>5. ASSUME NEW n \in Nat, n \in good PROVE n + 1 \in good
  <2>1. ASSUME n + 1 <= N, here[n + 1].ok
        PROVE  there[n + 1] = here[n + 1] /\ OnTheWay(c, z, here[n + 1])
    <3> DEFINE walk == here[n]
    <3>1. Same(n) /\ here[n + 1] = Turn(p, z, walk) /\ there[n + 1] = Turn(w, z, there[n])
      BY <1>1, <1>3, <1>5, <2>1
    <3> HIDE DEF walk
    <3>2. CASE ~Pool!Goes(z, walk)
      <4>1. here[n + 1] = walk /\ walk.ok
        BY <2>1, <3>1, <3>2 DEF Turn
      <4>2. there[n] = walk /\ OnTheWay(c, z, walk)
        BY <3>1, <4>1 DEF walk
      <4> QED
        BY <3>1, <3>2, <4>1, <4>2 DEF Turn
    <3>3. CASE Pool!Goes(z, walk)
      <4>1. walk.ok
        BY <3>3 DEF Pool!Goes
      <4>2. there[n] = walk /\ OnTheWay(c, z, walk)
        BY <3>1, <4>1 DEF walk
      <4>3. here[n + 1] = Pool!Advance(p, z, walk) /\ there[n + 1] = Pool!Advance(w, z, walk)
        BY <3>1, <3>3, <4>2 DEF Turn
      <4> DEFINE next == NextIn(c, z, walk)
      <4>4. Pool!Advance(p, z, walk) = TurnTo(c, z, walk, next)
        BY <2>1, <4>3, TurnShown
      <4>5. OnTheWay(c, z, TurnTo(c, z, walk, next))
            /\ (next.initialized => TickOf(next) \in DOMAIN c.net)
        BY <4>2, TurnKeeps
      <4>6. SearchedWord(walk.tick, c.spacing, z) \in w.words
        <5>1. walk.tick \in MinTick .. MaxTick /\ c.spacing \in Nat \ {0}
          BY <4>2, WayFacts DEF Chain, Book
        <5> QED
          BY <5>1, WordsWhole
      <4>7. Pool!Advance(w, z, walk) = TurnTo(c, z, walk, next)
        BY <4>5, <4>6, TurnWhole
      <4> HIDE DEF next
      <4> QED
        BY <4>3, <4>4, <4>5, <4>7
    <3> QED
      BY <3>2, <3>3
  <2> QED
    BY <2>1
<1>6. Same(N)
  <2> HIDE DEF good
  <2>1. N \in good
    BY <1>1, <1>4, <1>5, AllNumbers
  <2> QED
    BY <1>1, <2>1 DEF good
<1> QED
  BY <1>2, <1>6

\* A loaded state of a pool on the chain, and the state of its whole pool at one price.
PoolFields == {"family", "version", "spacing", "protocol", "fee", "price", "tick",
               "liquidity", "net", "words", "initialized"}

LoadedFrom(c, p) == PoolFields \subseteq DOMAIN p /\ p.family = "tick" /\ Shows(c, p)

Paired(c, p, w) ==
    /\ LoadedFrom(c, p) /\ LoadedFrom(c, w) /\ Complete(c, w) /\ Placed(c, p)
    /\ p.price = w.price /\ p.tick = w.tick /\ p.liquidity = w.liquidity

StartOf(p, amount) ==
    [ok |-> TRUE, price |-> p.price, tick |-> p.tick,
     liquidity |-> p.liquidity, remaining |-> amount, out |-> 0]

Moved(p, walk) == [p EXCEPT !.price = walk.price, !.tick = walk.tick,
                            !.liquidity = walk.liquidity]

MayStart(p, z) == IF z THEN Pool!PriceLimit(z) < p.price ELSE Pool!PriceLimit(z) > p.price

LEMMA SwapParts ==
    ASSUME NEW p, NEW z, NEW amount
    PROVE  Pool!TickSwap(p, z, amount) =
             IF amount = 0 THEN [ok |-> TRUE, out |-> 0, next |-> p]
             ELSE IF /\ MayStart(p, z)
                     /\ Pool!Walk(p, z, StartOf(p, amount)).ok
                     /\ Pool!Walk(p, z, StartOf(p, amount)).remaining = 0
               THEN [ok |-> TRUE, out |-> Pool!Walk(p, z, StartOf(p, amount)).out,
                     next |-> Moved(p, Pool!Walk(p, z, StartOf(p, amount)))]
               ELSE Pool!Refusal
  BY DEF Pool!TickSwap, MayStart, StartOf, Moved

LEMMA MovedFacts ==
    ASSUME NEW p, PoolFields \subseteq DOMAIN p, NEW walk
    PROVE  /\ PoolFields \subseteq DOMAIN Moved(p, walk)
           /\ Moved(p, walk).price = walk.price /\ Moved(p, walk).tick = walk.tick
           /\ Moved(p, walk).liquidity = walk.liquidity
           /\ Moved(p, walk).family = p.family /\ Moved(p, walk).version = p.version
           /\ Moved(p, walk).spacing = p.spacing /\ Moved(p, walk).protocol = p.protocol
           /\ Moved(p, walk).fee = p.fee /\ Moved(p, walk).net = p.net
           /\ Moved(p, walk).words = p.words /\ Moved(p, walk).initialized = p.initialized
<1>1. /\ "family" \in DOMAIN p /\ "version" \in DOMAIN p /\ "spacing" \in DOMAIN p
      /\ "protocol" \in DOMAIN p /\ "fee" \in DOMAIN p /\ "price" \in DOMAIN p
      /\ "tick" \in DOMAIN p /\ "liquidity" \in DOMAIN p /\ "net" \in DOMAIN p
      /\ "words" \in DOMAIN p /\ "initialized" \in DOMAIN p
  BY DEF PoolFields
<1>2. DOMAIN Moved(p, walk) = DOMAIN p
  BY DEF Moved
<1>3. /\ Moved(p, walk).price = walk.price /\ Moved(p, walk).tick = walk.tick
      /\ Moved(p, walk).liquidity = walk.liquidity
  BY <1>1 DEF Moved
<1>4. /\ Moved(p, walk).family = p.family /\ Moved(p, walk).version = p.version
      /\ Moved(p, walk).spacing = p.spacing /\ Moved(p, walk).protocol = p.protocol
      /\ Moved(p, walk).fee = p.fee
  BY <1>1 DEF Moved
<1>5. /\ Moved(p, walk).net = p.net
      /\ Moved(p, walk).words = p.words /\ Moved(p, walk).initialized = p.initialized
  BY <1>1 DEF Moved
<1> QED
  BY <1>2, <1>3, <1>4, <1>5

LEMMA MovedShows ==
    ASSUME NEW c, NEW p, LoadedFrom(c, p), NEW walk
    PROVE  /\ LoadedFrom(c, Moved(p, walk))
           /\ Complete(c, p) => Complete(c, Moved(p, walk))
<1> DEFINE m == Moved(p, walk)
<1>1. /\ PoolFields \subseteq DOMAIN m
      /\ m.family = p.family /\ m.version = p.version
      /\ m.spacing = p.spacing /\ m.protocol = p.protocol
      /\ m.fee = p.fee /\ m.net = p.net
      /\ m.words = p.words /\ m.initialized = p.initialized
  BY MovedFacts DEF LoadedFrom
<1> HIDE DEF m
<1>2. Shows(c, m)
  BY <1>1 DEF LoadedFrom, Shows
<1>3. LoadedFrom(c, m)
  BY <1>1, <1>2 DEF LoadedFrom
<1>4. Complete(c, p) => Complete(c, m)
  BY <1>1 DEF Complete
<1> QED
  BY <1>3, <1>4 DEF m

LEMMA SwapShown ==
    ASSUME NEW c, Chain(c), NEW p, NEW w, Paired(c, p, w), NEW z \in BOOLEAN, NEW amount \in Nat,
           Pool!TickSwap(p, z, amount).ok
    PROVE  /\ Pool!TickSwap(w, z, amount).ok
           /\ Pool!TickSwap(w, z, amount).out = Pool!TickSwap(p, z, amount).out
           /\ Paired(c, Pool!TickSwap(p, z, amount).next, Pool!TickSwap(w, z, amount).next)
<1>1. CASE amount = 0
  <2>1. /\ Pool!TickSwap(p, z, amount) = [ok |-> TRUE, out |-> 0, next |-> p]
        /\ Pool!TickSwap(w, z, amount) = [ok |-> TRUE, out |-> 0, next |-> w]
    BY <1>1, SwapParts
  <2> QED
    BY <2>1
<1>2. CASE amount # 0
  <2> DEFINE start == StartOf(p, amount)
             walk == Pool!Walk(p, z, start)
  <2>1. /\ LoadedFrom(c, p) /\ LoadedFrom(c, w) /\ Complete(c, w) /\ Placed(c, p)
        /\ p.price = w.price /\ p.tick = w.tick /\ p.liquidity = w.liquidity
        /\ Shows(c, p) /\ Shows(c, w)
    BY DEF Paired, LoadedFrom
  <2>2. MayStart(p, z) /\ walk.ok /\ walk.remaining = 0
    <3>1. ASSUME ~(MayStart(p, z) /\ walk.ok /\ walk.remaining = 0) PROVE FALSE
      <4>1. Pool!TickSwap(p, z, amount) = Pool!Refusal
        BY <1>2, <3>1, SwapParts
      <4>2. ~Pool!TickSwap(p, z, amount).ok
        BY <4>1 DEF Pool!Refusal
      <4> QED
        BY <4>2
    <3> QED
      BY <3>1
  <2>3. Pool!TickSwap(p, z, amount) = [ok |-> TRUE, out |-> walk.out, next |-> Moved(p, walk)]
    BY <1>2, <2>2, SwapParts
  <2>4. StartOf(w, amount) = start
    BY <2>1 DEF StartOf
  <2>5. OnTheWay(c, z, start)
    <3>1. /\ start.price = p.price /\ start.tick = p.tick /\ start.liquidity = p.liquidity
          /\ start.remaining = amount
      BY DEF StartOf
    <3> HIDE DEF start
    <3>2. Placed(c, start)
      BY <2>1, <3>1 DEF Placed
    <3>3. z => Ratio[MinTick] < p.price
      <4>1. Ratio[MinTick] \in Nat /\ p.price \in Nat
        BY <2>1, TickConstants DEF Placed
      <4>2. z => Ratio[MinTick] + 1 < p.price
        BY <2>2 DEF MayStart, Pool!PriceLimit
      <4> QED
        BY <4>1, <4>2
    <3> QED
      BY <3>1, <3>2, <3>3 DEF OnTheWay
  <2> HIDE DEF start
  <2>6. Pool!Walk(w, z, start) = walk /\ OnTheWay(c, z, walk)
    BY <2>1, <2>2, <2>5, WalkShown
  <2>7. MayStart(w, z)
    BY <2>1, <2>2 DEF MayStart
  <2> HIDE DEF walk
  <2>8. Pool!TickSwap(w, z, amount) = [ok |-> TRUE, out |-> walk.out, next |-> Moved(w, walk)]
    BY <1>2, <2>2, <2>4, <2>6, <2>7, SwapParts
  <2>9. Paired(c, Moved(p, walk), Moved(w, walk))
    <3>1. /\ LoadedFrom(c, Moved(p, walk)) /\ LoadedFrom(c, Moved(w, walk))
          /\ Complete(c, Moved(w, walk))
      BY <2>1, MovedShows
    <3>2. /\ Moved(p, walk).price = walk.price /\ Moved(p, walk).tick = walk.tick
          /\ Moved(p, walk).liquidity = walk.liquidity
          /\ Moved(w, walk).price = walk.price /\ Moved(w, walk).tick = walk.tick
          /\ Moved(w, walk).liquidity = walk.liquidity
      BY <2>1, MovedFacts DEF LoadedFrom
    <3>3. Placed(c, Moved(p, walk))
      BY <2>6, <3>2 DEF OnTheWay, Placed
    <3> QED
      BY <3>1, <3>2, <3>3 DEF Paired
  <2> QED
    BY <2>3, <2>8, <2>9
<1> QED
  BY <1>1, <1>2

\* What load_state builds is paired with the whole pool.
LEMMA LoadPaired ==
    ASSUME NEW c, Pool!TickFacts(c), NEW answers, Pool!TickLoad(c, answers).ok
    PROVE  Paired(c, Pool!TickLoad(c, answers).state, Pool!WholePool(c))
<1> DEFINE shown == {w \in Pool!Window(c.tick, c.spacing) : <<"word", {w}>> \in answers.ok}
           words == Pool!Contiguous(shown, Pool!Word(c.tick, c.spacing))
           nets == IF c.version = "v4" THEN Pool!NetsV4(c, answers, words)
                                       ELSE Pool!NetsV3(c, answers, words)
           state == [c EXCEPT !.net = [t \in nets |-> c.net[t]],
                              !.words = words, !.initialized = Pool!InWords(c, words)]
           whle == Pool!WholePool(c)
<1>1. /\ Pool!TickLoad(c, answers).state = state
      /\ c.version = "v4" => Pool!LoadsV4(c, answers, words)
  <2> DEFINE loads == /\ Pool!Statics \subseteq answers.ok
                      /\ Pool!Word(c.tick, c.spacing) \in shown
                      /\ IF c.version = "v4" THEN Pool!LoadsV4(c, answers, words)
                                             ELSE Pool!LoadsV3(c, nets, words)
  <2>1. Pool!TickLoad(c, answers) = IF loads THEN [ok |-> TRUE, state |-> state] ELSE Pool!Refusal
    BY DEF Pool!TickLoad
  <2> HIDE DEF state
  <2>2. loads
    <3> HIDE DEF loads
    <3>1. ~Pool!Refusal.ok
      BY DEF Pool!Refusal
    <3> QED
      BY <2>1, <3>1
  <2>3. Pool!TickLoad(c, answers).state = state
    <3> HIDE DEF loads
    <3> QED
      BY <2>1, <2>2
  <2> QED
    BY <2>2, <2>3
<1>2. /\ c \in Pool!TickSource(c)
      /\ c.healthy \/ c.version # "v4" => Pool!Initialized(c)
      /\ Pool!Initialized(c) =>
            c.tick < MaxTick /\ Ratio[c.tick] <= c.price /\ c.price <= Ratio[c.tick + 1]
      /\ c.liquidity = Pool!Below(c.net, c.tick)
  BY DEF Pool!TickFacts
<1>3. Pool!Initialized(c)
  <2>1. c.version = "v4" => c.price \in Ratio[MinTick] .. Ratio[MaxTick] - 1
    BY <1>1 DEF Pool!LoadsV4
  <2> QED
    BY <1>2, <2>1 DEF Pool!Initialized
<1>4. PoolFields \subseteq DOMAIN c /\ c.family = "tick" /\ c.tick \in MinTick .. MaxTick
  BY <1>2, TickConstants DEF Pool!TickSource, PoolFields
<1>5. Placed(c, c)
  <2>1. /\ c.price \in Nat /\ Ratio[MinTick] <= c.price /\ c.price < Ratio[MaxTick]
    <3>1. Ratio[MinTick] \in Nat /\ Ratio[MaxTick] \in Nat
      BY TickConstants
    <3> QED
      BY <1>3, <3>1 DEF Pool!Initialized
  <2> QED
    BY <1>2, <1>3, <1>4, <2>1 DEF Placed
<1>6. nets \subseteq DOMAIN c.net
  BY DEF Pool!NetsV4, Pool!NetsV3, Pool!InWords
<1> HIDE DEF words, nets
<1>7. /\ "family" \in DOMAIN c /\ "version" \in DOMAIN c /\ "spacing" \in DOMAIN c
      /\ "protocol" \in DOMAIN c /\ "fee" \in DOMAIN c /\ "price" \in DOMAIN c
      /\ "tick" \in DOMAIN c /\ "liquidity" \in DOMAIN c /\ "net" \in DOMAIN c
      /\ "words" \in DOMAIN c /\ "initialized" \in DOMAIN c
  BY <1>4 DEF PoolFields
<1>8. /\ state.net = [t \in nets |-> c.net[t]] /\ state.words = words
      /\ state.initialized = Pool!InWords(c, words)
      /\ state.family = c.family /\ state.version = c.version /\ state.spacing = c.spacing
  BY <1>7
<1>9. /\ state.protocol = c.protocol /\ state.fee = c.fee /\ state.price = c.price
      /\ state.tick = c.tick /\ state.liquidity = c.liquidity /\ DOMAIN state = DOMAIN c
  BY <1>7
<1>10. /\ whle.words = Pool!Word(MinTick, c.spacing) - 1 .. Pool!Word(MaxTick, c.spacing) + 1
       /\ whle.initialized = DOMAIN c.net /\ whle.net = c.net
       /\ whle.family = c.family /\ whle.version = c.version /\ whle.spacing = c.spacing
  BY <1>7 DEF Pool!WholePool
<1>11. /\ whle.protocol = c.protocol /\ whle.fee = c.fee /\ whle.price = c.price
       /\ whle.tick = c.tick /\ whle.liquidity = c.liquidity /\ DOMAIN whle = DOMAIN c
  BY <1>7 DEF Pool!WholePool
<1> HIDE DEF state, whle
<1>12. Shows(c, state)
  <2>1. ASSUME NEW w \in words PROVE SameWord(Pool!InWords(c, words), DOMAIN c.net, w, c.spacing)
    BY <2>1 DEF SameWord, Pool!InWords
  <2>2. DOMAIN state.net = nets /\ \A t \in nets : state.net[t] = c.net[t]
    BY <1>8
  <2> QED
    BY <1>6, <1>8, <1>9, <2>1, <2>2 DEF Shows
<1>13. Shows(c, whle) /\ Complete(c, whle)
  <2>1. \A w : SameWord(DOMAIN c.net, DOMAIN c.net, w, c.spacing)
    BY DEF SameWord
  <2>2. Shows(c, whle)
    BY <1>10, <1>11, <2>1 DEF Shows
  <2> QED
    BY <1>10, <2>2 DEF Complete
<1>14. LoadedFrom(c, state) /\ LoadedFrom(c, whle)
  BY <1>4, <1>8, <1>9, <1>10, <1>11, <1>12, <1>13 DEF LoadedFrom
<1>15. Placed(c, state)
  BY <1>5, <1>9 DEF Placed
<1>16. Paired(c, state, whle)
  BY <1>9, <1>11, <1>13, <1>14, <1>15 DEF Paired
<1> QED
  BY <1>1, <1>16 DEF whle

\* Loaded, the window of a pool is paired with the whole of it.
WindowInv ==
    /\ source \in Sources
    /\ phase = "loaded" /\ Pool!IsTick => Paired(source, pool, whole)

LEMMA TickSourceFacts ==
    ASSUME source \in Sources, Pool!IsTick
    PROVE  Pool!TickFacts(source) /\ Chain(source) /\ Amounts["tick"] \subseteq Nat
<1>1. Pool!TickFacts(source) /\ Amounts["tick"] \subseteq Nat
  BY DEF Pool!PoolTradesAssumption, Pool!IsTick
<1> QED
  BY <1>1, ChainFacts

\* A swap of the first token goes down, of the second up.
LEMMA SwapDirection ==
    ASSUME NEW i
    PROVE  \E z \in BOOLEAN :
              /\ z <=> i = 1
              /\ \A p, amount : Pool!TickSwap(p, i = 1, amount) = Pool!TickSwap(p, z, amount)
<1> WITNESS (i = 1) \in BOOLEAN
<1> QED
  OBVIOUS

LEMMA WindowLoads ==
    ASSUME WindowInv, Pool!Load
    PROVE  WindowInv'
<1>1. source' = source /\ source \in Sources
  BY DEF WindowInv, Pool!Load
<1>2. ASSUME phase' = "loaded", Pool!IsTick PROVE Paired(source, pool', whole')
  <2>1. /\ Pool!LoadState.ok /\ pool' = Pool!LoadState.state /\ whole' = Pool!WholePool(source)
    BY <1>2 DEF Pool!Load
  <2>2. Pool!LoadState = Pool!TickLoad(source, got)
    <3>1. ~Pool!Refusal.ok
      BY DEF Pool!Refusal
    <3> QED
      BY <1>2, <2>1, <3>1 DEF Pool!LoadState
  <2> QED
    BY <1>1, <1>2, <2>1, <2>2, TickSourceFacts, LoadPaired
<1>3. Pool!IsTick' <=> Pool!IsTick
  BY <1>1 DEF Pool!IsTick
<1> QED
  BY <1>1, <1>2, <1>3 DEF WindowInv

LEMMA WindowTrades ==
    ASSUME WindowInv, NEW pair \in Pool!PairsOf(pool), NEW amount \in Amounts[source.family],
           Pool!Trade(pair[1], pair[2], amount)
    PROVE  WindowInv'
<1>1. source' = source /\ source \in Sources /\ phase = "loaded"
  BY DEF WindowInv, Pool!Trade
<1>2. Pool!IsTick' <=> Pool!IsTick
  BY <1>1 DEF Pool!IsTick
<1>3. ASSUME Pool!IsTick PROVE Paired(source, pool', whole')
  <2>1. Paired(source, pool, whole) /\ Chain(source) /\ amount \in Nat
    BY <1>1, <1>3, TickSourceFacts DEF WindowInv, Pool!IsTick
  <2>2. pool.family = "tick" /\ whole.family = "tick"
    BY <2>1 DEF Paired, LoadedFrom
  <2> DEFINE here == Pool!SwapPool(pool, pair[1], pair[2], amount)
             there == Pool!SwapPool(whole, pair[1], pair[2], amount)
  <2>3. here.ok /\ pool' = here.next /\ whole' = there.next
    BY <1>3 DEF Pool!Trade
  <2>4. PICK z \in BOOLEAN : \A p : Pool!TickSwap(p, pair[1] = 1, amount) = Pool!TickSwap(p, z, amount)
    BY SwapDirection
  <2>5. here = Pool!TickSwap(pool, z, amount) /\ there = Pool!TickSwap(whole, z, amount)
    <3>1. /\ here = Pool!TickSwap(pool, pair[1] = 1, amount)
          /\ there = Pool!TickSwap(whole, pair[1] = 1, amount)
      BY <2>2 DEF Pool!SwapPool
    <3> HIDE DEF here, there
    <3> QED
      BY <2>4, <3>1
  <2> HIDE DEF here, there
  <2> QED
    BY <2>1, <2>3, <2>5, SwapShown
<1> QED
  BY <1>1, <1>2, <1>3 DEF WindowInv

\* A window swaps as the whole of its pool, or refuses.
LEMMA WindowSwaps ==
    ASSUME WindowInv
    PROVE  SwapsAsWhole
<1> SUFFICES ASSUME phase = "loaded", Pool!IsTick
             PROVE  /\ pool.price = whole.price /\ pool.tick = whole.tick
                    /\ pool.liquidity = whole.liquidity
                    /\ \A i \in 1 .. 2, amount \in Amounts["tick"] :
                          Pool!TickSwap(pool, i = 1, amount).ok =>
                            /\ Pool!TickSwap(whole, i = 1, amount).ok
                            /\ Pool!TickSwap(pool, i = 1, amount).out
                                 = Pool!TickSwap(whole, i = 1, amount).out
                    /\ pool.liquidity = Pool!Below(source.net, pool.tick)
  BY DEF SwapsAsWhole, Pool!SwapsAsWhole, Pool!LiquidityInRange
<1>1. Paired(source, pool, whole) /\ Chain(source) /\ Amounts["tick"] \subseteq Nat
  BY TickSourceFacts DEF WindowInv
<1>2. /\ pool.price = whole.price /\ pool.tick = whole.tick
      /\ pool.liquidity = whole.liquidity
      /\ pool.liquidity = Pool!Below(source.net, pool.tick)
  BY <1>1 DEF Paired, Placed
<1>3. ASSUME NEW i \in 1 .. 2, NEW amount \in Amounts["tick"],
             Pool!TickSwap(pool, i = 1, amount).ok
      PROVE  /\ Pool!TickSwap(whole, i = 1, amount).ok
             /\ Pool!TickSwap(pool, i = 1, amount).out = Pool!TickSwap(whole, i = 1, amount).out
  <2>1. PICK z \in BOOLEAN : \A p : Pool!TickSwap(p, i = 1, amount) = Pool!TickSwap(p, z, amount)
    BY SwapDirection
  <2>2. /\ Pool!TickSwap(pool, i = 1, amount) = Pool!TickSwap(pool, z, amount)
        /\ Pool!TickSwap(whole, i = 1, amount) = Pool!TickSwap(whole, z, amount)
    BY <2>1
  <2>3. amount \in Nat /\ Pool!TickSwap(pool, z, amount).ok
    BY <1>1, <1>3, <2>2
  <2> QED
    BY <1>1, <2>2, <2>3, SwapShown
<1> QED
  BY <1>2, <1>3

LEMMA WindowStays ==
    ASSUME WindowInv, [PoolsNext]_<<vars, poolVars, trading>>
    PROVE  WindowInv'
<1>1. ASSUME UNCHANGED poolVars PROVE WindowInv'
  BY <1>1 DEF WindowInv, poolVars, Pool!IsTick
<1>2. ASSUME Pool!Read \/ Pool!Prefetch \/ Pool!Serve \/ Pool!FollowUp PROVE WindowInv'
  <2>1. source' = source /\ phase' # "loaded"
    BY <1>2 DEF Pool!Read, Pool!Prefetch, Pool!Serve, Pool!FollowUp, Pool!Ask
  <2> QED
    BY <2>1 DEF WindowInv
<1> QED
  BY <1>1, <1>2, PoolSteps, WindowLoads, WindowTrades DEF Pool!Next

\* A tick pool swaps on the words it loaded exactly as on the whole pool, or refuses, and
\* its liquidity in range is that of the ticks below.
THEOREM WindowsSwapAsWhole == PoolsSpec => []SwapsAsWhole
<1>1. PoolsStart => WindowInv
  BY DEF PoolsStart, PoolsInit, Pool!Init, WindowInv
<1>2. ASSUME WindowInv, [PoolsNext]_<<vars, poolVars, trading>> PROVE WindowInv'
  BY <1>2, WindowStays
<1>3. WindowInv => SwapsAsWhole
  BY WindowSwaps
<1> QED
  BY <1>1, <1>2, <1>3, PTL DEF PoolsSpec
-----------------------------------------------------------------------------
(* Loops, and the arithmetic of a stable pool (StablePools).               *)

\* One turn of a loop, and all of them.
LoopBody(step, start, g, k) == IF k = 0 THEN start ELSE step[k][g[k - 1]]
LoopOf(step, start, n) == CHOOSE g : g = [k \in 0 .. n |-> LoopBody(step, start, g, k)]

LEMMA LoopShown ==
    ASSUME NEW step, NEW start, NEW n
    PROVE  Pool!Loop(step, start, n) = LoopOf(step, start, n)[n]
  BY DEF Pool!Loop, LoopOf, LoopBody

LEMMA LoopExists ==
    ASSUME NEW step, NEW start, NEW N \in Nat
    PROVE  \E g : g = [k \in 0 .. N |-> LoopBody(step, start, g, k)]
<1> DEFINE IsLoop(g, n) == g = [k \in 0 .. n |-> LoopBody(step, start, g, k)]
           good == {n \in Nat : \E g : IsLoop(g, n)}
<1>1. 0 \in good
  <2> DEFINE g == [k \in 0 .. 0 |-> start]
  <2>1. \A k \in 0 .. 0 : LoopBody(step, start, g, k) = start
    BY DEF LoopBody
  <2>2. IsLoop(g, 0)
    BY <2>1
  <2> QED
    BY <2>2
<1>2. ASSUME NEW n \in Nat, n \in good PROVE n + 1 \in good
  <2>1. PICK g : IsLoop(g, n)
    BY <1>2
  <2>2. \A k \in 0 .. n : g[k] = LoopBody(step, start, g, k)
    BY <2>1
  <2> DEFINE h == [k \in 0 .. n + 1 |-> LoopBody(step, start, g, k)]
  <2>3. \A k \in 0 .. n : h[k] = g[k]
    BY <2>2
  <2> HIDE DEF h
  <2>4. \A k \in 0 .. n + 1 : LoopBody(step, start, h, k) = LoopBody(step, start, g, k)
    <3>1. ASSUME NEW k \in 0 .. n + 1, k # 0
          PROVE  LoopBody(step, start, h, k) = LoopBody(step, start, g, k)
      <4>1. k - 1 \in 0 .. n
        BY <3>1
      <4>2. h[k - 1] = g[k - 1]
        BY <2>3, <4>1
      <4> QED
        BY <4>2 DEF LoopBody
    <3>2. LoopBody(step, start, h, 0) = LoopBody(step, start, g, 0)
      BY DEF LoopBody
    <3> QED
      BY <3>1, <3>2
  <2>5. h = [k \in 0 .. n + 1 |-> LoopBody(step, start, h, k)]
    BY <2>4 DEF h
  <2>6. IsLoop(h, n + 1) /\ n + 1 \in Nat
    BY <2>5
  <2> QED
    BY <2>6
<1> HIDE DEF good
<1>3. N \in good
  BY <1>1, <1>2, AllNumbers
<1> QED
  BY <1>3 DEF good

\* Every turn stays within V, and so does the loop.
Keeps(step, n, V) == \A k \in 1 .. n, v \in V : step[k][v] \in V

LEMMA LoopTyped ==
    ASSUME NEW V, NEW n \in Nat, NEW step, Keeps(step, n, V), NEW start \in V
    PROVE  Pool!Loop(step, start, n) \in V
<1> DEFINE g == LoopOf(step, start, n)
           good == {m \in Nat : m <= n => g[m] \in V}
<1>1. g = [k \in 0 .. n |-> LoopBody(step, start, g, k)]
  BY LoopExists DEF LoopOf
<1> HIDE DEF g
<1>2. \A k \in 0 .. n : g[k] = LoopBody(step, start, g, k)
  BY <1>1
<1>3. 0 \in good
  BY <1>2 DEF LoopBody
<1>4. ASSUME NEW m \in Nat, m \in good PROVE m + 1 \in good
  <2>1. ASSUME m + 1 <= n PROVE g[m + 1] \in V
    <3> DEFINE k == m + 1
    <3>1. k \in 1 .. n /\ k \in 0 .. n /\ k # 0 /\ k - 1 = m /\ g[m] \in V
      BY <1>4, <2>1
    <3> HIDE DEF k
    <3>2. g[k] = step[k][g[m]]
      BY <1>2, <3>1 DEF LoopBody
    <3>3. step[k][g[m]] \in V
      BY <3>1 DEF Keeps
    <3> QED
      BY <3>2, <3>3 DEF k
  <2> QED
    BY <2>1
<1> HIDE DEF good
<1>5. n \in good
  BY <1>3, <1>4, AllNumbers
<1>6. g[n] \in V
  BY <1>5 DEF good
<1> QED
  BY <1>6, LoopShown DEF g

\* A sum of natural numbers is one.
LEMMA TotalNat ==
    ASSUME NEW F, NEW S, IsFiniteSet(S), \A x \in S : F[x] \in Nat
    PROVE  Total(F, S) \in Nat
<1> DEFINE good == {n \in Nat : \A T \in SUBSET S : Cardinality(T) <= n => Total(F, T) \in Nat}
<1>1. 0 \in good
  <2>1. ASSUME NEW T \in SUBSET S, Cardinality(T) <= 0 PROVE T = {}
    BY <2>1, FS_Subset, FS_EmptySet, FS_CardinalityType
  <2> QED
    BY <2>1, TotalEmpty
<1>2. ASSUME NEW n \in Nat, n \in good PROVE n + 1 \in good
  <2>1. ASSUME NEW T \in SUBSET S, Cardinality(T) <= n + 1 PROVE Total(F, T) \in Nat
    <3>1. CASE T # {}
      <4> DEFINE rest == T \ {Pick(T)}
      <4>1. IsFiniteSet(T) /\ Pick(T) \in T
        BY <3>1, FS_Subset, PickIn
      <4>2. rest \in SUBSET S /\ Cardinality(rest) <= n
        BY <2>1, <4>1, Smaller
      <4>3. Total(F, rest) \in Nat
        BY <1>2, <4>2
      <4>4. Total(F, T) = F[Pick(T)] + Total(F, rest)
        BY <3>1, <4>1, TotalStep
      <4>5. F[Pick(T)] \in Nat
        BY <4>1
      <4> HIDE DEF rest
      <4> QED
        BY <4>3, <4>4, <4>5
    <3> QED
      BY <3>1, TotalEmpty
  <2> QED
    BY <2>1
<1>3. Cardinality(S) \in good
  BY <1>1, <1>2, AllNumbers, FS_CardinalityType
<1> QED
  BY <1>3, FS_CardinalityType

\* A list of n natural numbers, as the balances of n coins are; and one without a zero.
Listed(xp, n) == n \in Nat /\ xp \in [1 .. n -> Nat] /\ Len(xp) = n
Positive(xp, n) == Listed(xp, n) /\ \A k \in 1 .. n : xp[k] # 0

LEMMA ListedIs ==
    ASSUME NEW n \in Nat, NEW xp \in [1 .. n -> Nat]
    PROVE  Listed(xp, n)
  BY DEF Listed

LEMMA ListedSeq ==
    ASSUME NEW xp \in Seq(Nat)
    PROVE  Listed(xp, Len(xp))
  BY DEF Listed

LEMMA SeqListed ==
    ASSUME NEW xp, NEW n, Listed(xp, n)
    PROVE  xp \in Seq(Nat) /\ Len(xp) = n
  BY DEF Listed

LEMMA SumNat ==
    ASSUME NEW xp, NEW n, Listed(xp, n)
    PROVE  Pool!SumOver(xp) \in Nat
<1>1. Pool!SumOver(xp) = Total(xp, DOMAIN xp)
  BY DEF Pool!SumOver, Total
<1>2. n \in Nat /\ DOMAIN xp = 1 .. n /\ \A k \in 1 .. n : xp[k] \in Nat
  BY DEF Listed
<1>3. IsFiniteSet(1 .. n)
  BY <1>2, FS_Interval
<1> QED
  BY <1>1, <1>2, <1>3, TotalNat

LEMMA PowerNat ==
    ASSUME NEW base \in Nat \ {0}, NEW n \in Nat
    PROVE  Pool!Power(base, n) \in Nat \ {0}
<1> DEFINE step == [k \in 1 .. n |-> [product \in Nat |-> product * base]]
<1>1. ASSUME NEW k \in 1 .. n, NEW v \in Nat \ {0} PROVE step[k][v] \in Nat \ {0}
  <2>1. step[k][v] = v * base
    OBVIOUS
  <2>2. v * base \in Nat \ {0}
    OBVIOUS
  <2> QED
    BY <2>1, <2>2
<1>2. Keeps(step, n, Nat \ {0})
  BY <1>1 DEF Keeps
<1>3. Pool!Power(base, n) = Pool!Loop(step, 1, n)
  BY DEF Pool!Power
<1> HIDE DEF step
<1> QED
  BY <1>2, <1>3, LoopTyped

LEMMA DilutedNat ==
    ASSUME NEW d \in Nat, NEW weights, NEW n, Positive(weights, n)
    PROVE  Pool!Diluted(d, weights) \in Nat
<1> DEFINE step == [k \in 1 .. n |-> [product \in Nat |-> (product * d) \div weights[k]]]
<1>1. ASSUME NEW k \in 1 .. n, NEW v \in Nat PROVE step[k][v] \in Nat
  <2>1. step[k][v] = (v * d) \div weights[k]
    OBVIOUS
  <2>2. v * d \in Nat /\ weights[k] \in Nat \ {0}
    BY MulNat DEF Positive, Listed
  <2> QED
    BY <2>1, <2>2, QuotientTimes
<1>2. Keeps(step, n, Nat)
  BY <1>1 DEF Keeps
<1>3. n \in Nat /\ Len(weights) = n
  BY DEF Positive, Listed
<1>4. Pool!Diluted(d, weights) = Pool!Loop(step, d, n)
  BY <1>3 DEF Pool!Diluted
<1> HIDE DEF step
<1> DEFINE V == Nat
<1>5. Keeps(step, n, V) /\ d \in V
  BY <1>2
<1> HIDE DEF V
<1>6. Pool!Loop(step, d, n) \in V
  BY <1>3, <1>5, LoopTyped
<1> QED
  BY <1>4, <1>6 DEF V

LEMMA StableConstants ==
    /\ Precision \in Nat \ {0} /\ FeeUnit \in Nat \ {0} /\ AmpUnit \in Nat \ {0}
    /\ Turns \in Nat
  BY DEF Pool!PoolTradesAssumption

\* An answer that is a natural number, when there is one.
Answers(result) == result.ok => result.value \in Nat

LEMMA NewtonTurn ==
    ASSUME NEW at \in Pool!Iterates, NEW dividend \in Nat, NEW divisor \in Int
    PROVE  Pool!Newton(at, dividend, divisor) \in Pool!Iterates
<1> DEFINE next == dividend \div divisor
<1>1. divisor > 0 => next \in Nat
  <2>1. divisor > 0 => divisor \in Nat \ {0}
    OBVIOUS
  <2> QED
    BY <2>1, QuotientTimes
<1> HIDE DEF next
<1>2. Pool!Newton(at, dividend, divisor)
        = IF at.status # "moving" THEN at
          ELSE IF divisor <= 0 THEN [value |-> at.value, status |-> "stuck"]
          ELSE [value |-> next,
                status |-> IF Pool!Near(next, at.value) THEN "settled" ELSE "moving"]
  BY DEF Pool!Newton, next
<1>3. at.value \in Nat
  BY DEF Pool!Iterates
<1> QED
  BY <1>1, <1>2, <1>3 DEF Pool!Iterates

LEMMA ConvergedNat ==
    ASSUME NEW turn, \A at \in Pool!Iterates : turn[at] \in Pool!Iterates, NEW start \in Nat
    PROVE  Answers(Pool!Converged(turn, start))
<1> DEFINE step == [k \in 1 .. Turns |-> turn]
           first == [value |-> start, status |-> "moving"]
           last == Pool!Loop(step, first, Turns)
<1>1. Keeps(step, Turns, Pool!Iterates)
  BY DEF Keeps
<1>2. first \in Pool!Iterates
  BY DEF Pool!Iterates
<1> HIDE DEF step, first
<1>3. last \in Pool!Iterates
  BY <1>1, <1>2, LoopTyped, StableConstants
<1> HIDE DEF last
<1>4. last.value \in Nat
  BY <1>3 DEF Pool!Iterates
<1>5. Pool!Converged(turn, start)
        = IF last.status = "settled" THEN [ok |-> TRUE, value |-> last.value]
                                     ELSE [ok |-> FALSE]
  BY DEF Pool!Converged, last, step, first
<1> QED
  BY <1>4, <1>5 DEF Answers

\* What a state holds that was loaded from the chain, and that any trade leaves.
Curve(p) ==
    /\ p \in Pool!CurvePools
    /\ p.kind \in {"ng", "3pool"}
    /\ p.amp \in Nat /\ p.fee \in Nat /\ p.offpeg \in Nat /\ p.admin \in Nat
    /\ p.fee <= FeeUnit
    /\ Listed(p.balances, Len(p.balances)) /\ Positive(p.rates, Len(p.balances))
    /\ p.kind = "3pool" => \A k \in 1 .. Len(p.balances) : p.rates[k] % Precision = 0

LEMMA UnitNat ==
    ASSUME NEW p
    PROVE  Pool!Unit(p) \in Nat \ {0}
  BY StableConstants DEF Pool!Unit

LEMMA ProductNat ==
    ASSUME NEW p, NEW xp, NEW n \in Nat \ {0}, Positive(xp, n), NEW d \in Nat
    PROVE  Pool!DProduct(p, xp, d) \in Nat
<1> DEFINE weights == [k \in 1 .. n |-> xp[k] * n]
<1>1. Len(xp) = n
  BY DEF Positive, Listed
<1>2. Pool!Diluted(d, xp) \in Nat /\ Pool!Power(n, n) \in Nat \ {0}
  BY DilutedNat, PowerNat
<1>3. \A k \in 1 .. n : xp[k] * n \in Nat /\ xp[k] * n # 0
  BY DEF Positive, Listed
<1>4. Positive(weights, n)
  BY <1>3, ListedIs DEF Positive
<1>5. Pool!Diluted(d, weights) \in Nat
  BY <1>4, DilutedNat
<1>6. Pool!Diluted(d, xp) \div Pool!Power(n, n) \in Nat
  BY <1>2, QuotientTimes
<1>7. Pool!DProduct(p, xp, d)
        = IF p.kind = "ng" THEN Pool!Diluted(d, xp) \div Pool!Power(n, n)
                           ELSE Pool!Diluted(d, weights)
  BY <1>1 DEF Pool!DProduct
<1> QED
  BY <1>5, <1>6, <1>7

\* get_D answers with a natural number, when no balance is zero and the amplification is not.
LEMMA InvariantNat ==
    ASSUME NEW p, p.amp \in Nat, NEW xp, NEW n \in Nat \ {0}, Listed(xp, n),
           Pool!GetD(p, xp).ok
    PROVE  /\ Answers(Pool!GetD(p, xp))
           /\ Positive(xp, n) /\ p.amp # 0
<1>0. DOMAIN xp = 1 .. n /\ Len(xp) = n
  BY DEF Listed
<1> DEFINE turn == [at \in Pool!Iterates |-> Pool!NextD(p, xp, at)]
           empty == \E k \in DOMAIN xp : xp[k] = 0
           small == IF p.kind = "ng" THEN p.amp * Len(xp) < AmpUnit ELSE p.amp * 3 <= 1
<1>1. ~empty /\ ~small /\ Pool!GetD(p, xp) = Pool!Converged(turn, Pool!SumOver(xp))
  BY DEF Pool!GetD
<1>2. Positive(xp, n)
  BY <1>0, <1>1 DEF Positive
<1>3. p.amp # 0
  <2>1. ASSUME p.amp = 0 PROVE small
    <3>1. p.amp * Len(xp) = 0 /\ p.amp * 3 = 0 /\ 0 < AmpUnit
      BY <1>0, <2>1, StableConstants
    <3> QED
      BY <3>1
  <2> QED
    BY <1>1, <2>1
<1>4. ASSUME NEW at \in Pool!Iterates PROVE turn[at] \in Pool!Iterates
  <2> DEFINE ann == p.amp * n
             d == at.value
             product == Pool!DProduct(p, xp, d)
             unit == Pool!Unit(p)
             total == Pool!SumOver(xp)
             quotient == (ann * total) \div unit
             part == ((ann - unit) * d) \div unit
  <2>1. d \in Nat /\ ann \in Nat
    BY MulNat DEF Pool!Iterates
  <2>2. product \in Nat /\ unit \in Nat \ {0} /\ total \in Nat
    BY <1>2, <2>1, ProductNat, UnitNat, SumNat
  <2>3. turn[at] = Pool!Newton(at, (quotient + product * n) * d, part + (n + 1) * product)
    BY <1>0 DEF Pool!NextD
  <2> HIDE DEF ann, d, product, unit, total, turn
  <2>4. quotient \in Nat
    BY <2>1, <2>2, MulNat, QuotientTimes
  <2>5. part \in Int
    <3>1. (ann - unit) * d \in Int
      BY <2>1, <2>2
    <3> QED
      BY <2>2, <3>1
  <2> HIDE DEF quotient, part
  <2>6. product * n \in Nat /\ (n + 1) * product \in Nat
    BY <2>2, MulNat
  <2>7. (quotient + product * n) * d \in Nat
    BY <2>1, <2>4, <2>6, MulNat
  <2>8. part + (n + 1) * product \in Int
    BY <2>5, <2>6
  <2> QED
    BY <2>3, <2>7, <2>8, NewtonTurn
<1> HIDE DEF turn
<1>5. Answers(Pool!Converged(turn, Pool!SumOver(xp)))
  BY <1>4, SumNat, ConvergedNat
<1> QED
  BY <1>1, <1>2, <1>3, <1>5

\* The coins but one, when the input has been added.
LEMMA OthersPositive ==
    ASSUME NEW xp, NEW n \in Nat \ {0}, Positive(xp, n), NEW i \in 1 .. n, NEW j \in 1 .. n,
           NEW x \in Nat \ {0}
    PROVE  Positive(Pool!Without([xp EXCEPT ![i] = x], j), n - 1)
<1> DEFINE moved == [xp EXCEPT ![i] = x]
           others == [k \in 1 .. n - 1 |-> moved[IF k < j THEN k ELSE k + 1]]
<1>1. \A k \in 1 .. n : moved[k] \in Nat \ {0}
  BY DEF Positive, Listed
<1>2. moved \in [1 .. n -> Nat]
  BY DEF Positive, Listed
<1>3. Len(moved) = n
  BY <1>2, ListedIs DEF Listed
<1> HIDE DEF moved
<1>4. \A k \in 1 .. n - 1 : others[k] \in Nat \ {0}
  BY <1>1
<1>5. n - 1 \in Nat /\ others \in [1 .. n - 1 -> Nat]
  BY <1>4
<1> HIDE DEF others
<1>6. Positive(others, n - 1)
  BY <1>4, <1>5, ListedIs DEF Positive
<1> QED
  BY <1>3, <1>6 DEF Pool!Without, others, moved

\* get_y answers with a natural number.
LEMMA BalanceNat ==
    ASSUME NEW p, p.amp \in Nat \ {0}, NEW xp, NEW n \in Nat \ {0}, Positive(xp, n),
           NEW i \in 1 .. n, NEW j \in 1 .. n, NEW x \in Nat \ {0}, NEW d \in Nat
    PROVE  Answers(Pool!GetY(p, i, j, x, xp, d))
<1> DEFINE ann == p.amp * n
           others == Pool!Without([xp EXCEPT ![i] = x], j)
           weights == [k \in 1 .. n - 1 |-> others[k] * n]
           before == Pool!Diluted(d, weights)
           c == (before * d * Pool!Unit(p)) \div (ann * n)
           b == Pool!SumOver(others) + (d * Pool!Unit(p)) \div ann - d
           turn == [at \in Pool!Iterates |->
                      Pool!Newton(at, at.value * at.value + c, 2 * at.value + b)]
<1>1. Positive(others, n - 1) /\ n - 1 \in Nat
  BY OthersPositive
<1>2. Positive(weights, n - 1)
  <2>1. \A k \in 1 .. n - 1 : others[k] * n \in Nat \ {0}
    <3>1. ASSUME NEW k \in 1 .. n - 1 PROVE others[k] * n \in Nat \ {0}
      <4>1. others[k] \in Nat \ {0}
        BY <1>1 DEF Positive, Listed
      <4> HIDE DEF others
      <4> QED
        BY <4>1
    <3> QED
      BY <3>1
  <2> HIDE DEF others
  <2>2. weights \in [1 .. n - 1 -> Nat] /\ \A k \in 1 .. n - 1 : weights[k] # 0
    BY <2>1
  <2> QED
    BY <1>1, <2>2, ListedIs DEF Positive
<1>3. before \in Nat /\ Pool!SumOver(others) \in Nat /\ Pool!Unit(p) \in Nat \ {0}
  BY <1>1, <1>2, DilutedNat, SumNat, UnitNat DEF Positive
<1>4. ann \in Nat \ {0} /\ ann * n \in Nat \ {0}
  <2>1. ann \in Nat \ {0}
    OBVIOUS
  <2> HIDE DEF ann
  <2> QED
    BY <2>1
<1>5. Len(xp) = n
  BY DEF Positive, Listed
<1>6. Pool!GetY(p, i, j, x, xp, d) = Pool!Converged(turn, d)
  BY <1>5 DEF Pool!GetY
<1> HIDE DEF others, weights, before, ann
<1>7. c \in Nat
  <2>1. before * d \in Nat
    BY <1>3, MulNat
  <2>2. before * d * Pool!Unit(p) \in Nat
    BY <1>3, <2>1, MulNat
  <2> QED
    BY <1>4, <2>2, QuotientTimes
<1>8. b \in Int
  <2>1. d * Pool!Unit(p) \in Nat
    BY <1>3, MulNat
  <2>2. (d * Pool!Unit(p)) \div ann \in Nat
    BY <1>4, <2>1, QuotientTimes
  <2> QED
    BY <1>3, <2>2
<1> HIDE DEF b, c
<1>9. ASSUME NEW at \in Pool!Iterates PROVE turn[at] \in Pool!Iterates
  <2>1. at.value \in Nat
    BY DEF Pool!Iterates
  <2>2. at.value * at.value + c \in Nat /\ 2 * at.value + b \in Int
    BY <1>7, <1>8, <2>1, MulNat
  <2> QED
    BY <2>2, NewtonTurn
<1> HIDE DEF turn
<1> QED
  BY <1>6, <1>9, ConvergedNat

\* The balances at their rates.
LEMMA ScaledListed ==
    ASSUME NEW p, Curve(p)
    PROVE  Listed(Pool!Scaled(p), Len(p.balances))
<1> DEFINE n == Len(p.balances)
<1>1. /\ n \in Nat /\ \A k \in 1 .. n : p.rates[k] \in Nat /\ p.balances[k] \in Nat
  BY DEF Curve, Positive, Listed
<1>2. \A k \in 1 .. n : (p.rates[k] * p.balances[k]) \div Precision \in Nat
  BY <1>1, MulNat, QuotientTimes, StableConstants
<1>3. Pool!Scaled(p) \in [1 .. n -> Nat]
  BY <1>2 DEF Pool!Scaled, Pool!Coins
<1> QED
  BY <1>1, <1>3, ListedIs

\* The quotient is the one number between whose multiples the dividend lies.
LEMMA QuotientIs ==
    ASSUME NEW a \in Nat, NEW d \in Nat \ {0}, NEW q \in Nat, q * d <= a, a < (q + 1) * d
    PROVE  a \div d = q
<1> DEFINE r == a \div d
<1>1. r \in Nat /\ r * d <= a /\ a < (r + 1) * d
  OBVIOUS
<1> HIDE DEF r
<1>2. ASSUME r < q PROVE FALSE
  <2>1. (r + 1) * d <= q * d
    BY <1>1, <1>2, MulMonotone
  <2>2. (r + 1) * d \in Int /\ q * d \in Int
    BY <1>1
  <2> QED
    BY <1>1, <2>1, <2>2
<1>3. ASSUME q < r PROVE FALSE
  <2>1. (q + 1) * d <= r * d
    BY <1>1, <1>3, MulMonotone
  <2>2. (q + 1) * d \in Int /\ r * d \in Int
    BY <1>1
  <2> QED
    BY <1>1, <2>1, <2>2
<1> QED
  BY <1>1, <1>2, <1>3 DEF r

LEMMA QuotientBounds ==
    ASSUME NEW a \in Nat, NEW d \in Nat \ {0}
    PROVE  /\ a \div d \in Nat /\ (a \div d) * d \in Nat
           /\ (a \div d) * d <= a /\ a < (a \div d) * d + d
<1> DEFINE r == a \div d
<1>1. r \in Nat /\ r * d <= a /\ a < (r + 1) * d /\ (r + 1) * d = r * d + d /\ r * d \in Nat
  OBVIOUS
<1> QED
  BY <1>1

\* A rate that is m times the precision divides by m.
LEMMA RateDivides ==
    ASSUME NEW a \in Nat, NEW m \in Nat \ {0}, NEW u \in Nat \ {0}
    PROVE  (a * u) \div (m * u) = a \div m
<1> DEFINE q == a \div m
           d == m * u
<1>1. q \in Nat /\ q * m \in Nat /\ q * m <= a /\ a + 1 <= (q + 1) * m
  OBVIOUS
<1>2. a * u \in Nat /\ d \in Nat \ {0}
  OBVIOUS
<1> HIDE DEF q
<1>3. (q * m) * u <= a * u /\ (a + 1) * u <= ((q + 1) * m) * u
  <2>1. (q + 1) * m \in Nat
    BY <1>1
  <2> QED
    BY <1>1, <2>1, MulMonotone
<1>4. (q * m) * u = q * d /\ ((q + 1) * m) * u = (q + 1) * d /\ (a + 1) * u = a * u + u
  BY <1>1
<1> HIDE DEF d
<1>5. q * d \in Int /\ (q + 1) * d \in Int
  BY <1>1, <1>2
<1>6. q * d <= a * u /\ a * u < (q + 1) * d
  BY <1>2, <1>3, <1>4, <1>5
<1>7. (a * u) \div d = q
  BY <1>1, <1>2, <1>6, QuotientIs
<1> QED
  BY <1>7 DEF q, d

\* The 3pool's quote takes the fee after the scale is undone, its swap before: the quote is
\* what the swap pays or one unit more.
LEMMA FeeAfterScale ==
    ASSUME NEW a \in Nat, NEW m \in Nat \ {0}, NEW f \in Nat, f <= FeeUnit
    PROVE  LET u == (a * f) \div FeeUnit
               g == a \div m
               v == (f * g) \div FeeUnit
               out == (a - u) \div m IN
           u \in Nat /\ u <= a /\ (g - v) - out \in {0, 1}
<1> DEFINE u == (a * f) \div FeeUnit
           g == a \div m
           v == (f * g) \div FeeUnit
           out == (a - u) \div m
<1>0. FeeUnit \in Nat \ {0}
  BY StableConstants
<1>1. a * f \in Nat /\ f * g \in Nat /\ g \in Nat /\ g * m \in Nat /\ g * m <= a /\ a < g * m + m
  <2>1. g \in Nat /\ g * m \in Nat /\ g * m <= a /\ a < g * m + m
    BY QuotientBounds
  <2> HIDE DEF g
  <2> QED
    BY <2>1, MulNat
<1>2. /\ u \in Nat /\ u * FeeUnit \in Nat /\ u * FeeUnit <= a * f /\ a * f < u * FeeUnit + FeeUnit
      /\ v \in Nat /\ v * FeeUnit \in Nat /\ v * FeeUnit <= f * g /\ f * g < v * FeeUnit + FeeUnit
  BY <1>0, <1>1, QuotientBounds
<1> HIDE DEF u, g, v
<1>3. u <= a
  <2>1. f * a <= FeeUnit * a
    BY <1>0, MulMonotone
  <2>2. (a * FeeUnit) \div FeeUnit = a
    BY <1>0
  <2>3. a * f <= a * FeeUnit /\ a * FeeUnit \in Nat
    BY <1>0, <2>1
  <2> QED
    BY <1>0, <1>1, <2>2, <2>3, DivMonotone DEF u
\* What is left over of a at the scale of the output.
<1> DEFINE s == a - g * m
<1>4. s \in Nat /\ s < m /\ a = g * m + s
  BY <1>1
<1> HIDE DEF s
\* The fee before the scale is undone is at least m times the fee after it,
<1>5. m * v <= u
  <2>1. m * v \in Nat
    BY <1>2, MulNat
  <2>2. m * (v * FeeUnit) <= m * (f * g)
    <3>1. (v * FeeUnit) * m <= (f * g) * m
      BY <1>1, <1>2, MulMonotone
    <3> QED
      BY <1>1, <1>2, <3>1
  <2>3. m * (f * g) <= a * f
    <3>1. (g * m) * f <= a * f
      BY <1>1, MulMonotone
    <3>2. (g * m) * f = m * (f * g)
      BY <1>1
    <3> QED
      BY <3>1, <3>2
  <2>4. m * (v * FeeUnit) = (m * v) * FeeUnit
    BY <1>0, <1>2
  <2>5. (m * v) * FeeUnit <= a * f
    <3>1. m * (v * FeeUnit) \in Int /\ m * (f * g) \in Int
      BY <1>1, <1>2
    <3> QED
      BY <1>1, <2>2, <2>3, <2>4, <3>1
  <2>6. ((m * v) * FeeUnit) \div FeeUnit = m * v /\ (m * v) * FeeUnit \in Nat
    BY <1>0, <2>1
  <2>7. ((m * v) * FeeUnit) \div FeeUnit <= (a * f) \div FeeUnit
    BY <1>0, <1>1, <2>5, <2>6, DivMonotone
  <2> QED
    BY <2>6, <2>7 DEF u
\* and no more than that and what one unit of the output is worth.
<1>6. u <= m * (v + 1) + s
  <2>1. f * g <= (v + 1) * FeeUnit
    <3>1. (v + 1) * FeeUnit = v * FeeUnit + FeeUnit
      BY <1>0, <1>2
    <3> QED
      BY <1>0, <1>1, <1>2, <3>1
  <2>2. (f * g) * m <= ((v + 1) * FeeUnit) * m
    <3>1. (v + 1) * FeeUnit \in Nat
      BY <1>0, <1>2, MulNat
    <3> QED
      BY <1>1, <2>1, <3>1, MulMonotone
  <2>3. f * s <= FeeUnit * s
    BY <1>0, <1>4, MulMonotone
  <2>4. a * f = (f * g) * m + f * s
    BY <1>1, <1>4
  <2> DEFINE w == m * (v + 1) + s
  <2>5. w \in Nat
    BY <1>2, <1>4, MulNat
  <2>6. w * FeeUnit = ((v + 1) * FeeUnit) * m + FeeUnit * s
    BY <1>0, <1>2, <1>4
  <2>7. a * f <= w * FeeUnit
    <3>1. /\ (f * g) * m \in Int /\ ((v + 1) * FeeUnit) * m \in Int
          /\ f * s \in Int /\ FeeUnit * s \in Int
      BY <1>0, <1>1, <1>2, <1>4
    <3> HIDE DEF w
    <3> QED
      BY <2>2, <2>3, <2>4, <2>6, <3>1
  <2> HIDE DEF w
  <2>8. w * FeeUnit \in Nat /\ (w * FeeUnit) \div FeeUnit = w
    BY <1>0, <2>5
  <2>9. (a * f) \div FeeUnit <= (w * FeeUnit) \div FeeUnit
    BY <1>0, <1>1, <2>7, <2>8, DivMonotone
  <2> QED
    BY <2>8, <2>9 DEF u, w
<1>7. m * v \in Nat /\ m * (v + 1) = m * v + m /\ m * (v + 1) \in Nat
  BY <1>2
<1>8. a - u \in Nat
  BY <1>2, <1>3
<1>9. out \in Nat /\ out * m \in Nat /\ out * m <= a - u /\ a - u < out * m + m
  BY <1>8, QuotientBounds
<1> HIDE DEF out
\* So the payment is one of the two.
<1>10. out <= g - v
  <2>1. out * m <= g * m + s - m * v
    BY <1>4, <1>5, <1>7, <1>9, <1>1, <1>2
  <2>2. ASSUME g - v < out PROVE FALSE
    <3>1. g - v + 1 <= out
      BY <1>1, <1>2, <1>9, <2>2
    <3>2. (g + 1) * m <= (out + v) * m
      BY <1>1, <1>2, <1>9, <3>1, MulMonotone
    <3>3. (g + 1) * m = g * m + m /\ (out + v) * m = out * m + m * v
      BY <1>1, <1>2, <1>9
    <3> QED
      BY <1>1, <1>4, <1>7, <1>9, <2>1, <3>2, <3>3
  <2> QED
    BY <2>2, <1>1, <1>2, <1>9
<1>11. g - v <= out + 1
  <2>1. g * m + s < out * m + m + m * v + m + s
    BY <1>1, <1>2, <1>4, <1>6, <1>7, <1>9
  <2>2. ASSUME out + 1 < g - v PROVE FALSE
    <3>1. out + v + 2 <= g
      BY <1>1, <1>2, <1>9, <2>2
    <3>2. (out + v + 2) * m <= g * m
      BY <1>1, <1>2, <1>9, <3>1, MulMonotone
    <3>3. (out + v + 2) * m = out * m + m * v + m + m
      BY <1>2, <1>9
    <3> QED
      BY <1>1, <1>4, <1>7, <1>9, <2>1, <3>2, <3>3
  <2> QED
    BY <2>2, <1>1, <1>2, <1>9
<1>12. (g - v) - out \in {0, 1}
  BY <1>1, <1>2, <1>9, <1>10, <1>11
<1> QED
  BY <1>2, <1>3, <1>12 DEF u, g, v, out

\* A swap priced before its fee: both numbers, and the 3pool's fee the plain one.
Charged(p, e) ==
    e.ok => /\ e.raw \in Nat /\ e.fee \in Nat
            /\ p.kind = "3pool" => e.fee = (e.raw * p.fee) \div FeeUnit

LEMMA DynamicFeeNat ==
    ASSUME NEW p, Curve(p), NEW xi \in Nat \ {0}, NEW xj \in Nat
    PROVE  Pool!DynamicFee(p, xi, xj) \in Nat
<1> DEFINE over == (p.offpeg - FeeUnit) * 4 * xi * xj
           sum == (xi + xj) * (xi + xj)
<1>1. /\ p.offpeg \in Nat /\ p.fee \in Nat /\ FeeUnit \in Nat \ {0}
  BY StableConstants DEF Curve
<1>2. sum \in Nat \ {0}
  <2>1. xi + xj \in Nat \ {0}
    OBVIOUS
  <2> QED
    BY <2>1
<1>3. ASSUME p.offpeg > FeeUnit PROVE (p.offpeg * p.fee) \div (over \div sum + FeeUnit) \in Nat
  <2>1. p.offpeg - FeeUnit \in Nat
    BY <1>1, <1>3
  <2>2. (p.offpeg - FeeUnit) * 4 * xi \in Nat
    BY <2>1, MulNat
  <2>3. over \in Nat
    BY <2>2, MulNat
  <2> HIDE DEF over, sum
  <2>4. over \div sum \in Nat /\ p.offpeg * p.fee \in Nat
    BY <1>1, <1>2, <2>3, QuotientTimes, MulNat
  <2>5. over \div sum + FeeUnit \in Nat \ {0}
    BY <1>1, <2>4
  <2> QED
    BY <2>4, <2>5, QuotientTimes
<1> QED
  BY <1>1, <1>3 DEF Pool!DynamicFee

LEMMA PricedCharged ==
    ASSUME NEW p, Curve(p), NEW xp, NEW n, Positive(xp, n), NEW i \in 1 .. n, NEW j \in 1 .. n,
           NEW x \in Nat, x >= xp[i], NEW y, Answers(y)
    PROVE  Charged(p, Pool!Priced(p, i, j, xp, x, y))
<1> DEFINE raw == xp[j] - y.value - 1
           xi == (xp[i] + x) \div 2
           xj == (xp[j] + y.value) \div 2
           rate == IF p.kind = "ng" THEN Pool!DynamicFee(p, xi, xj) ELSE p.fee
           fee == (raw * rate) \div FeeUnit
<1>1. xp[i] \in Nat \ {0} /\ xp[j] \in Nat /\ p.fee \in Nat /\ FeeUnit \in Nat \ {0}
  BY StableConstants DEF Positive, Listed, Curve
<1>2. Pool!Priced(p, i, j, xp, x, y)
        = IF y.ok /\ raw >= 0 THEN [ok |-> TRUE, raw |-> raw, fee |-> fee]
                              ELSE [ok |-> FALSE]
  BY DEF Pool!Priced
<1>3. ASSUME y.ok, raw >= 0 PROVE Charged(p, [ok |-> TRUE, raw |-> raw, fee |-> fee])
  <2>1. y.value \in Nat
    BY <1>3 DEF Answers
  <2>2. raw \in Nat
    BY <1>1, <1>3, <2>1
  <2>3. xj \in Nat
    BY <1>1, <2>1
  <2>4. rate \in Nat
    <3>1. xi \in Nat \ {0}
      <4>1. xp[i] + x \in Nat /\ xp[i] + x >= 2
        BY <1>1
      <4> QED
        BY <4>1
    <3> QED
      BY <1>1, <2>3, <3>1, DynamicFeeNat
  <2>5. p.kind = "3pool" => rate = p.fee
    OBVIOUS
  <2> HIDE DEF raw, rate
  <2>6. fee \in Nat
    BY <1>1, <2>2, <2>4, MulNat, QuotientTimes
  <2> QED
    BY <2>2, <2>5, <2>6 DEF Charged
<1> HIDE DEF raw, fee
<1>4. CASE y.ok /\ raw >= 0
  BY <1>2, <1>3, <1>4
<1>5. CASE ~(y.ok /\ raw >= 0)
  BY <1>2, <1>5 DEF Charged
<1> QED
  BY <1>4, <1>5

LEMMA ExchangeCharged ==
    ASSUME NEW p, Curve(p), NEW i \in 1 .. Len(p.balances), NEW j \in 1 .. Len(p.balances),
           NEW amount \in Nat
    PROVE  Charged(p, Pool!Exchange(p, i, j, amount))
<1> DEFINE n == Len(p.balances)
           xp == Pool!Scaled(p)
           d == Pool!GetD(p, xp)
           plus == (amount * p.rates[i]) \div Precision
           x == xp[i] + plus
           y == Pool!GetY(p, i, j, x, xp, d.value)
<1>1. n \in Nat \ {0} /\ Listed(xp, n) /\ p.amp \in Nat
  <2>1. n \in Nat
    BY DEF Curve, Listed
  <2> QED
    BY <2>1, ScaledListed DEF Curve
<1>2. plus \in Nat
  <2>1. p.rates[i] \in Nat
    BY DEF Curve, Positive, Listed
  <2> QED
    BY <2>1, MulNat, QuotientTimes, StableConstants
<1>3. Pool!Exchange(p, i, j, amount) = Pool!ExchangeAt(p, i, j, xp, d, x)
  BY DEF Pool!Exchange
<1>4. CASE d.ok
  <2> HIDE DEF xp, d, plus
  <2>1. Answers(Pool!GetD(p, xp)) /\ Positive(xp, n) /\ p.amp \in Nat \ {0}
    BY <1>1, <1>4, InvariantNat DEF d
  <2>2. d.value \in Nat
    BY <1>4, <2>1 DEF Answers, d
  <2>3. xp[i] \in Nat \ {0}
    BY <2>1 DEF Positive, Listed
  <2>4. x \in Nat \ {0} /\ x >= xp[i]
    BY <1>2, <2>3
  <2> HIDE DEF x, n
  <2>5. i \in 1 .. n /\ j \in 1 .. n
    BY DEF n
  <2>6. Answers(y)
    BY <1>1, <2>1, <2>2, <2>4, <2>5, BalanceNat
  <2> HIDE DEF y
  <2>7. Charged(p, Pool!Priced(p, i, j, xp, x, y))
    BY <2>1, <2>4, <2>5, <2>6, PricedCharged
  <2> QED
    BY <1>3, <1>4, <2>7 DEF Pool!ExchangeAt, y
<1>5. CASE ~d.ok
  <2> HIDE DEF xp, d, x
  <2>1. Pool!ExchangeAt(p, i, j, xp, d, x) = [ok |-> FALSE]
    BY <1>5 DEF Pool!ExchangeAt
  <2> QED
    BY <1>3, <2>1 DEF Charged
<1> QED
  BY <1>4, <1>5

LEMMA UnscaledNat ==
    ASSUME NEW p, Curve(p), NEW j \in 1 .. Len(p.balances), NEW amount \in Nat
    PROVE  Pool!Unscaled(p, j, amount) \in Nat
<1>1. p.rates[j] \in Nat \ {0} /\ amount * Precision \in Nat
  BY StableConstants, MulNat DEF Curve, Positive, Listed
<1> QED
  BY <1>1, QuotientTimes DEF Pool!Unscaled

\* Other balances, as many, are those of a state as well.
LEMMA CurveStays ==
    ASSUME NEW p, Curve(p), NEW balances, Listed(balances, Len(p.balances))
    PROVE  Curve([p EXCEPT !.balances = balances])
<1> DEFINE q == [p EXCEPT !.balances = balances]
           n == Len(p.balances)
<1>1. balances \in Seq(Nat) /\ Len(balances) = n
  BY SeqListed
<1>2. /\ q \in Pool!CurvePools /\ q.balances = balances
      /\ q.kind = p.kind /\ q.amp = p.amp /\ q.fee = p.fee /\ q.offpeg = p.offpeg
      /\ q.admin = p.admin /\ q.rates = p.rates
  BY <1>1 DEF Curve, Pool!CurvePools
<1> HIDE DEF q
<1>3. Len(q.balances) = n
  BY <1>1, <1>2
<1>4. Listed(q.balances, Len(q.balances)) /\ Positive(q.rates, Len(q.balances))
  BY <1>2, <1>3 DEF Curve
<1>5. q.kind = "3pool" => \A k \in 1 .. Len(q.balances) : q.rates[k] % Precision = 0
  <2>1. p.kind = "3pool" => \A k \in 1 .. n : p.rates[k] % Precision = 0
    BY DEF Curve
  <2> HIDE DEF n
  <2> QED
    BY <1>2, <1>3, <2>1
<1>6. /\ p.kind \in {"ng", "3pool"}
      /\ p.amp \in Nat /\ p.fee \in Nat /\ p.offpeg \in Nat /\ p.admin \in Nat
      /\ p.fee <= FeeUnit
  BY DEF Curve
<1>7. Curve(q)
  BY <1>2, <1>4, <1>5, <1>6 DEF Curve
<1> QED
  BY <1>7 DEF q

\* What a swap pays, and what it leaves.
LEMMA SwapSettles ==
    ASSUME NEW p, Curve(p), NEW i \in 1 .. Len(p.balances), NEW j \in 1 .. Len(p.balances),
           i # j, NEW amount \in Nat, Pool!StableSwap(p, i, j, amount).ok
    PROVE  /\ Pool!StableSwap(p, i, j, amount).out \in Nat
           /\ Curve(Pool!StableSwap(p, i, j, amount).next)
           /\ amount # 0 =>
                LET e == Pool!Exchange(p, i, j, amount) IN
                /\ e.ok /\ e.fee <= e.raw
                /\ Pool!StableSwap(p, i, j, amount).out = Pool!Unscaled(p, j, e.raw - e.fee)
<1>1. CASE amount = 0
  <2>1. Pool!StableSwap(p, i, j, amount) = [ok |-> TRUE, out |-> 0, next |-> p]
    BY <1>1 DEF Pool!StableSwap
  <2> QED
    BY <1>1, <2>1
<1>2. CASE amount # 0
  <2> DEFINE e == Pool!Exchange(p, i, j, amount)
             out == Pool!Unscaled(p, j, e.raw - e.fee)
             admin == Pool!AdminShare(p, j, e.fee)
             next == [p EXCEPT !.balances[i] = @ + amount, !.balances[j] = @ - out - admin]
             balances == [[p.balances EXCEPT ![i] = @ + amount] EXCEPT ![j] = @ - out - admin]
             swap == Pool!StableSwap(p, i, j, amount)
             refused == e.fee > e.raw \/ out = 0 \/ p.balances[j] < out + admin
  <2>1. Charged(p, e)
    BY ExchangeCharged
  <2>2. swap = IF ~e.ok THEN [ok |-> FALSE]
               ELSE IF refused THEN [ok |-> FALSE]
               ELSE [ok |-> TRUE, out |-> out, next |-> next]
    BY <1>2 DEF Pool!StableSwap, Pool!Settled
  <2>3. next = [p EXCEPT !.balances = balances]
    OBVIOUS
  <2> HIDE DEF e, out, admin, next, swap, balances
  <2>4. e.ok /\ ~refused /\ swap = [ok |-> TRUE, out |-> out, next |-> next]
    BY <2>2 DEF swap
  <2>5. e.raw \in Nat /\ e.fee \in Nat /\ e.fee <= e.raw
    BY <2>1, <2>4 DEF Charged
  <2>6. out \in Nat
    <3>1. e.raw - e.fee \in Nat
      BY <2>5
    <3> QED
      BY <3>1, UnscaledNat DEF out
  <2>7. admin \in Nat
    <3>1. p.admin \in Nat
      BY DEF Curve
    <3>2. (e.fee * p.admin) \div FeeUnit \in Nat
      BY <2>5, <3>1, MulNat, QuotientTimes, StableConstants
    <3> QED
      BY <3>2, UnscaledNat DEF admin, Pool!AdminShare
  <2>8. Listed(balances, Len(p.balances))
    <3> DEFINE n == Len(p.balances)
    <3>1. n \in Nat /\ p.balances \in [1 .. n -> Nat]
      BY DEF Curve, Listed
    <3>2. out + admin <= p.balances[j] /\ p.balances[j] \in Nat
      BY <2>4, <2>6, <2>7, <3>1
    <3>3. balances \in [1 .. n -> Nat]
      <4>1. p.balances[j] - out - admin \in Nat /\ p.balances[i] + amount \in Nat
        BY <2>6, <2>7, <3>1, <3>2
      <4> HIDE DEF n
      <4> QED
        BY <3>1, <4>1 DEF balances
    <3> QED
      BY <3>1, <3>3, ListedIs
  <2>9. Curve(next)
    BY <2>3, <2>8, CurveStays DEF next
  <2> QED
    BY <1>2, <2>4, <2>5, <2>6, <2>9 DEF e, swap, out
<1> QED
  BY <1>1, <1>2

LEMMA WholeQuotient ==
    ASSUME NEW a \in Nat, NEW d \in Nat \ {0}, a % d = 0
    PROVE  a \div d \in Nat /\ a = (a \div d) * d
  OBVIOUS

\* A stable pool quotes what its swap pays, the 3pool perhaps one unit more.
LEMMA SwapQuoted ==
    ASSUME NEW p, Curve(p), NEW i \in 1 .. Len(p.balances), NEW j \in 1 .. Len(p.balances),
           i # j, NEW amount \in Nat, Pool!StableSwap(p, i, j, amount).ok
    PROVE  /\ Pool!StableQuote(p, i, j, amount).ok
           /\ Pool!StableQuote(p, i, j, amount).out - Pool!StableSwap(p, i, j, amount).out
                \in IF p.kind = "ng" THEN {0} ELSE {0, 1}
<1> DEFINE swap == Pool!StableSwap(p, i, j, amount)
           quote == Pool!StableQuote(p, i, j, amount)
<1>1. swap.out \in Nat
  BY SwapSettles
<1>2. CASE p.kind = "ng"
  <2>1. quote = swap
    BY <1>2 DEF Pool!StableQuote
  <2> HIDE DEF quote, swap
  <2> QED
    BY <1>1, <1>2, <2>1 DEF swap, quote
<1>3. CASE p.kind = "3pool" /\ amount = 0
  <2>1. quote = [ok |-> TRUE, out |-> 0]
    BY <1>3 DEF Pool!StableQuote
  <2>2. swap = [ok |-> TRUE, out |-> 0, next |-> p]
    BY <1>3 DEF Pool!StableSwap
  <2> QED
    BY <1>3, <2>1, <2>2
<1>4. CASE p.kind = "3pool" /\ amount # 0
  <2> DEFINE e == Pool!Exchange(p, i, j, amount)
             gross == Pool!Unscaled(p, j, e.raw)
             u == (e.raw * p.fee) \div FeeUnit
             v == (p.fee * gross) \div FeeUnit
  <2>1. e.ok /\ Charged(p, e) /\ swap.out = Pool!Unscaled(p, j, e.raw - e.fee)
    BY <1>4, SwapSettles, ExchangeCharged
  <2>2. quote = [ok |-> TRUE, out |-> gross - v]
    BY <1>4, <2>1 DEF Pool!StableQuote, Pool!LegacyQuote, Pool!LegacyFee
  <2> HIDE DEF e, swap, quote
  <2>3. e.raw \in Nat /\ e.fee = u /\ p.fee \in Nat /\ p.fee <= FeeUnit
    BY <1>4, <2>1 DEF Charged, Curve
  <2>4. PICK m \in Nat \ {0} : p.rates[j] = m * Precision
    <3>1. p.rates[j] \in Nat \ {0} /\ p.rates[j] % Precision = 0 /\ Precision \in Nat \ {0}
      BY <1>4, StableConstants DEF Curve, Positive, Listed
    <3> DEFINE m == p.rates[j] \div Precision
    <3>2. m \in Nat /\ p.rates[j] = m * Precision
      BY <3>1, WholeQuotient
    <3> HIDE DEF m
    <3>3. m # 0
      BY <3>1, <3>2
    <3> QED
      BY <3>2, <3>3
  <2>5. ASSUME NEW a \in Nat PROVE Pool!Unscaled(p, j, a) = a \div m
    <3>1. (a * Precision) \div (m * Precision) = a \div m
      BY RateDivides, StableConstants
    <3> QED
      BY <2>4, <3>1 DEF Pool!Unscaled
  <2>6. u \in Nat /\ u <= e.raw
    BY <2>3, <2>4, FeeAfterScale
  <2>7. gross = e.raw \div m /\ swap.out = (e.raw - u) \div m
    <3>1. e.raw - u \in Nat
      BY <2>3, <2>6
    <3> HIDE DEF u
    <3>2. Pool!Unscaled(p, j, e.raw - u) = (e.raw - u) \div m
      BY <2>5, <3>1
    <3>3. gross = e.raw \div m
      BY <2>3, <2>5
    <3> QED
      BY <2>1, <2>3, <3>2, <3>3
  <2>8. ((e.raw \div m) - (p.fee * (e.raw \div m)) \div FeeUnit) - (e.raw - u) \div m
           \in {0, 1}
    BY <2>3, <2>4, FeeAfterScale
  <2>9. v = (p.fee * (e.raw \div m)) \div FeeUnit
    BY <2>7
  <2>10. (gross - v) - swap.out \in {0, 1}
    BY <2>7, <2>8, <2>9
  <2> HIDE DEF gross, v
  <2> QED
    BY <1>4, <2>2, <2>10 DEF swap, quote
<1>5. p.kind \in {"ng", "3pool"}
  BY DEF Curve
<1> QED
  BY <1>2, <1>3, <1>4, <1>5

\* A stable pool is loaded with rates that divide, and keeps them.
StableInv ==
    /\ source \in Sources
    /\ phase = "loaded" /\ source.family = "stable" => Curve(pool)

LEMMA StableSource ==
    ASSUME source \in Sources, source.family = "stable", Pool!ValuesLoad(source)
    PROVE  Curve(source)
<1>1. source \in Pool!CurvePools /\ Pool!CurveRates(source)
  BY DEF Pool!PoolTradesAssumption
<1>2. Pool!StableLoads(source)
  BY DEF Pool!ValuesLoad
<1>3. /\ source.kind \in {"ng", "3pool"}
      /\ source.amp \in Nat /\ source.fee \in Nat /\ source.offpeg \in Nat
      /\ source.admin \in Nat /\ source.balances \in Seq(Nat) /\ source.rates \in Seq(Nat)
  BY <1>1 DEF Pool!CurvePools
<1> DEFINE n == Len(source.balances)
<1>4. Listed(source.balances, n) /\ Listed(source.rates, n)
  BY <1>1, <1>3, ListedSeq DEF Pool!CurveRates
<1>5. DOMAIN source.rates = 1 .. n /\ Pool!Coins(source) = 1 .. n
  BY <1>4 DEF Listed, Pool!Coins
<1>6. \A k \in 1 .. n : source.rates[k] # 0
  BY <1>1, <1>2, <1>3, <1>5 DEF Pool!CurveRates, Pool!StableLoads
<1>7. source.fee <= FeeUnit
  BY <1>2 DEF Pool!StableLoads, Pool!LegacyLoads
<1>8. source.kind = "3pool" => \A k \in 1 .. n : source.rates[k] % Precision = 0
  BY <1>1, <1>5 DEF Pool!CurveRates
<1> QED
  BY <1>1, <1>3, <1>4, <1>6, <1>7, <1>8 DEF Curve, Positive

LEMMA StableTrades ==
    ASSUME StableInv, NEW pair \in Pool!PairsOf(pool), NEW amount \in Amounts[source.family],
           Pool!Trade(pair[1], pair[2], amount)
    PROVE  StableInv'
<1>1. source' = source /\ source \in Sources /\ phase = "loaded" /\ amount \in Nat
  BY SourceFacts DEF StableInv, Pool!Trade
<1>2. ASSUME source.family = "stable" PROVE Curve(pool')
  <2> DEFINE outcome == Pool!StableSwap(pool, pair[1], pair[2], amount)
  <2>1. Curve(pool) /\ pool.family = "stable"
    BY <1>1, <1>2 DEF StableInv, Curve, Pool!CurvePools
  <2>2. Pool!SwapPool(pool, pair[1], pair[2], amount) = outcome
    BY <2>1 DEF Pool!SwapPool
  <2>3. outcome.ok /\ pool' = outcome.next
    BY <2>2 DEF Pool!Trade
  <2>4. /\ pair[1] \in 1 .. Len(pool.balances) /\ pair[2] \in 1 .. Len(pool.balances)
        /\ pair[1] # pair[2]
    BY <2>1 DEF Pool!PairsOf
  <2> QED
    BY <1>1, <2>1, <2>3, <2>4, SwapSettles
<1> QED
  BY <1>1, <1>2 DEF StableInv

LEMMA StableQuotes ==
    ASSUME StableInv
    PROVE  Pool!QuotesHold
<1> SUFFICES ASSUME phase = "loaded", source.family = "stable",
                    NEW pair \in Pool!PairsOf(pool), NEW amount \in Amounts["stable"],
                    Pool!StableSwap(pool, pair[1], pair[2], amount).ok
             PROVE  /\ Pool!StableQuote(pool, pair[1], pair[2], amount).ok
                    /\ Pool!StableQuote(pool, pair[1], pair[2], amount).out
                         - Pool!StableSwap(pool, pair[1], pair[2], amount).out
                         \in IF pool.kind = "ng" THEN {0} ELSE {0, 1}
  BY DEF Pool!QuotesHold, Pool!IsStable
<1>1. Curve(pool) /\ pool.family = "stable" /\ amount \in Nat
  BY SourceFacts DEF StableInv, Curve, Pool!CurvePools
<1>2. /\ pair[1] \in 1 .. Len(pool.balances) /\ pair[2] \in 1 .. Len(pool.balances)
      /\ pair[1] # pair[2]
  BY <1>1 DEF Pool!PairsOf
<1> QED
  BY <1>1, <1>2, SwapQuoted

LEMMA StableStays ==
    ASSUME StableInv, [PoolsNext]_<<vars, poolVars, trading>>
    PROVE  StableInv'
<1>1. ASSUME UNCHANGED poolVars PROVE StableInv'
  BY <1>1 DEF StableInv, poolVars
<1>2. ASSUME Pool!Read \/ Pool!Prefetch \/ Pool!Serve \/ Pool!FollowUp PROVE StableInv'
  <2>1. source' = source /\ phase' # "loaded"
    BY <1>2 DEF Pool!Read, Pool!Prefetch, Pool!Serve, Pool!FollowUp, Pool!Ask
  <2> QED
    BY <2>1 DEF StableInv
<1>3. ASSUME Pool!Load PROVE StableInv'
  <2>1. source' = source /\ source \in Sources
    BY <1>3 DEF StableInv, Pool!Load
  <2>2. ASSUME phase' = "loaded", source.family = "stable" PROVE Curve(pool')
    BY <1>3, <2>1, <2>2, FixedLoaded, StableSource DEF Pool!Named
  <2> QED
    BY <2>1, <2>2 DEF StableInv
<1> QED
  BY <1>1, <1>2, <1>3, PoolSteps, StableTrades DEF Pool!Next
-----------------------------------------------------------------------------
(* The endpoints of the LitePSM's trades (litepsm_support.py).             *)

LEMMA MaxIs ==
    ASSUME NEW S \in SUBSET Int, NEW m \in S, \A x \in S : x <= m
    PROVE  Max(S) = m
<1>1. Max(S) = CHOOSE x \in S : \A y \in S : x >= y
  BY DEF Max
<1>2. \A x \in S : (\A y \in S : x >= y) <=> x = m
  OBVIOUS
<1> QED
  BY <1>1, <1>2

\* One turn of the search between two bounds, and where it ends when what is accepted is
\* what is no more than L.
SpanBody(accepted, g, s) ==
    LET middle == (s[1] + s[2]) \div 2 IN
    IF s[1] + 1 >= s[2] THEN s[1]
    ELSE IF middle \in accepted THEN g[<<middle, s[2]>>]
                                ELSE g[<<s[1], middle>>]

SearchOf(accepted, low0, high0) ==
    CHOOSE g : g = [s \in (low0 .. high0) \X (low0 .. high0) |-> SpanBody(accepted, g, s)]

Clamp(L, a, b) ==
    IF a + 1 >= b THEN a
    ELSE IF L < a THEN a
    ELSE IF L >= b THEN b - 1 ELSE L

Prefix(accepted, most, L) ==
    /\ most \in Nat /\ L \in 0 .. most
    /\ \A g \in 1 .. most : g \in accepted <=> g <= L

LEMMA SearchShown ==
    ASSUME NEW accepted, NEW low0, NEW high0
    PROVE  LastAccepted(accepted, low0, high0) = SearchOf(accepted, low0, high0)[<<low0, high0>>]
  BY DEF LastAccepted, SearchOf, SpanBody

\* Half of a span is decided by its middle.
LEMMA ClampHalves ==
    ASSUME NEW accepted, NEW most, NEW L, Prefix(accepted, most, L),
           NEW a \in 0 .. most + 1, NEW b \in 0 .. most + 1, a + 1 < b
    PROVE  LET m == (a + b) \div 2 IN
           /\ m \in 0 .. most + 1 /\ m - a < b - a /\ b - m < b - a
           /\ Clamp(L, a, b) = IF m \in accepted THEN Clamp(L, m, b) ELSE Clamp(L, a, m)
<1> DEFINE m == (a + b) \div 2
<1>1. most \in Nat /\ L \in 0 .. most /\ m \in 1 .. most /\ a < m /\ m < b
  BY DEF Prefix
<1> HIDE DEF m
<1>2. m \in accepted <=> m <= L
  BY <1>1 DEF Prefix
<1>3. m <= L => Clamp(L, a, b) = Clamp(L, m, b)
  BY <1>1 DEF Clamp
<1>4. ~(m <= L) => Clamp(L, a, b) = Clamp(L, a, m)
  BY <1>1 DEF Clamp
<1> QED
  BY <1>1, <1>2, <1>3, <1>4 DEF m

LEMMA SearchExists ==
    ASSUME NEW accepted, NEW most, NEW L, Prefix(accepted, most, L)
    PROVE  \E g : g = [s \in (0 .. most + 1) \X (0 .. most + 1) |-> SpanBody(accepted, g, s)]
<1> DEFINE Spans == (0 .. most + 1) \X (0 .. most + 1)
           h == [s \in Spans |-> Clamp(L, s[1], s[2])]
<1>1. ASSUME NEW s \in Spans PROVE SpanBody(accepted, h, s) = Clamp(L, s[1], s[2])
  <2> DEFINE a == s[1]
             b == s[2]
             m == (a + b) \div 2
  <2>0. a \in 0 .. most + 1 /\ b \in 0 .. most + 1 /\ most \in Nat
    BY DEF Prefix
  <2>1. CASE a + 1 >= b
    BY <2>1 DEF SpanBody, Clamp
  <2>2. CASE a + 1 < b
    <3>1. /\ m \in 0 .. most + 1
          /\ Clamp(L, a, b) = IF m \in accepted THEN Clamp(L, m, b) ELSE Clamp(L, a, m)
      BY <2>0, <2>2, ClampHalves
    <3>2. h[<<m, b>>] = Clamp(L, m, b) /\ h[<<a, m>>] = Clamp(L, a, m)
      <4> HIDE DEF a, b, m
      <4>1. <<m, b>> \in Spans /\ <<a, m>> \in Spans
        BY <2>0, <3>1
      <4> QED
        BY <4>1
    <3>3. SpanBody(accepted, h, s) = IF m \in accepted THEN h[<<m, b>>] ELSE h[<<a, m>>]
      <4>1. ~(a + 1 >= b)
        BY <2>0, <2>2
      <4> HIDE DEF h
      <4> QED
        BY <4>1 DEF SpanBody
    <3> HIDE DEF h, m
    <3> QED
      BY <3>1, <3>2, <3>3
  <2> QED
    BY <2>0, <2>1, <2>2
<1>2. h = [s \in Spans |-> SpanBody(accepted, h, s)]
  <2>1. h = [s \in Spans |-> Clamp(L, s[1], s[2])]
    OBVIOUS
  <2> HIDE DEF h
  <2> QED
    BY <1>1, <2>1
<1> HIDE DEF h
<1> QED
  BY <1>2

\* The search finds the last of what is accepted, when that is a prefix.
LEMMA LastAcceptedIs ==
    ASSUME NEW accepted, NEW most, NEW L, Prefix(accepted, most, L)
    PROVE  LastAccepted(accepted, 0, most + 1) = L
<1> DEFINE Spans == (0 .. most + 1) \X (0 .. most + 1)
           g == SearchOf(accepted, 0, most + 1)
           good == {n \in Nat : \A a \in 0 .. most + 1, b \in 0 .. most + 1 :
                                   b - a <= n => g[<<a, b>>] = Clamp(L, a, b)}
<1>0. most \in Nat /\ L \in 0 .. most
  BY DEF Prefix
<1>1. g = [s \in Spans |-> SpanBody(accepted, g, s)]
  BY SearchExists DEF SearchOf
<1> HIDE DEF g
<1>2. ASSUME NEW a \in 0 .. most + 1, NEW b \in 0 .. most + 1
      PROVE  LET m == (a + b) \div 2 IN
             g[<<a, b>>] = IF a + 1 >= b THEN a
                           ELSE IF m \in accepted THEN g[<<m, b>>] ELSE g[<<a, m>>]
  <2> DEFINE s == <<a, b>>
  <2>1. s \in Spans /\ s[1] = a /\ s[2] = b
    OBVIOUS
  <2> HIDE DEF s
  <2>2. g[s] = SpanBody(accepted, g, s)
    BY <1>1, <2>1
  <2> QED
    BY <2>1, <2>2 DEF SpanBody, s
<1>3. 0 \in good
  <2>1. ASSUME NEW a \in 0 .. most + 1, NEW b \in 0 .. most + 1, b - a <= 0
        PROVE  g[<<a, b>>] = Clamp(L, a, b)
    <3>1. a + 1 >= b
      BY <2>1
    <3> QED
      BY <1>2, <3>1 DEF Clamp
  <2> QED
    BY <2>1
<1>4. ASSUME NEW n \in Nat, n \in good PROVE n + 1 \in good
  <2>1. ASSUME NEW a \in 0 .. most + 1, NEW b \in 0 .. most + 1, b - a <= n + 1
        PROVE  g[<<a, b>>] = Clamp(L, a, b)
    <3> DEFINE m == (a + b) \div 2
    <3>1. CASE a + 1 >= b
      BY <1>2, <3>1 DEF Clamp
    <3>2. CASE a + 1 < b
      <4>1. /\ m \in 0 .. most + 1 /\ m - a < b - a /\ b - m < b - a
            /\ Clamp(L, a, b) = IF m \in accepted THEN Clamp(L, m, b) ELSE Clamp(L, a, m)
        BY <3>2, ClampHalves
      <4>2. g[<<a, b>>] = IF m \in accepted THEN g[<<m, b>>] ELSE g[<<a, m>>]
        <5>1. ~(a + 1 >= b)
          BY <3>2
        <5> QED
          BY <1>2, <5>1
      <4> HIDE DEF m
      <4>3. m - a <= n /\ b - m <= n
        BY <2>1, <4>1
      <4>4. g[<<m, b>>] = Clamp(L, m, b) /\ g[<<a, m>>] = Clamp(L, a, m)
        BY <1>4, <4>1, <4>3
      <4> QED
        BY <4>1, <4>2, <4>4
    <3> QED
      BY <3>1, <3>2
  <2> QED
    BY <2>1
<1>5. most + 1 \in good
  <2> HIDE DEF good
  <2> QED
    BY <1>0, <1>3, <1>4, AllNumbers
<1>6. g[<<0, most + 1>>] = Clamp(L, 0, most + 1)
  BY <1>0, <1>5
<1>7. Clamp(L, 0, most + 1) = L
  BY <1>0 DEF Clamp
<1> QED
  BY <1>6, <1>7, SearchShown DEF g

\* What is refused once is refused above it: the accepted amounts are a prefix.
LEMMA PrefixExists ==
    ASSUME NEW accepted, NEW most \in Nat,
           \A g \in 1 .. most, h \in 1 .. most : g \in accepted /\ h <= g => h \in accepted
    PROVE  \E L \in 0 .. most : Prefix(accepted, most, L) /\ (L # 0 => L \in accepted)
<1> DEFINE S == {g \in 1 .. most : g \in accepted}
<1>1. CASE S = {}
  <2>1. Prefix(accepted, most, 0)
    BY <1>1 DEF Prefix
  <2> QED
    BY <2>1
<1>2. CASE S # {}
  <2>1. S \in SUBSET (1 .. most) /\ 1 \in Int /\ most \in Int
    OBVIOUS
  <2> HIDE DEF S
  <2>2. PICK m \in S : \A x \in S : x <= m
    BY <1>2, <2>1, GreatestExists
  <2> USE DEF S
  <2>3. Prefix(accepted, most, m)
    BY <2>2 DEF Prefix
  <2> QED
    BY <2>2, <2>3
<1> QED
  BY <1>1, <1>2

\* A fee takes no more of what is added than all of it, and less than all of anything when
\* the rate is less than one.
LEMMA FeeSpares ==
    ASSUME NEW x \in Nat, NEW y \in Nat, x <= y, NEW r \in 0 .. Wad
    PROVE  /\ x - Fee(x, r) \in Nat /\ y - Fee(y, r) \in Nat
           /\ x - Fee(x, r) <= y - Fee(y, r)
           /\ r < Wad /\ x # 0 => x - Fee(x, r) > 0
           /\ r = Wad => x - Fee(x, r) = 0
<1>1. Fee(x, r) \in 0 .. x /\ Fee(y, r) \in 0 .. y
  BY FeeAtMost
<1> DEFINE more == y - x
           all == Fee(x, r) + more
<1>2. more \in Nat /\ y = x + more /\ all \in Nat
  BY <1>1
<1>3. x * r \in Nat /\ y * r \in Nat /\ x * r < Fee(x, r) * Wad + Wad
      /\ Fee(x, r) * Wad \in Nat /\ Fee(x, r) * Wad <= x * r
  BY MulNat, QuotientBounds DEF Fee
<1>4. y * r = x * r + more * r /\ more * r \in Nat
  BY <1>2
<1>5. more * r <= more * Wad /\ more * Wad \in Nat
  <2>1. r * more <= Wad * more
    BY <1>2, MulMonotone
  <2> QED
    BY <1>2, <2>1
<1>6. (all + 1) * Wad = Fee(x, r) * Wad + more * Wad + Wad /\ (all + 1) * Wad \in Nat
  BY <1>1, <1>2
<1> HIDE DEF all, more
<1>7. Fee(y, r) <= all
  <2>1. Fee(y, r) * Wad <= y * r /\ Fee(y, r) * Wad \in Nat
    BY <1>3, QuotientBounds DEF Fee
  <2>2. Fee(y, r) * Wad < (all + 1) * Wad
    BY <1>3, <1>4, <1>5, <1>6, <2>1
  <2>3. ASSUME all < Fee(y, r) PROVE FALSE
    <3>1. (all + 1) * Wad <= Fee(y, r) * Wad
      BY <1>1, <1>2, <2>3, MulMonotone
    <3> QED
      BY <1>6, <2>1, <2>2, <3>1
  <2> QED
    BY <1>1, <1>2, <2>3
<1>8. ASSUME r < Wad, x # 0, Fee(x, r) = x PROVE FALSE
  <2>1. x * Wad <= x * r
    BY <1>3, <1>8
  <2>2. x * (r + 1) <= x * Wad
    <3>1. (r + 1) * x <= Wad * x
      BY <1>8, MulMonotone
    <3> QED
      BY <3>1
  <2>3. x * (r + 1) = x * r + x /\ x * Wad \in Nat
    OBVIOUS
  <2> QED
    BY <1>3, <1>8, <2>1, <2>2, <2>3
<1>9. r = Wad => Fee(x, r) = x
  <2>1. (x * Wad) \div Wad = x
    OBVIOUS
  <2> QED
    BY <2>1 DEF Fee
<1> QED
  BY <1>1, <1>2, <1>7, <1>8, <1>9 DEF all, more

\* When a sale is accepted.
Sellable(s, g) ==
    /\ s.tin # Halted
    /\ FeeFits(g * Factor, s.tin)
    /\ SellDai(s, g) <= s.daiBuffer
    /\ s.pocketGem + g <= MaxUint

LEMMA SellableIs ==
    ASSUME NEW s, NEW g
    PROVE  /\ SellGem(s, g).ok <=> Sellable(s, g)
           /\ Sellable(s, g) => SellGem(s, g).out = SellDai(s, g)
  BY DEF SellGem, Sellable, Unsupported

\* A smaller sale is accepted too.
LEMMA SellableDown ==
    ASSUME NEW s \in Psms, NEW g \in Nat, NEW h \in Nat, h <= g, Sellable(s, g)
    PROVE  Sellable(s, h)
<1>1. s.tin \in 0 .. Wad /\ s.tin # Halted /\ s.daiBuffer \in Nat /\ s.pocketGem \in Nat
  BY DEF Psms, Fees, Uint, Sellable
<1>2. h * Factor \in Nat /\ g * Factor \in Nat /\ h * Factor <= g * Factor
  BY MulMonotone
<1>3. /\ (h * Factor) * s.tin \in Nat /\ (g * Factor) * s.tin \in Nat
      /\ (h * Factor) * s.tin <= (g * Factor) * s.tin
  BY <1>1, <1>2, MulMonotone
<1>4. SellDai(s, h) \in Nat /\ SellDai(s, g) \in Nat /\ SellDai(s, h) <= SellDai(s, g)
  BY <1>1, <1>2, FeeSpares DEF SellDai
<1>5. FeeFits(h * Factor, s.tin)
  BY <1>2, <1>3 DEF Sellable, FeeFits
<1>6. SellDai(s, h) <= s.daiBuffer /\ s.pocketGem + h <= MaxUint
  BY <1>1, <1>4 DEF Sellable
<1> QED
  BY <1>1, <1>5, <1>6 DEF Sellable

LEMMA SellEndpoint ==
    ASSUME NEW s \in Psms
    PROVE  MaxSellGemInput(s) =
             Max({0} \cup {g \in Uint : SellGem(s, g).ok /\ SellGem(s, g).out > 0})
<1> DEFINE most == MaxUint \div Factor
           accepted == {g \in 1 .. most : SellGem(s, g).ok}
           S == {g \in Uint : SellGem(s, g).ok /\ SellGem(s, g).out > 0}
           last == LastAccepted(accepted, 0, most + 1)
<1>1. most \in Nat
  BY QuotientTimes
<1>2. PICK L \in 0 .. most : Prefix(accepted, most, L) /\ (L # 0 => L \in accepted)
  <2>1. \A g \in 1 .. most, h \in 1 .. most : g \in accepted /\ h <= g => h \in accepted
    <3>1. ASSUME NEW g \in 1 .. most, NEW h \in 1 .. most, g \in accepted, h <= g
          PROVE  h \in accepted
      <4>1. g \in Nat /\ h \in Nat /\ Sellable(s, g)
        BY <1>1, <3>1, SellableIs
      <4>2. Sellable(s, h)
        BY <3>1, <4>1, SellableDown
      <4> QED
        BY <4>2, SellableIs
    <3> QED
      BY <3>1
  <2> HIDE DEF accepted, most
  <2> QED
    BY <1>1, <2>1, PrefixExists
<1>3. last = L
  <2> HIDE DEF accepted, most
  <2> QED
    BY <1>2, LastAcceptedIs
\* A sale of anything that is accepted yields something, unless the fee is the whole.
<1>4. ASSUME NEW g \in Nat, Sellable(s, g)
      PROVE  SellGem(s, g).out > 0 <=> s.tin # Wad /\ g # 0
  <2>1. s.tin \in 0 .. Wad /\ g * Factor \in Nat
    BY <1>4 DEF Sellable, Psms, Fees
  <2>2. g # 0 => g * Factor # 0
    OBVIOUS
  <2>3. g = 0 => g * Factor = 0
    OBVIOUS
  <2>4. SellDai(s, g) \in 0 .. g * Factor
    <3>1. Fee(g * Factor, s.tin) \in 0 .. g * Factor
      BY <2>1, FeeAtMost
    <3> QED
      BY <2>1, <3>1 DEF SellDai
  <2>5. /\ s.tin < Wad /\ g * Factor # 0 => SellDai(s, g) > 0
        /\ s.tin = Wad => SellDai(s, g) = 0
    BY <2>1, FeeSpares DEF SellDai
  <2>6. SellGem(s, g).out = SellDai(s, g)
    BY <1>4, SellableIs
  <2> QED
    BY <2>1, <2>2, <2>3, <2>4, <2>5, <2>6
<1>5. ASSUME NEW g \in S PROVE g \in 1 .. most /\ g <= L /\ s.tin # Halted /\ s.tin # Wad
  <2>1. g \in Nat /\ Sellable(s, g)
    BY <1>5, SellableIs DEF Uint
  <2>2. s.tin # Wad /\ g # 0
    BY <1>4, <1>5, <2>1
  <2>3. g * Factor <= MaxUint /\ g * Factor \in Nat /\ (g * Factor) \div Factor = g
    BY <2>1 DEF Sellable, FeeFits
  <2>4. g <= most
    BY <2>3, DivMonotone
  <2>5. g \in 1 .. most
    BY <1>1, <2>1, <2>2, <2>4
  <2>6. g \in accepted
    BY <1>5, <2>5
  <2> HIDE DEF accepted, most
  <2> QED
    BY <1>2, <2>1, <2>2, <2>5, <2>6 DEF Prefix, Sellable
<1>6. MaxSellGemInput(s) = IF /\ s.tin # Halted /\ s.tin # Wad
                              /\ last > 0 /\ SellGem(s, last).out > 0
                             THEN last ELSE 0
  BY DEF MaxSellGemInput
<1> DEFINE result == IF s.tin # Halted /\ s.tin # Wad /\ L > 0 /\ SellGem(s, L).out > 0
                       THEN L ELSE 0
<1>7. MaxSellGemInput(s) = result
  <2> HIDE DEF last
  <2> QED
    BY <1>3, <1>6
<1>8. S \subseteq Nat
  BY DEF Uint
<1>9. L # 0 => L \in Uint /\ SellGem(s, L).ok
  <2>1. L # 0 => L \in accepted /\ L <= most /\ most <= MaxUint
    <3>1. most * Factor <= MaxUint /\ most <= most * Factor
      BY <1>1
    <3> QED
      BY <1>1, <1>2, <3>1
  <2> QED
    BY <1>1, <2>1 DEF Uint
<1> HIDE DEF accepted, last, most
<1>10. result \in {0} \cup S
  BY <1>2, <1>9
<1>11. \A x \in {0} \cup S : x <= result
  <2>1. ASSUME NEW x \in S PROVE x <= result
    <3>1. x <= L /\ x >= 1 /\ x \in Nat /\ s.tin # Halted /\ s.tin # Wad
      BY <1>1, <1>5, <1>8, <2>1
    <3>2. L # 0 /\ L \in Nat
      BY <1>1, <1>2, <3>1
    <3>3. Sellable(s, L)
      BY <1>9, <3>2, SellableIs
    <3>4. SellGem(s, L).out > 0
      BY <1>4, <3>1, <3>2, <3>3
    <3> QED
      BY <3>1, <3>2, <3>4
  <2>2. 0 <= result
    BY <1>1, <1>2
  <2> QED
    BY <2>1, <2>2
<1>12. {0} \cup S \in SUBSET Int
  BY <1>8
<1> HIDE DEF S, result
<1>13. Max({0} \cup S) = result
  BY <1>10, <1>11, <1>12, MaxIs
<1> QED
  BY <1>7, <1>13 DEF S

\* An amount of gem that its price buys.
Drawable(s, g) ==
    /\ RequiredFits(s, g)
    /\ g <= s.pocketGem /\ g <= s.allowance
    /\ s.daiBuffer + RequiredDai(s, g) <= MaxUint

LEMMA BuyOutcome ==
    ASSUME NEW s \in Psms, s.tout # Halted, NEW d, BuyGem(s, d).ok
    PROVE  /\ BuyGem(s, d).out \in Uint /\ Drawable(s, BuyGem(s, d).out)
           /\ RequiredDai(s, BuyGem(s, d).out) = d
<1> DEFINE g == CHOOSE h \in Preimage(s, d) : TRUE
<1>1. Preimage(s, d) # {} /\ BuyGem(s, d).out = g
  BY DEF BuyGem, Unsupported
<1>2. g \in Preimage(s, d)
  BY <1>1
<1> HIDE DEF g
<1> QED
  BY <1>1, <1>2 DEF Preimage, BuySettles, Drawable

LEMMA DrawableTyped ==
    ASSUME NEW s \in Psms, s.tout # Halted, NEW g \in Nat, RequiredFits(s, g)
    PROVE  g \in Uint /\ RequiredDai(s, g) \in Uint
<1>1. s.tout \in Nat /\ g * Factor \in Nat /\ g <= g * Factor
  BY DEF Psms, Fees
<1>2. Fee(g * Factor, s.tout) \in Nat
  BY <1>1, FeeMonotone
<1>3. g * Factor <= MaxUint /\ RequiredDai(s, g) <= MaxUint
  BY DEF RequiredFits, FeeFits
<1> QED
  BY <1>1, <1>2, <1>3 DEF Uint, RequiredDai

LEMMA BuyableIs ==
    ASSUME NEW s \in Psms, s.tout # Halted, NEW g \in Nat
    PROVE  Buyable(s, g) <=> Drawable(s, g)
<1> DEFINE d == RequiredDai(s, g)
<1>1. ASSUME Buyable(s, g) PROVE Drawable(s, g)
  <2>1. BuyGem(s, d).ok /\ BuyGem(s, d).out = g
    BY <1>1 DEF Buyable
  <2> HIDE DEF d
  <2> QED
    BY <2>1, BuyOutcome
<1>2. ASSUME Drawable(s, g) PROVE Buyable(s, g)
  <2>1. g \in Uint /\ RequiredFits(s, g)
    BY <1>2, DrawableTyped DEF Drawable
  <2>2. g \in Preimage(s, d)
    BY <1>2, <2>1 DEF Preimage, BuySettles, Drawable
  <2>3. BuyGem(s, d).ok
    BY <2>2 DEF BuyGem
  <2> DEFINE h == BuyGem(s, d).out
  <2>4. h \in Uint /\ RequiredDai(s, h) = d
    BY <2>3, BuyOutcome
  <2>5. h = g
    <3>1. h \in Nat
      BY <2>4 DEF Uint
    <3> HIDE DEF h
    <3>2. ~(h < g) /\ ~(g < h)
      BY <2>4, <3>1, PriceStrict
    <3> QED
      BY <3>1, <3>2
  <2> QED
    BY <2>1, <2>3, <2>5 DEF Buyable
<1> QED
  BY <1>1, <1>2

\* A smaller amount can be drawn too.
LEMMA DrawableDown ==
    ASSUME NEW s \in Psms, s.tout # Halted, NEW g \in Nat, NEW h \in Nat, h <= g,
           Drawable(s, g)
    PROVE  Drawable(s, h)
<1>1. RequiredFits(s, g) /\ RequiredDai(s, g) \in Nat
  BY DrawableTyped DEF Drawable, Uint
<1>2. Affordable(s, RequiredDai(s, g), g)
  BY <1>1 DEF Affordable
<1>3. Affordable(s, RequiredDai(s, g), h)
  BY <1>1, <1>2, AffordableDown
<1>4. RequiredFits(s, h) /\ RequiredDai(s, h) <= RequiredDai(s, g)
  BY <1>3 DEF Affordable
<1>5. RequiredDai(s, h) \in Nat
  BY <1>4, DrawableTyped DEF Uint
<1>6. s.daiBuffer \in Nat /\ s.pocketGem \in Nat /\ s.allowance \in Nat
  BY DEF Psms, Uint
<1> QED
  BY <1>1, <1>4, <1>5, <1>6 DEF Drawable

LEMMA BuyEndpoint ==
    ASSUME NEW s \in Psms
    PROVE  MaxBuyGemOutput(s) =
             Max({0} \cup {BuyGem(s, d).out : d \in {paid \in Uint : BuyGem(s, paid).ok}})
<1> DEFINE most == IF s.pocketGem < s.allowance THEN s.pocketGem ELSE s.allowance
           accepted == {g \in 1 .. most : Buyable(s, g)}
           T == {BuyGem(s, d).out : d \in {paid \in Uint : BuyGem(s, paid).ok}}
<1>1. CASE s.tout = Halted
  <2>1. \A d : ~BuyGem(s, d).ok
    BY <1>1 DEF BuyGem, Unsupported
  <2>2. T = {}
    BY <2>1
  <2>3. MaxBuyGemOutput(s) = 0
    BY <1>1 DEF MaxBuyGemOutput
  <2> HIDE DEF T
  <2>4. Max({0} \cup T) = 0
    BY <2>2, MaxIs
  <2> QED
    BY <2>3, <2>4 DEF T
<1>2. CASE s.tout # Halted
  <2>1. most \in Nat /\ most <= s.pocketGem /\ most <= s.allowance
        /\ \A g \in Nat : g <= s.pocketGem /\ g <= s.allowance => g <= most
    BY DEF Psms, Uint
  <2>2. PICK L \in 0 .. most : Prefix(accepted, most, L) /\ (L # 0 => L \in accepted)
    <3>1. \A g \in 1 .. most, h \in 1 .. most : g \in accepted /\ h <= g => h \in accepted
      <4>1. ASSUME NEW g \in 1 .. most, NEW h \in 1 .. most, g \in accepted, h <= g
            PROVE  h \in accepted
        <5>1. g \in Nat /\ h \in Nat /\ Buyable(s, g)
          BY <2>1, <4>1
        <5>2. Buyable(s, h)
          BY <1>2, <4>1, <5>1, BuyableIs, DrawableDown
        <5> QED
          BY <5>2
      <4> QED
        BY <4>1
    <3> HIDE DEF accepted, most
    <3> QED
      BY <2>1, <3>1, PrefixExists
  <2>3. MaxBuyGemOutput(s) = L
    <3>1. MaxBuyGemOutput(s) = LastAccepted(accepted, 0, most + 1)
      BY <1>2 DEF MaxBuyGemOutput
    <3> HIDE DEF accepted, most
    <3> QED
      BY <2>2, <3>1, LastAcceptedIs
  <2>4. ASSUME NEW x \in T PROVE x \in Nat /\ x <= L
    <3>1. PICK d \in Uint : BuyGem(s, d).ok /\ x = BuyGem(s, d).out
      BY <2>4
    <3>2. x \in Nat /\ Drawable(s, x)
      BY <1>2, <3>1, BuyOutcome DEF Uint
    <3>3. x <= most /\ Buyable(s, x)
      BY <1>2, <2>1, <3>2, BuyableIs DEF Drawable
    <3>4. x # 0 => x \in 1 .. most /\ x \in accepted
      BY <2>1, <3>2, <3>3
    <3> HIDE DEF accepted, most
    <3> QED
      BY <2>1, <2>2, <3>2, <3>4 DEF Prefix
  <2>5. L \in {0} \cup T
    <3>1. ASSUME L # 0 PROVE L \in T
      <4>1. L \in Nat /\ Buyable(s, L)
        BY <2>1, <2>2, <3>1
      <4> DEFINE d == RequiredDai(s, L)
      <4>2. BuyGem(s, d).ok /\ BuyGem(s, d).out = L /\ RequiredFits(s, L)
        BY <4>1 DEF Buyable
      <4>3. d \in Uint
        BY <1>2, <4>1, <4>2, DrawableTyped
      <4> QED
        BY <4>2, <4>3
    <3> QED
      BY <3>1
  <2>6. L \in Nat
    BY <2>1, <2>2
  <2> HIDE DEF T
  <2>7. {0} \cup T \in SUBSET Int /\ \A x \in {0} \cup T : x <= L
    BY <2>4, <2>6
  <2>8. Max({0} \cup T) = L
    BY <2>5, <2>7, MaxIs
  <2> QED
    BY <2>3, <2>8 DEF T
<1> QED
  BY <1>1, <1>2

\* While a pool of another family trades the LitePSM rests, and otherwise it moves alone.
LEMMA PsmStays ==
    ASSUME Inv, [PoolsNext]_<<vars, poolVars, trading>>
    PROVE  Inv'
<1>1. [Next]_vars
  BY DEF PoolsNext
<1> QED
  BY <1>1, NextInv

\* The endpoints a solver is told of are the largest trades that are accepted, and a stable
\* pool pays what it quotes, the 3pool perhaps one unit less.
THEOREM QuotesAndEndpointsHold == PoolsSpec => []QuotesHold
<1>1. PoolsStart => Inv /\ StableInv
  <2>1. PoolsStart => Inv
    BY InitInv DEF PoolsStart, PoolsInit
  <2>2. PoolsStart => StableInv
    BY DEF PoolsStart, PoolsInit, Pool!Init, StableInv
  <2> QED
    BY <2>1, <2>2
<1>2. ASSUME Inv, StableInv, [PoolsNext]_<<vars, poolVars, trading>> PROVE Inv' /\ StableInv'
  BY <1>2, PsmStays, StableStays
<1>3. ASSUME Inv, StableInv PROVE QuotesHold
  <2>1. psm \in Psms
    BY <1>3 DEF Inv, TypeOK
  <2>2. EndpointsExact
    BY <2>1, SellEndpoint, BuyEndpoint DEF EndpointsExact
  <2> QED
    BY <1>3, <2>2, StableQuotes DEF QuotesHold
<1> QED
  BY <1>1, <1>2, <1>3, PTL DEF PoolsSpec
-----------------------------------------------------------------------------
(* What a step costs and pays, to within rounding in favour of the pool.   *)

\* What goes down to a lower price costs no less than the liquidity in between.
LEMMA DownPays ==
    ASSUME NEW p \in Nat \ {0}, NEW t \in Nat \ {0}, t <= p, NEW liquidity \in Nat
    PROVE  LET cost == Pool!Amount0(t, p, liquidity, TRUE) IN
           cost \in Nat /\ (liquidity * One) * (p - t) <= cost * (p * t)
<1> DEFINE k == liquidity * One
           product == k * (p - t)
           once == Pool!DivUp(product, p)
           cost == Pool!DivUp(once, t)
<1>1. k \in Nat /\ p - t \in Nat
  BY LiquidityTimes
<1>2. Pool!Amount0(t, p, liquidity, TRUE) = cost
  BY DEF Pool!Amount0, Pool!Least, Pool!Most
<1> HIDE DEF k
<1>3. product \in Nat
  BY <1>1
<1> HIDE DEF product
<1>4. once \in Nat /\ product <= once * p
  BY <1>3, CeilFacts
<1> HIDE DEF once
<1>5. cost \in Nat /\ once <= cost * t
  BY <1>4, CeilFacts
<1> HIDE DEF cost
<1>6. once * p <= (cost * t) * p
  BY <1>4, <1>5, MulMonotone
<1>7. (cost * t) * p = cost * (p * t) /\ (cost * t) * p \in Nat /\ once * p \in Nat
  BY <1>4, <1>5
<1>8. cost \in Nat /\ product <= cost * (p * t)
  BY <1>3, <1>4, <1>5, <1>6, <1>7
<1>9. cost \in Nat /\ (liquidity * One) * (p - t) <= cost * (p * t)
  BY <1>8 DEF product, k
<1> QED
  BY <1>2, <1>9

LEMMA DownGets ==
    ASSUME NEW p \in Nat \ {0}, NEW t \in Nat \ {0}, t <= p, NEW liquidity \in Nat
    PROVE  LET got1 == Pool!Amount1(t, p, liquidity, FALSE) IN
           got1 \in Nat /\ One * got1 <= liquidity * (p - t)
<1>1. One \in Nat \ {0} /\ liquidity * (p - t) \in Nat
  BY TickConstants
<1>2. Pool!Amount1(t, p, liquidity, FALSE) = (liquidity * (p - t)) \div One
  BY DEF Pool!Amount1, Pool!Least, Pool!Most
<1> DEFINE n == liquidity * (p - t)
<1> HIDE DEF n
<1>3. n \in Nat => n \div One \in Nat /\ (n \div One) * One <= n
  BY <1>1, QuotientTimes
<1>4. \A q \in Nat : q * One = One * q
  BY <1>1
<1> QED
  BY <1>1, <1>2, <1>3, <1>4 DEF n

LEMMA UpPays ==
    ASSUME NEW p \in Nat \ {0}, NEW t \in Nat \ {0}, p <= t, NEW liquidity \in Nat
    PROVE  LET cost == Pool!Amount1(p, t, liquidity, TRUE) IN
           cost \in Nat /\ liquidity * (t - p) <= One * cost
<1>1. One \in Nat \ {0} /\ liquidity * (t - p) \in Nat
  BY TickConstants
<1>2. Pool!Amount1(p, t, liquidity, TRUE) = Pool!DivUp(liquidity * (t - p), One)
  BY DEF Pool!Amount1, Pool!Least, Pool!Most
<1> DEFINE n == liquidity * (t - p)
<1> HIDE DEF n
<1>3. n \in Nat => Pool!DivUp(n, One) \in Nat /\ n <= Pool!DivUp(n, One) * One
  BY <1>1, CeilFacts
<1>4. \A q \in Nat : q * One = One * q
  BY <1>1
<1> QED
  BY <1>1, <1>2, <1>3, <1>4 DEF n

LEMMA UpGets ==
    ASSUME NEW p \in Nat \ {0}, NEW t \in Nat \ {0}, p <= t, NEW liquidity \in Nat
    PROVE  LET got0 == Pool!Amount0(p, t, liquidity, FALSE) IN
           got0 \in Nat /\ got0 * (p * t) <= (liquidity * One) * (t - p)
<1> DEFINE k == liquidity * One
           product == k * (t - p)
           once == product \div t
           got0 == once \div p
<1>1. k \in Nat /\ t - p \in Nat
  BY LiquidityTimes
<1>2. Pool!Amount0(p, t, liquidity, FALSE) = got0
  BY DEF Pool!Amount0, Pool!Least, Pool!Most
<1> HIDE DEF k
<1>3. product \in Nat
  BY <1>1
<1> HIDE DEF product
<1>4. once \in Nat /\ once * t <= product
  BY <1>3, QuotientTimes
<1> HIDE DEF once
<1>5. got0 \in Nat /\ got0 * p \in Nat /\ got0 * p <= once
  BY <1>4, QuotientTimes
<1> HIDE DEF got0
<1>6. (got0 * p) * t <= once * t
  BY <1>4, <1>5, MulMonotone
<1>7. (got0 * p) * t = got0 * (p * t) /\ (got0 * p) * t \in Nat /\ once * t \in Nat
  BY <1>4, <1>5
<1>8. got0 \in Nat /\ got0 * (p * t) <= product
  BY <1>3, <1>4, <1>5, <1>6, <1>7
<1>9. got0 \in Nat /\ got0 * (p * t) <= (liquidity * One) * (t - p)
  BY <1>8 DEF product, k
<1> QED
  BY <1>2, <1>9

\* So does an input that stops short of the target.
LEMMA DownShort ==
    ASSUME NEW p \in Nat \ {0}, NEW t \in Nat \ {0}, t <= p, NEW liquidity \in Nat,
           NEW a \in Nat, a < Pool!Amount0(t, p, liquidity, TRUE)
    PROVE  LET next == Pool!NextPrice(p, liquidity, a, TRUE) IN
           (liquidity * One) * (p - next) <= a * (p * next)
<1> DEFINE k == liquidity * One
           next == Pool!DivUp(k * p, k + a * p)
<1>1. k \in Nat
  BY LiquidityTimes
<1>2. Pool!NextPrice(p, liquidity, a, TRUE) = IF a = 0 THEN p ELSE next
  BY DEF Pool!NextPrice
<1> HIDE DEF k
<1>3. CASE a = 0
  <2>1. k * (p - p) = 0 /\ a * (p * p) = 0
    BY <1>1, <1>3
  <2>2. Pool!NextPrice(p, liquidity, a, TRUE) = p
    BY <1>2, <1>3
  <2>3. k * (p - p) <= a * (p * p)
    BY <2>1
  <2> QED
    BY <2>2, <2>3 DEF k
<1>4. CASE a # 0
  <2>1. a * p \in Nat \ {0} /\ k * p \in Nat
    BY <1>1, <1>4
  <2>2. k + a * p \in Nat \ {0}
    BY <1>1, <2>1
  <2>3. next \in Nat /\ k * p <= next * (k + a * p)
    BY <2>1, <2>2, CeilFacts
  <2> HIDE DEF next
  <2>4. next * (k + a * p) = k * next + a * (p * next) /\ k * next \in Nat /\ a * (p * next) \in Nat
    BY <1>1, <2>3
  <2>5. k * (p - next) = k * p - k * next
    BY <1>1, <2>3
  <2>6. k * (p - next) <= a * (p * next)
    BY <2>1, <2>3, <2>4, <2>5
  <2> QED
    BY <1>2, <1>4, <2>6 DEF k
<1> QED
  BY <1>3, <1>4

LEMMA UpShort ==
    ASSUME NEW p \in Nat \ {0}, NEW t \in Nat \ {0}, p < t, NEW liquidity \in Nat,
           NEW a \in Nat, a < Pool!Amount1(p, t, liquidity, TRUE)
    PROVE  LET next == Pool!NextPrice(p, liquidity, a, FALSE) IN
           liquidity * (next - p) <= One * a
<1> DEFINE n == a * One
           q == n \div liquidity
<1>1. n < (t - p) * liquidity /\ n \in Nat /\ n = One * a
  <2>1. a * One < (t - p) * liquidity
    BY UpCost
  <2>2. a * One \in Nat /\ a * One = One * a
    BY TickConstants
  <2> QED
    BY <2>1, <2>2
<1>2. Pool!NextPrice(p, liquidity, a, FALSE) = p + q
  BY DEF Pool!NextPrice
<1> HIDE DEF n
<1>3. liquidity # 0
  <2>1. (t - p) * 0 = 0
    OBVIOUS
  <2> QED
    BY <1>1, <2>1
<1>4. q \in Nat /\ q * liquidity <= n
  BY <1>1, <1>3, QuotientTimes
<1> HIDE DEF q
<1>5. (p + q) - p = q /\ liquidity * q = q * liquidity
  BY <1>4
<1> QED
  BY <1>1, <1>2, <1>4, <1>5

\* A step down gives for its input no more than its liquidity has between the two prices, and
\* takes no less; a step up likewise.
DownFair(step, p, liquidity) ==
    /\ step.price \in Nat \ {0} /\ step.price <= p
    /\ step.in \in Int /\ step.fee \in Int /\ step.in + step.fee \in Nat /\ step.out \in Nat
    /\ (liquidity * One) * (p - step.price) <= (step.in + step.fee) * (p * step.price)
    /\ One * step.out <= liquidity * (p - step.price)

UpFair(step, p, liquidity) ==
    /\ step.price \in Nat \ {0} /\ p <= step.price
    /\ step.in \in Int /\ step.fee \in Int /\ step.in + step.fee \in Nat /\ step.out \in Nat
    /\ liquidity * (step.price - p) <= One * (step.in + step.fee)
    /\ step.out * (p * step.price) <= (liquidity * One) * (step.price - p)

\* The input less its fee, and what is taken when the target is reached or not.
LessFee(remaining, fee) == (remaining * (Pool!Pips - fee)) \div Pool!Pips

LEMMA LessFeeFits ==
    ASSUME NEW remaining \in Nat, NEW fee \in 0 .. Pool!Pips
    PROVE  LessFee(remaining, fee) \in Nat /\ LessFee(remaining, fee) <= remaining
<1> DEFINE pips == Pool!Pips
           d == pips - fee
<1>1. pips \in Nat \ {0} /\ d \in Nat /\ d <= pips
  BY PipsNat
<1> HIDE DEF pips, d
<1>2. remaining * d \in Nat /\ remaining * d <= remaining * pips
  <2>1. d * remaining <= pips * remaining /\ d * remaining \in Nat
    BY <1>1, MulMonotone
  <2>2. d * remaining = remaining * d /\ pips * remaining = remaining * pips
    BY <1>1
  <2> QED
    BY <2>1, <2>2
<1>3. (remaining * d) \div pips \in Nat /\ (remaining * d) \div pips <= remaining
  <2> DEFINE n == remaining * d
  <2> HIDE DEF n
  <2>1. n \in Nat /\ n <= remaining * pips
    BY <1>2 DEF n
  <2>2. n \div pips \in Nat /\ n \div pips <= remaining
    BY <1>1, <2>1, QuotientTimes, QuotientAtMost
  <2> QED
    BY <2>2 DEF n
<1> QED
  BY <1>3 DEF LessFee, d, pips

\* A step reaches its target and takes its cost and a fee, or all that is left.
StepEnds(step, p, t, liquidity, remaining, fee, down) ==
    LET lessFee == LessFee(remaining, fee)
        cost == Pool!AmountIn(p, t, liquidity, down) IN
    /\ step.in \in Int /\ step.fee \in Int
    /\ step.out = Pool!AmountOut(p, step.price, liquidity, down)
    /\ \/ /\ step.price = t
          /\ step.in + step.fee \in Nat /\ cost <= step.in + step.fee
       \/ /\ lessFee < cost /\ step.in + step.fee = remaining
          /\ step.price = Pool!NextPrice(p, liquidity, lessFee, down)

LEMMA StepEndsFacts ==
    ASSUME NEW version \in Versions, NEW p \in Nat \ {0}, NEW t \in Nat \ {0},
           NEW liquidity \in Nat, NEW remaining \in Nat, NEW fee \in 0 .. Pool!Pips,
           NEW down \in BOOLEAN, down <=> p >= t
    PROVE  StepEnds(Pool!SwapStep(version, p, t, liquidity, remaining, fee),
                    p, t, liquidity, remaining, fee, down)
<1> DEFINE lessFee == LessFee(remaining, fee)
           cost == Pool!AmountIn(p, t, liquidity, down)
           reached == lessFee >= cost
           next == IF reached THEN t ELSE Pool!NextPrice(p, liquidity, lessFee, down)
           in == IF reached THEN cost
                 ELSE IF version = "v4" THEN Pool!ShortInV4(lessFee)
                                        ELSE Pool!ShortInV3(p, next, liquidity, down)
           out == Pool!AmountOut(p, next, liquidity, down)
           paid == IF ~reached THEN remaining - in
                   ELSE IF fee = Pool!Pips THEN in
                        ELSE Pool!DivUp(in * fee, Pool!Pips - fee)
           step == Pool!SwapStep(version, p, t, liquidity, remaining, fee)
<1>0. down = (p >= t)
  OBVIOUS
<1>1. step = [price |-> next, in |-> in, out |-> out, fee |-> paid]
  BY <1>0 DEF Pool!SwapStep, LessFee
<1>2. lessFee \in Nat /\ cost \in Nat
  BY LessFeeFits, InOutTyped
<1>3. next \in Nat \ {0}
  <2>1. StepHolds(step, p, t, remaining)
    BY StepFacts
  <2> HIDE DEF next, in, out, paid, step
  <2> QED
    BY <1>1, <2>1 DEF StepHolds
<1> HIDE DEF step
<1>6. step.price = next /\ step.in = in /\ step.fee = paid /\ step.out = out
  BY <1>1
<1>4. CASE reached
  <2>1. in = cost /\ next = t
    BY <1>4
  <2>2. paid \in Nat
    <3>1. CASE fee = Pool!Pips
      BY <1>2, <1>4, <2>1, <3>1
    <3>2. CASE fee # Pool!Pips
      <4> DEFINE d == Pool!Pips - fee
      <4>1. d \in Nat \ {0} /\ fee \in Nat
        BY <3>2, PipsNat
      <4>2. paid = Pool!DivUp(cost * fee, d)
        BY <1>4, <2>1, <3>2
      <4> HIDE DEF d, cost, paid
      <4>3. cost * fee \in Nat
        BY <1>2, <4>1
      <4> QED
        BY <4>1, <4>2, <4>3, CeilFacts
    <3> QED
      BY <3>1, <3>2
  <2> HIDE DEF next, in, out, paid, cost
  <2>3. in \in Nat /\ in + paid \in Nat /\ cost <= in + paid
    BY <1>2, <2>1, <2>2
  <2>4. step.price = t /\ step.in + step.fee \in Nat
        /\ Pool!AmountIn(p, t, liquidity, down) <= step.in + step.fee
        /\ step.out = Pool!AmountOut(p, step.price, liquidity, down)
        /\ step.in \in Int /\ step.fee \in Int
    BY <1>6, <2>1, <2>2, <2>3 DEF out, cost
  <2>5. StepEnds(step, p, t, liquidity, remaining, fee, down)
    BY <2>4 DEF StepEnds
  <2> QED
    BY <2>5 DEF step
<1>5. CASE ~reached
  <2>1. next = Pool!NextPrice(p, liquidity, lessFee, down) /\ lessFee < cost
    BY <1>2, <1>5
  <2>2. in \in Nat
    <3>1. Pool!ShortInV3(p, next, liquidity, down) \in Nat
      <4> HIDE DEF next
      <4> QED
        BY <1>3, InOutTyped DEF Pool!ShortInV3
    <3>2. Pool!ShortInV4(lessFee) \in Nat
      BY <1>2 DEF Pool!ShortInV4
    <3> HIDE DEF next
    <3> QED
      BY <1>5, <3>1, <3>2
  <2>3. paid = remaining - in
    BY <1>5
  <2> HIDE DEF next, in, out, paid, cost
  <2>4. in + paid = remaining /\ in \in Int /\ paid \in Int
    BY <2>2, <2>3
  <2>5. /\ step.out = Pool!AmountOut(p, step.price, liquidity, down)
        /\ lessFee < Pool!AmountIn(p, t, liquidity, down) /\ step.in + step.fee = remaining
        /\ step.price = Pool!NextPrice(p, liquidity, lessFee, down)
        /\ step.in \in Int /\ step.fee \in Int
    BY <1>6, <2>1, <2>4 DEF out, cost
  <2>6. StepEnds(step, p, t, liquidity, remaining, fee, down)
    BY <2>5 DEF StepEnds
  <2> QED
    BY <2>6 DEF step
<1> QED
  BY <1>4, <1>5

LEMMA StepDown ==
    ASSUME NEW version \in Versions, NEW p \in Nat \ {0}, NEW t \in Nat \ {0}, t <= p,
           NEW liquidity \in Nat, NEW remaining \in Nat, NEW fee \in 0 .. Pool!Pips
    PROVE  DownFair(Pool!SwapStep(version, p, t, liquidity, remaining, fee), p, liquidity)
<1> DEFINE step == Pool!SwapStep(version, p, t, liquidity, remaining, fee)
           lessFee == LessFee(remaining, fee)
           cost == Pool!Amount0(t, p, liquidity, TRUE)
           np == step.price
           used == step.in + step.fee
           k == liquidity * One
<1>1. \E down \in BOOLEAN : down /\ StepEnds(step, p, t, liquidity, remaining, fee, down)
  <2>1. \A down \in BOOLEAN : (down <=> p >= t) =>
            StepEnds(step, p, t, liquidity, remaining, fee, down)
    BY StepEndsFacts
  <2>2. TRUE <=> p >= t
    OBVIOUS
  <2> QED
    BY <2>1, <2>2
<1>2. /\ step.in \in Int /\ step.fee \in Int
      /\ step.out = Pool!Amount1(np, p, liquidity, FALSE)
      /\ \/ np = t /\ used \in Nat /\ cost <= used
         \/ lessFee < cost /\ used = remaining /\ np = Pool!NextPrice(p, liquidity, lessFee, TRUE)
  BY <1>1 DEF StepEnds, Pool!AmountIn, Pool!AmountOut, Pool!NextPrice
<1>3. np \in Nat \ {0} /\ np <= p
  <2>1. StepHolds(step, p, t, remaining)
    BY StepFacts
  <2>2. np \in Nat \ {0} /\ (np \in t .. p \/ np \in p .. t)
    BY <2>1 DEF StepHolds
  <2> HIDE DEF np
  <2> QED
    BY <2>2
<1>4. lessFee \in Nat /\ lessFee <= remaining
  BY LessFeeFits
<1>5. k \in Nat
  BY LiquidityTimes
<1> HIDE DEF step, lessFee
<1>6. used \in Nat /\ k * (p - np) <= used * (p * np)
  <2>1. CASE np = t /\ used \in Nat /\ cost <= used
    <3>1. cost \in Nat /\ k * (p - t) <= cost * (p * t)
      BY DownPays
    <3> HIDE DEF cost, np, used, k
    <3>2. cost * (p * t) <= used * (p * t) /\ cost * (p * t) \in Nat /\ used * (p * t) \in Nat
      BY <2>1, <3>1, MulMonotone
    <3>3. k * (p - t) \in Int
      BY <1>5
    <3> QED
      BY <2>1, <3>1, <3>2, <3>3
  <2>2. CASE lessFee < cost /\ used = remaining /\ np = Pool!NextPrice(p, liquidity, lessFee, TRUE)
    <3>1. k * (p - np) <= lessFee * (p * np)
      BY <1>4, <2>2, DownShort
    <3> HIDE DEF cost, np, used, k
    <3>2. p * np \in Nat
      BY <1>3
    <3>3. lessFee * (p * np) <= remaining * (p * np)
          /\ lessFee * (p * np) \in Nat /\ remaining * (p * np) \in Nat
      BY <1>4, <3>2, MulMonotone
    <3>4. k * (p - np) \in Int
      BY <1>3, <1>5
    <3>5. k * (p - np) <= remaining * (p * np)
      BY <3>1, <3>3, <3>4
    <3>6. used = remaining
      BY <2>2
    <3>7. used \in Nat /\ k * (p - np) <= used * (p * np)
      BY <3>5, <3>6
    <3> QED
      BY <3>7
  <2> HIDE DEF cost, np, used, k
  <2> QED
    BY <1>2, <2>1, <2>2
<1>7. step.out \in Nat /\ One * step.out <= liquidity * (p - np)
  <2> HIDE DEF np
  <2> QED
    BY <1>2, <1>3, DownGets
<1> QED
  BY <1>2, <1>3, <1>6, <1>7 DEF DownFair, step

LEMMA StepUp ==
    ASSUME NEW version \in Versions, NEW p \in Nat \ {0}, NEW t \in Nat \ {0}, p <= t,
           NEW liquidity \in Nat, NEW remaining \in Nat, NEW fee \in 0 .. Pool!Pips
    PROVE  UpFair(Pool!SwapStep(version, p, t, liquidity, remaining, fee), p, liquidity)
<1> DEFINE step == Pool!SwapStep(version, p, t, liquidity, remaining, fee)
           lessFee == LessFee(remaining, fee)
           cost == Pool!Amount1(p, t, liquidity, TRUE)
           np == step.price
           used == step.in + step.fee
           k == liquidity * One
<1>3. np \in Nat \ {0} /\ p <= np /\ np <= t
  <2>1. StepHolds(step, p, t, remaining)
    BY StepFacts
  <2>2. np \in Nat \ {0} /\ (np \in t .. p \/ np \in p .. t)
    BY <2>1 DEF StepHolds
  <2> HIDE DEF np
  <2> QED
    BY <2>2
<1>4. lessFee \in Nat /\ lessFee <= remaining
  BY LessFeeFits
<1>5. k \in Nat /\ One \in Nat
  BY LiquidityTimes, TickConstants
<1>8. CASE p = t
  <2>1. DownFair(step, p, liquidity)
    BY <1>8, StepDown
  <2>2. np = p
    <3> HIDE DEF np
    <3> QED
      BY <1>3, <1>8
  <2>3. /\ used \in Nat /\ step.out \in Nat /\ One * step.out <= liquidity * (p - p)
        /\ step.in \in Int /\ step.fee \in Int
    BY <2>1, <2>2 DEF DownFair
  <2> HIDE DEF step
  <2>4. liquidity * (p - p) = 0 /\ k * (p - p) = 0
    BY <1>5
  <2>5. step.out = 0
    BY <2>3, <2>4, TickConstants
  <2> HIDE DEF k, used
  <2>6. One * used \in Nat /\ 0 * (p * np) = 0
    BY <1>3, <1>5, <2>3
  <2>7. liquidity * (np - p) <= One * used
    BY <2>2, <2>4, <2>6
  <2>8. step.out * (p * np) <= k * (np - p)
    BY <2>2, <2>4, <2>5, <2>6
  <2> QED
    BY <1>3, <2>3, <2>7, <2>8 DEF UpFair, step, k, used
<1>9. CASE p < t
  <2>1. \E down \in BOOLEAN : ~down /\ StepEnds(step, p, t, liquidity, remaining, fee, down)
    <3>1. \A down \in BOOLEAN : (down <=> p >= t) =>
              StepEnds(step, p, t, liquidity, remaining, fee, down)
      BY StepEndsFacts
    <3>2. FALSE <=> p >= t
      BY <1>9
    <3> QED
      BY <3>1, <3>2
  <2>2. /\ step.in \in Int /\ step.fee \in Int
        /\ step.out = Pool!Amount0(p, np, liquidity, FALSE)
        /\ \/ np = t /\ used \in Nat /\ cost <= used
           \/ lessFee < cost /\ used = remaining /\ np = Pool!NextPrice(p, liquidity, lessFee, FALSE)
    BY <2>1 DEF StepEnds, Pool!AmountIn, Pool!AmountOut, Pool!NextPrice
  <2> HIDE DEF step, lessFee
  <2>6. used \in Nat /\ liquidity * (np - p) <= One * used
    <3>1. CASE np = t /\ used \in Nat /\ cost <= used
      <4>1. cost \in Nat /\ liquidity * (t - p) <= One * cost
        BY <1>9, UpPays
      <4> HIDE DEF cost, np, used
      <4>2. One * cost <= One * used /\ One * cost \in Nat /\ One * used \in Nat
        <5>1. cost * One <= used * One
          BY <1>5, <3>1, <4>1, MulMonotone
        <5> QED
          BY <1>5, <3>1, <4>1, <5>1
      <4>3. liquidity * (t - p) \in Int
        OBVIOUS
      <4> QED
        BY <3>1, <4>1, <4>2, <4>3
    <3>2. CASE lessFee < cost /\ used = remaining /\ np = Pool!NextPrice(p, liquidity, lessFee, FALSE)
      <4>1. liquidity * (np - p) <= One * lessFee
        BY <1>4, <1>9, <3>2, UpShort
      <4> HIDE DEF cost, np, used
      <4>2. One * lessFee <= One * remaining /\ One * lessFee \in Nat /\ One * remaining \in Nat
        <5>1. lessFee * One <= remaining * One
          BY <1>4, <1>5, MulMonotone
        <5> QED
          BY <1>4, <1>5, <5>1
      <4>3. liquidity * (np - p) \in Int
        BY <1>3
      <4>4. liquidity * (np - p) <= One * remaining
        BY <4>1, <4>2, <4>3
      <4>5. used = remaining
        BY <3>2
      <4>6. used \in Nat /\ liquidity * (np - p) <= One * used
        BY <4>4, <4>5
      <4> QED
        BY <4>6
    <3> HIDE DEF cost, np, used
    <3> QED
      BY <2>2, <3>1, <3>2
  <2>7. step.out \in Nat /\ step.out * (p * np) <= k * (np - p)
    <3> HIDE DEF np
    <3> QED
      BY <1>3, <2>2, UpGets
  <2> QED
    BY <1>3, <2>2, <2>6, <2>7 DEF UpFair, step
<1> QED
  BY <1>8, <1>9
-----------------------------------------------------------------------------
(* The liquidity between two prices.  Sums over the prices in between say  *)
(* exactly what a move from one to the other is worth in either token; in  *)
(* the first it goes with the inverse of the price, for which a common     *)
(* multiple of all prices stands.                                          *)

Top == Ratio[MaxTick]

LEMMA TopFacts == Top \in Nat \ {0} /\ Ratio[MinTick] \in 1 .. Top
<1>1. MinTick \in MinTick .. MaxTick /\ MaxTick \in MinTick .. MaxTick
  BY TickConstants
<1>2. Ratio[MaxTick] \in Nat \ {0} /\ Ratio[MinTick] \in Nat \ {0} /\ Ratio[MinTick] < Ratio[MaxTick]
  BY <1>1, TickConstants
<1> QED
  BY <1>2 DEF Top

IsMultiple(N, top) == N \in Nat \ {0} /\ \A x \in 1 .. top : \E q \in Nat \ {0} : q * x = N

LEMMA MultipleExists ==
    ASSUME NEW top \in Nat
    PROVE  \E N : IsMultiple(N, top)
<1> DEFINE good == {n \in Nat : \E N : IsMultiple(N, n)}
<1>1. 0 \in good
  <2>1. IsMultiple(1, 0)
    BY DEF IsMultiple
  <2> QED
    BY <2>1
<1>2. ASSUME NEW n \in Nat, n \in good PROVE n + 1 \in good
  <2>1. PICK N : IsMultiple(N, n)
    BY <1>2
  <2>2. N \in Nat \ {0} /\ \A x \in 1 .. n : \E q \in Nat \ {0} : q * x = N
    BY <2>1 DEF IsMultiple
  <2> DEFINE M == N * (n + 1)
  <2>3. M \in Nat \ {0}
    BY <2>2
  <2>4. ASSUME NEW x \in 1 .. n + 1 PROVE \E q \in Nat \ {0} : q * x = M
    <3>1. CASE x = n + 1
      BY <2>2, <3>1
    <3>2. CASE x # n + 1
      <4>1. x \in 1 .. n
        BY <3>2
      <4>2. PICK q \in Nat \ {0} : q * x = N
        BY <2>2, <4>1
      <4> DEFINE r == q * (n + 1)
      <4>3. r \in Nat \ {0}
        OBVIOUS
      <4>4. r * x = (q * x) * (n + 1)
        BY <4>1
      <4>5. r * x = M
        BY <4>2, <4>4
      <4> HIDE DEF r, M
      <4> QED
        BY <4>3, <4>5
    <3> QED
      BY <3>1, <3>2
  <2> HIDE DEF M
  <2>5. IsMultiple(M, n + 1)
    BY <2>3, <2>4 DEF IsMultiple
  <2> QED
    BY <2>5
<1> HIDE DEF good
<1>3. top \in good
  BY <1>1, <1>2, AllNumbers
<1> QED
  BY <1>3 DEF good

Multiple == CHOOSE N : IsMultiple(N, Top)
Reciprocal == [x \in 1 .. Top |-> CHOOSE q \in Nat \ {0} : q * x = Multiple]

LEMMA InverseFacts ==
    /\ Multiple \in Nat \ {0}
    /\ \A x \in 1 .. Top : Reciprocal[x] \in Nat \ {0} /\ Reciprocal[x] * x = Multiple
<1>1. IsMultiple(Multiple, Top)
  <2>1. \E N : IsMultiple(N, Top)
    BY TopFacts, MultipleExists
  <2> QED
    BY <2>1 DEF Multiple
<1>2. Multiple \in Nat \ {0} /\ \A x \in 1 .. Top : \E q \in Nat \ {0} : q * x = Multiple
  BY <1>1 DEF IsMultiple
<1> QED
  BY <1>2 DEF Reciprocal

\* Between two prices the inverse falls by their distance over their product.
LEMMA InverseFalls ==
    ASSUME NEW a \in 1 .. Top, NEW b \in 1 .. Top, a <= b
    PROVE  /\ Reciprocal[a] - Reciprocal[b] \in Nat
           /\ (Reciprocal[a] - Reciprocal[b]) * (a * b) = Multiple * (b - a)
           /\ a < b => Reciprocal[b] < Reciprocal[a]
<1> DEFINE u == Reciprocal[a]
           w == Reciprocal[b]
           N == Multiple
<1>1. u \in Nat \ {0} /\ w \in Nat \ {0} /\ u * a = N /\ w * b = N /\ N \in Nat \ {0}
  BY InverseFacts
<1>0. a \in Nat \ {0} /\ b \in Nat \ {0}
  BY TopFacts
<1> HIDE DEF u, w, N
<1>2. (u - w) * (a * b) = N * (b - a)
  <2>1. (u - w) * (a * b) = (u * a) * b - (w * b) * a
    BY <1>0, <1>1
  <2>2. N * b - N * a = N * (b - a)
    BY <1>0, <1>1
  <2> QED
    BY <1>1, <2>1, <2>2
<1>3. w <= u
  <2>1. w * a <= w * b
    BY <1>0, <1>1
  <2>2. ASSUME u < w PROVE FALSE
    <3>1. u * a < w * a /\ u * a \in Int /\ w * a \in Int /\ w * b \in Int
      BY <1>0, <1>1, <2>2, MulStrict
    <3> QED
      BY <1>1, <2>1, <3>1
  <2> QED
    BY <1>1, <2>2
<1>4. a < b => w < u
  <2>1. ASSUME a < b, w = u PROVE FALSE
    <3>1. u * a < u * b
      <4>1. a * u < b * u
        BY <1>0, <1>1, <2>1, MulStrict
      <4> QED
        BY <1>0, <1>1, <4>1
    <3>2. u * a \in Int /\ u * b \in Int
      BY <1>0, <1>1
    <3> QED
      BY <1>1, <2>1, <3>1, <3>2
  <2> QED
    BY <1>1, <1>3, <2>1
<1>5. u - w \in Nat
  BY <1>1, <1>3
<1> QED
  BY <1>2, <1>4, <1>5 DEF u, w, N

\* The liquidity at a price, and its sums up to a price with a weight on each step.
DepthAt(c, x) == IF Ratio[MinTick] <= x THEN Pool!Below(c.net, Pool!TickAt(x)) ELSE 0

IsSum(F, g, top) ==
    /\ F \in [0 .. top -> Int]
    /\ F[0] = 0
    /\ \A x \in 0 .. top - 1 : F[x + 1] = F[x] + g[x]

LEMMA SumExists ==
    ASSUME NEW top \in Nat, NEW g, \A x \in 0 .. top - 1 : g[x] \in Int
    PROVE  \E F : IsSum(F, g, top)
<1> DEFINE good == {n \in Nat : n <= top => \E F : IsSum(F, g, n)}
<1>1. 0 \in good
  <2> DEFINE F == [x \in 0 .. 0 |-> 0]
  <2>1. F \in [0 .. 0 -> Int] /\ F[0] = 0
    OBVIOUS
  <2> HIDE DEF F
  <2>2. IsSum(F, g, 0)
    BY <2>1 DEF IsSum
  <2> QED
    BY <2>2
<1>2. ASSUME NEW n \in Nat, n \in good PROVE n + 1 \in good
  <2> SUFFICES ASSUME n + 1 <= top PROVE \E F : IsSum(F, g, n + 1)
    OBVIOUS
  <2>1. PICK F : IsSum(F, g, n)
    BY <1>2
  <2>2. F \in [0 .. n -> Int] /\ F[0] = 0 /\ \A x \in 0 .. n - 1 : F[x + 1] = F[x] + g[x]
    BY <2>1 DEF IsSum
  <2> DEFINE H == [x \in 0 .. n + 1 |-> IF x = n + 1 THEN F[n] + g[n] ELSE F[x]]
  <2>3. F[n] \in Int /\ g[n] \in Int
    BY <2>2
  <2>4. H \in [0 .. n + 1 -> Int]
    BY <2>2, <2>3
  <2>5. \A x \in 0 .. n : H[x] = F[x]
    OBVIOUS
  <2>6. H[n + 1] = F[n] + g[n]
    OBVIOUS
  <2> HIDE DEF H
  <2>7. ASSUME NEW x \in 0 .. (n + 1) - 1 PROVE H[x + 1] = H[x] + g[x]
    <3>1. CASE x = n
      BY <2>5, <2>6, <3>1
    <3>2. CASE x # n
      <4>1. x \in 0 .. n - 1 /\ x + 1 \in 0 .. n /\ x \in 0 .. n
        BY <3>2
      <4> QED
        BY <2>2, <2>5, <4>1
    <3> QED
      BY <3>1, <3>2
  <2>8. IsSum(H, g, n + 1)
    BY <2>2, <2>4, <2>5, <2>7 DEF IsSum
  <2> QED
    BY <2>8
<1> HIDE DEF good
<1>3. top \in good
  BY <1>1, <1>2, AllNumbers
<1> QED
  BY <1>3 DEF good

Slices(c, weight) == [x \in 0 .. Top - 1 |-> DepthAt(c, x) * (weight[x + 1] - weight[x])]
Depth(c, weight) == CHOOSE F : IsSum(F, Slices(c, weight), Top)

\* The two weights: the price, and its inverse turned to rise with it.
Weight1 == [x \in 0 .. Top |-> x]
Weight0 == [x \in 0 .. Top |-> IF x = 0 THEN 0 ELSE 0 - Reciprocal[x]]

IsWeight(weight) == weight \in [0 .. Top -> Int]

LEMMA WeightsTyped == IsWeight(Weight1) /\ IsWeight(Weight0)
<1>1. \A x \in 0 .. Top : (IF x = 0 THEN 0 ELSE 0 - Reciprocal[x]) \in Int
  BY InverseFacts, TopFacts
<1> QED
  BY <1>1, TopFacts DEF Weight1, Weight0, IsWeight

LEMMA DepthAtNat ==
    ASSUME NEW c, Chain(c), NEW x \in 0 .. Top - 1
    PROVE  DepthAt(c, x) \in Nat
<1>1. CASE Ratio[MinTick] <= x
  <2>1. x \in Nat /\ x < Ratio[MaxTick]
    BY TopFacts DEF Top
  <2>2. Pool!TickAt(x) \in MinTick .. MaxTick
    BY <1>1, <2>1, TickOfPrice
  <2> QED
    BY <1>1, <2>2 DEF DepthAt, Chain
<1>2. CASE ~(Ratio[MinTick] <= x)
  BY <1>2 DEF DepthAt
<1> QED
  BY <1>1, <1>2

LEMMA DepthFacts ==
    ASSUME NEW c, Chain(c), NEW weight, IsWeight(weight)
    PROVE  /\ Depth(c, weight) \in [0 .. Top -> Int]
           /\ \A x \in 0 .. Top - 1 : Depth(c, weight)[x + 1]
                 = Depth(c, weight)[x] + DepthAt(c, x) * (weight[x + 1] - weight[x])
<1> DEFINE g == Slices(c, weight)
<1>0. weight \in [0 .. Top -> Int]
  BY DEF IsWeight
<1>1. \A x \in 0 .. Top - 1 : /\ g[x] = DepthAt(c, x) * (weight[x + 1] - weight[x])
                              /\ g[x] \in Int
  <2>1. ASSUME NEW x \in 0 .. Top - 1
        PROVE  g[x] = DepthAt(c, x) * (weight[x + 1] - weight[x]) /\ g[x] \in Int
    <3>1. g[x] = DepthAt(c, x) * (weight[x + 1] - weight[x])
      BY DEF Slices
    <3>2. weight[x + 1] - weight[x] \in Int /\ DepthAt(c, x) \in Int
      <4>1. x \in 0 .. Top /\ x + 1 \in 0 .. Top
        BY TopFacts
      <4> QED
        BY <1>0, <4>1, DepthAtNat
    <3>3. \A a, b \in Int : a * b \in Int
      OBVIOUS
    <3> QED
      BY <3>1, <3>2, <3>3
  <2> QED
    BY <2>1
<1> HIDE DEF g
<1>2. \E F : IsSum(F, g, Top)
  BY <1>1, TopFacts, SumExists
<1>3. IsSum(Depth(c, weight), g, Top)
  BY <1>2 DEF Depth, g
<1> QED
  BY <1>1, <1>3 DEF IsSum

Even(c, a, b, liquidity) == \A x \in a .. b - 1 : DepthAt(c, x) = liquidity

\* Where the liquidity is one number, the sums are multiples of it.
LEMMA DepthEven ==
    ASSUME NEW c, Chain(c), NEW weight, IsWeight(weight), NEW a \in 0 .. Top, NEW b \in 0 .. Top,
           a <= b, NEW liquidity \in Int, Even(c, a, b, liquidity)
    PROVE  Depth(c, weight)[b] - Depth(c, weight)[a] = liquidity * (weight[b] - weight[a])
<1> DEFINE F == Depth(c, weight)
           good == {n \in Nat : a + n <= b => F[a + n] - F[a] = liquidity * (weight[a + n] - weight[a])}
<1>0. Top \in Nat /\ a \in Nat /\ b \in Nat /\ weight \in [0 .. Top -> Int]
  BY TopFacts DEF IsWeight
<1>1. /\ F \in [0 .. Top -> Int]
      /\ \A x \in 0 .. Top - 1 : F[x + 1] = F[x] + DepthAt(c, x) * (weight[x + 1] - weight[x])
  BY DepthFacts
<1> HIDE DEF F
<1>2. 0 \in good
  <2>1. a + 0 = a /\ F[a] \in Int /\ weight[a] \in Int
    BY <1>0, <1>1
  <2>2. liquidity * (weight[a] - weight[a]) = 0
    BY <2>1
  <2>3. F[a] - F[a] = 0
    BY <2>1
  <2> QED
    BY <2>1, <2>2, <2>3
<1>3. ASSUME NEW n \in Nat, n \in good PROVE n + 1 \in good
  <2> SUFFICES ASSUME a + (n + 1) <= b
               PROVE  F[a + (n + 1)] - F[a] = liquidity * (weight[a + (n + 1)] - weight[a])
    OBVIOUS
  <2> DEFINE x == a + n
  <2>1. x \in 0 .. Top - 1 /\ x \in a .. b - 1 /\ a + (n + 1) = x + 1 /\ x <= b
    BY <1>0
  <2>2. F[x] - F[a] = liquidity * (weight[x] - weight[a])
    BY <1>3, <2>1
  <2> HIDE DEF x
  <2>3. F[x + 1] = F[x] + liquidity * (weight[x + 1] - weight[x])
    BY <1>1, <2>1 DEF Even
  <2>4. /\ x \in 0 .. Top /\ x + 1 \in 0 .. Top
    BY <1>0, <2>1
  <2>5. /\ F[x] \in Int /\ F[a] \in Int
        /\ weight[x] \in Int /\ weight[x + 1] \in Int /\ weight[a] \in Int
    BY <1>0, <1>1, <2>4
  <2> DEFINE p == weight[x]
             q == weight[x + 1]
             r == weight[a]
  <2>6. liquidity * (q - p) + liquidity * (p - r) = liquidity * (q - r)
        /\ liquidity * (q - p) \in Int /\ liquidity * (p - r) \in Int
    <3> HIDE DEF p, q, r
    <3>1. p \in Int /\ q \in Int /\ r \in Int
      BY <2>5 DEF p, q, r
    <3> QED
      BY <3>1
  <2>7. F[x + 1] - F[a] = liquidity * (q - p) + liquidity * (p - r)
    <3> DEFINE u == liquidity * (q - p)
               v == liquidity * (p - r)
    <3>1. F[x + 1] = F[x] + u /\ F[x] - F[a] = v /\ u \in Int /\ v \in Int
      BY <2>2, <2>3, <2>6
    <3> HIDE DEF u, v
    <3>2. F[x + 1] - F[a] = u + v
      <4> DEFINE s == F[x]
                 t == F[x + 1]
                 o == F[a]
      <4>1. t = s + u /\ s - o = v /\ s \in Int /\ o \in Int
        BY <2>5, <3>1
      <4> HIDE DEF s, t, o
      <4>2. t - o = u + v
        BY <3>1, <4>1
      <4> QED
        BY <4>2 DEF t, o
    <3> QED
      BY <3>2 DEF u, v
  <2> QED
    BY <2>1, <2>6, <2>7
<1> DEFINE n == b - a
<1>4. n \in Nat /\ a + n = b
  BY <1>0
<1> HIDE DEF good, n
<1>5. n \in good
  BY <1>2, <1>3, <1>4, AllNumbers
<1>6. F[b] - F[a] = liquidity * (weight[b] - weight[a])
  BY <1>4, <1>5 DEF good
<1> QED
  BY <1>6 DEF F

Depth1(c) == Depth(c, Weight1)
Depth0(c) == Depth(c, Weight0)

\* Both sums rise with the price, and where one does not rise the other does not: there is no
\* liquidity in between.
LEMMA DepthRises ==
    ASSUME NEW c, Chain(c), NEW a \in 1 .. Top, NEW b \in 1 .. Top, a <= b
    PROVE  /\ Depth1(c)[a] \in Int /\ Depth1(c)[b] \in Int /\ Depth1(c)[a] <= Depth1(c)[b]
           /\ Depth0(c)[a] \in Int /\ Depth0(c)[b] \in Int /\ Depth0(c)[a] <= Depth0(c)[b]
           /\ Depth1(c)[a] = Depth1(c)[b] <=> Depth0(c)[a] = Depth0(c)[b]
<1> DEFINE F == Depth1(c)
           G == Depth0(c)
           Level(x) == /\ F[a] <= F[x] /\ G[a] <= G[x]
                       /\ F[a] = F[x] <=> G[a] = G[x]
           good == {n \in Nat : a + n <= b => Level(a + n)}
<1>0. Top \in Nat /\ a \in Nat \ {0} /\ b \in Nat \ {0}
  BY TopFacts
<1>1. /\ F \in [0 .. Top -> Int] /\ G \in [0 .. Top -> Int]
      /\ \A x \in 0 .. Top - 1 :
            /\ F[x + 1] = F[x] + DepthAt(c, x) * (Weight1[x + 1] - Weight1[x])
            /\ G[x + 1] = G[x] + DepthAt(c, x) * (Weight0[x + 1] - Weight0[x])
  BY WeightsTyped, DepthFacts DEF Depth1, Depth0
<1> HIDE DEF F, G
<1>2. 0 \in good
  <2>1. a + 0 = a /\ F[a] \in Int /\ G[a] \in Int
    BY <1>0, <1>1
  <2> QED
    BY <2>1
<1>3. ASSUME NEW n \in Nat, n \in good PROVE n + 1 \in good
  <2> SUFFICES ASSUME a + (n + 1) <= b PROVE Level(a + (n + 1))
    OBVIOUS
  <2> DEFINE x == a + n
             l == DepthAt(c, x)
             fall == Reciprocal[x] - Reciprocal[x + 1]
  <2>1. /\ x \in 0 .. Top - 1 /\ x + 1 = a + (n + 1) /\ x \in 1 .. Top /\ x + 1 \in 1 .. Top
        /\ x \in 0 .. Top /\ x + 1 \in 0 .. Top /\ x <= b /\ x < x + 1 /\ x \in Int
    BY <1>0
  <2>2. Level(x)
    BY <1>3, <2>1
  <2> HIDE DEF x
  <2>3. l \in Nat
    BY <2>1, DepthAtNat
  <2>4. fall \in Nat \ {0} /\ Reciprocal[x] \in Int /\ Reciprocal[x + 1] \in Int
    <3>1. Reciprocal[x] \in Nat /\ Reciprocal[x + 1] \in Nat /\ Reciprocal[x + 1] < Reciprocal[x]
      BY <2>1, InverseFalls, InverseFacts
    <3> QED
      BY <3>1
  <2>5. Weight1[x + 1] - Weight1[x] = 1 /\ Weight0[x + 1] - Weight0[x] = fall
    <3>1. Weight1[x + 1] = x + 1 /\ Weight1[x] = x
      BY <2>1 DEF Weight1
    <3>2. Weight0[x + 1] = 0 - Reciprocal[x + 1] /\ Weight0[x] = 0 - Reciprocal[x]
      <4>1. x # 0 /\ x + 1 # 0
        BY <2>1
      <4> QED
        BY <2>1, <4>1 DEF Weight0
    <3> QED
      BY <2>1, <2>4, <3>1, <3>2
  <2> HIDE DEF fall, l
  <2>6. F[x + 1] = F[x] + l * 1 /\ G[x + 1] = G[x] + l * fall
    BY <1>1, <2>1, <2>5 DEF l
  <2>7. /\ F[a] \in Int /\ G[a] \in Int /\ F[x] \in Int /\ G[x] \in Int
    BY <1>0, <1>1, <2>1
  <2>8. l * fall \in Nat /\ (l * fall = 0 <=> l = 0) /\ l * 1 = l
    BY <2>3, <2>4
  <2> DEFINE m == l * fall
  <2>9. m \in Nat /\ (m = 0 <=> l = 0) /\ F[x + 1] = F[x] + l /\ G[x + 1] = G[x] + m
    BY <2>6, <2>8
  <2> HIDE DEF m
  <2>10. Level(x + 1)
    BY <2>2, <2>3, <2>7, <2>9
  <2> QED
    BY <2>1, <2>10
<1> DEFINE n == b - a
<1>4. n \in Nat /\ a + n = b
  BY <1>0
<1> HIDE DEF good, n
<1>5. n \in good
  BY <1>2, <1>3, <1>4, AllNumbers
<1>6. Level(b)
  BY <1>4, <1>5 DEF good
<1>7. F[a] \in Int /\ F[b] \in Int /\ G[a] \in Int /\ G[b] \in Int
  BY <1>0, <1>1
<1> QED
  BY <1>6, <1>7 DEF F, G
-----------------------------------------------------------------------------
(* What a turn of a swap is worth.                                         *)

LEMMA CancelDown ==
    ASSUME NEW k \in Nat, NEW d \in Int, NEW m \in Nat \ {0}, NEW N \in Nat, NEW e \in Int,
           NEW used \in Int, d * m = N * e, k * e <= used * m
    PROVE  k * d <= N * used
<1>1. (k * d) * m = N * (k * e)
  <2>1. (k * d) * m = k * (d * m)
    OBVIOUS
  <2>2. k * (N * e) = N * (k * e)
    OBVIOUS
  <2> QED
    BY <2>1, <2>2
<1>2. N * (k * e) <= N * (used * m)
  <2> DEFINE a == k * e
             b == used * m
  <2>1. a \in Int /\ b \in Int /\ a <= b
    OBVIOUS
  <2> HIDE DEF a, b
  <2>2. N * a <= N * b
    BY <2>1
  <2> QED
    BY <2>2 DEF a, b
<1>3. N * (used * m) = (N * used) * m
  OBVIOUS
<1>4. (k * d) * m \in Int /\ (N * used) * m \in Int /\ k * d \in Int /\ N * used \in Int
  OBVIOUS
<1>5. ASSUME N * used < k * d PROVE FALSE
  <2> DEFINE a == N * used
             b == k * d
  <2>1. a \in Int /\ b \in Int /\ a < b
    BY <1>4, <1>5
  <2> HIDE DEF a, b
  <2>2. a * m < b * m /\ a * m \in Int /\ b * m \in Int
    BY <2>1, MulStrict
  <2>3. (N * used) * m < (k * d) * m
    BY <2>2 DEF a, b
  <2>4. (k * d) * m <= (N * used) * m
    BY <1>1, <1>2, <1>3
  <2> QED
    BY <1>4, <2>3, <2>4
<1> QED
  BY <1>4, <1>5

LEMMA CancelUp ==
    ASSUME NEW k \in Nat, NEW d \in Int, NEW m \in Nat \ {0}, NEW N \in Nat, NEW e \in Int,
           NEW out \in Int, d * m = N * e, out * m <= k * e
    PROVE  N * out <= k * d
<1>1. (k * d) * m = N * (k * e)
  <2>1. (k * d) * m = k * (d * m)
    OBVIOUS
  <2>2. k * (N * e) = N * (k * e)
    OBVIOUS
  <2> QED
    BY <2>1, <2>2
<1>2. N * (out * m) <= N * (k * e)
  <2> DEFINE a == out * m
             b == k * e
  <2>1. a \in Int /\ b \in Int /\ a <= b
    OBVIOUS
  <2> HIDE DEF a, b
  <2>2. N * a <= N * b
    BY <2>1
  <2> QED
    BY <2>2 DEF a, b
<1>3. N * (out * m) = (N * out) * m
  OBVIOUS
<1>4. (k * d) * m \in Int /\ (N * out) * m \in Int /\ k * d \in Int /\ N * out \in Int
  OBVIOUS
<1>5. ASSUME k * d < N * out PROVE FALSE
  <2> DEFINE a == k * d
             b == N * out
  <2>1. a \in Int /\ b \in Int /\ a < b
    BY <1>4, <1>5
  <2> HIDE DEF a, b
  <2>2. a * m < b * m /\ a * m \in Int /\ b * m \in Int
    BY <2>1, MulStrict
  <2>3. (k * d) * m < (N * out) * m
    BY <2>2 DEF a, b
  <2>4. (N * out) * m <= (k * d) * m
    BY <1>1, <1>2, <1>3
  <2> QED
    BY <1>4, <2>3, <2>4
<1> QED
  BY <1>4, <1>5

\* What a trader has of the second token with what the pool would pay of it down to the least
\* price, scaled; and of the first, less what the pool would then take of it.
Worth1(c, amount, price) == One * amount + Depth1(c)[price]
Worth0(c, amount, price) == Multiple * amount - One * Depth0(c)[price]

\* A move over one liquidity from p to q, of which the exact amounts are these.
LEMMA EvenMove ==
    ASSUME NEW c, Chain(c), NEW p \in 1 .. Top, NEW q \in 1 .. Top, p <= q,
           NEW liquidity \in Nat, Even(c, p, q, liquidity)
    PROVE  /\ Depth1(c)[p] \in Int /\ Depth1(c)[q] \in Int
           /\ Depth0(c)[p] \in Int /\ Depth0(c)[q] \in Int
           /\ Depth1(c)[q] - Depth1(c)[p] = liquidity * (q - p)
           /\ Depth0(c)[q] - Depth0(c)[p] = liquidity * (Reciprocal[p] - Reciprocal[q])
<1>1. p \in 0 .. Top /\ q \in 0 .. Top /\ p # 0 /\ q # 0 /\ liquidity \in Int
  BY TopFacts
<1>2. Weight1[q] - Weight1[p] = q - p
  BY <1>1 DEF Weight1
<1>3. Weight0[q] - Weight0[p] = Reciprocal[p] - Reciprocal[q]
  <2>1. Weight0[q] = 0 - Reciprocal[q] /\ Weight0[p] = 0 - Reciprocal[p]
    BY <1>1 DEF Weight0
  <2>2. Reciprocal[p] \in Int /\ Reciprocal[q] \in Int
    BY InverseFacts
  <2> QED
    BY <2>1, <2>2
<1>4. /\ Depth1(c)[q] - Depth1(c)[p] = liquidity * (Weight1[q] - Weight1[p])
      /\ Depth0(c)[q] - Depth0(c)[p] = liquidity * (Weight0[q] - Weight0[p])
  <2>1. ASSUME NEW weight, IsWeight(weight)
        PROVE  Depth(c, weight)[q] - Depth(c, weight)[p] = liquidity * (weight[q] - weight[p])
    BY <1>1, <2>1, DepthEven
  <2>2. Depth(c, Weight1)[q] - Depth(c, Weight1)[p] = liquidity * (Weight1[q] - Weight1[p])
    BY <2>1, WeightsTyped
  <2>3. Depth(c, Weight0)[q] - Depth(c, Weight0)[p] = liquidity * (Weight0[q] - Weight0[p])
    BY <2>1, WeightsTyped
  <2> QED
    BY <2>2, <2>3 DEF Depth1, Depth0
<1> QED
  BY <1>2, <1>3, <1>4, DepthRises

\* Downwards the trader gives of the first token and gets of the second.
LEMMA DownWorth ==
    ASSUME NEW c, Chain(c), NEW p \in 1 .. Top, NEW step, step.price \in 1 .. Top,
           NEW liquidity \in Nat, DownFair(step, p, liquidity),
           Even(c, step.price, p, liquidity),
           NEW remaining \in Int, NEW out \in Int
    PROVE  /\ Worth1(c, out + step.out, step.price) <= Worth1(c, out, p)
           /\ Worth0(c, remaining - step.in - step.fee, step.price) <= Worth0(c, remaining, p)
           /\ step.in + step.fee \in Nat /\ step.out \in Nat
<1> DEFINE q == step.price
           k == liquidity * One
           used == step.in + step.fee
           d == Reciprocal[q] - Reciprocal[p]
           got1 == step.out
<1>1. /\ q \in Nat \ {0} /\ q <= p /\ used \in Nat /\ got1 \in Nat
      /\ k * (p - q) <= used * (p * q) /\ One * got1 <= liquidity * (p - q)
  BY DEF DownFair
<1>2. One \in Nat \ {0} /\ k \in Nat /\ p \in Nat \ {0} /\ Multiple \in Nat \ {0}
  BY TickConstants, LiquidityTimes, TopFacts, InverseFacts
<1> HIDE DEF q
<1>3. /\ Depth1(c)[p] \in Int /\ Depth1(c)[q] \in Int
      /\ Depth0(c)[p] \in Int /\ Depth0(c)[q] \in Int
      /\ Depth1(c)[p] - Depth1(c)[q] = liquidity * (p - q)
      /\ Depth0(c)[p] - Depth0(c)[q] = liquidity * d
  <2>1. q \in 1 .. Top /\ Even(c, q, p, liquidity)
    BY DEF q
  <2> QED
    BY <1>1, <2>1, EvenMove
<1>4. d \in Nat /\ d * (q * p) = Multiple * (p - q)
  <2>1. q \in 1 .. Top
    BY DEF q
  <2> QED
    BY <1>1, <2>1, InverseFalls
<1> HIDE DEF d, k, used, got1
<1>5. d * (p * q) = Multiple * (p - q)
  <2>1. q * p = p * q
    BY <1>1, <1>2
  <2> QED
    BY <1>4, <2>1
<1>6. k * d <= Multiple * used
  <2>1. p * q \in Nat \ {0} /\ p - q \in Int
    BY <1>1, <1>2
  <2> DEFINE m == p * q
             e == p - q
  <2> HIDE DEF m, e
  <2>2. d * m = Multiple * e /\ k * e <= used * m /\ m \in Nat \ {0} /\ e \in Int
    BY <1>1, <1>5, <2>1 DEF m, e
  <2> QED
    BY <1>1, <1>2, <1>4, <2>2, CancelDown
<1>7. k * d = One * (liquidity * d)
  BY <1>2, <1>4 DEF k
<1>8. One * (out + got1) + Depth1(c)[q] <= One * out + Depth1(c)[p]
  <2> DEFINE f == Depth1(c)[p]
             g == Depth1(c)[q]
             move == liquidity * (p - q)
  <2>1. f \in Int /\ g \in Int /\ f - g = move
    BY <1>3
  <2>2. One * (out + got1) = One * out + One * got1 /\ One * out \in Int /\ One * got1 \in Int
    BY <1>1, <1>2
  <2> DEFINE u == One * out
             v == One * got1
  <2> HIDE DEF f, g, move, u, v
  <2>3. v <= move /\ u \in Int /\ v \in Int
    BY <1>1, <2>2 DEF move, u, v
  <2>4. u + v + g <= u + f
    BY <2>1, <2>3
  <2> QED
    BY <2>2, <2>4 DEF u, v, f, g
<1>9. Multiple * (remaining - used) - One * Depth0(c)[q]
        <= Multiple * remaining - One * Depth0(c)[p]
  <2> DEFINE f == Depth0(c)[p]
             g == Depth0(c)[q]
             move == liquidity * d
  <2>1. f \in Int /\ g \in Int /\ f - g = move
    BY <1>3
  <2> HIDE DEF f, g, move
  <2>2. One * f - One * g = One * move /\ One * f \in Int /\ One * g \in Int
    BY <1>2, <2>1
  <2>3. Multiple * (remaining - used) = Multiple * remaining - Multiple * used
        /\ Multiple * remaining \in Int /\ Multiple * used \in Int
    BY <1>1, <1>2
  <2>4. One * move <= Multiple * used
    BY <1>6, <1>7 DEF move
  <2> DEFINE u == Multiple * remaining
             v == Multiple * used
             a == One * f
             b == One * g
             o == One * move
  <2>5. u \in Int /\ v \in Int /\ a \in Int /\ b \in Int /\ a - b = o /\ o <= v
    BY <2>2, <2>3, <2>4
  <2> HIDE DEF u, v, a, b, o
  <2>6. (u - v) - b <= u - a
    BY <2>5
  <2> QED
    BY <2>3, <2>6 DEF u, v, a, b, f, g
<1>10. remaining - step.in - step.fee = remaining - used
  BY DEF used, DownFair
<1> QED
  BY <1>1, <1>8, <1>9, <1>10 DEF Worth1, Worth0, used, got1, q

\* Upwards the other way round.
LEMMA UpWorth ==
    ASSUME NEW c, Chain(c), NEW p \in 1 .. Top, NEW step, step.price \in 1 .. Top,
           NEW liquidity \in Nat, UpFair(step, p, liquidity),
           Even(c, p, step.price, liquidity),
           NEW remaining \in Int, NEW out \in Int
    PROVE  /\ Worth1(c, remaining - step.in - step.fee, step.price) <= Worth1(c, remaining, p)
           /\ Worth0(c, out + step.out, step.price) <= Worth0(c, out, p)
           /\ step.in + step.fee \in Nat /\ step.out \in Nat
<1> DEFINE q == step.price
           k == liquidity * One
           used == step.in + step.fee
           d == Reciprocal[p] - Reciprocal[q]
           got0 == step.out
<1>1. /\ q \in Nat \ {0} /\ p <= q /\ used \in Nat /\ got0 \in Nat
      /\ liquidity * (q - p) <= One * used /\ got0 * (p * q) <= k * (q - p)
  BY DEF UpFair
<1>2. One \in Nat \ {0} /\ k \in Nat /\ p \in Nat \ {0} /\ Multiple \in Nat \ {0}
  BY TickConstants, LiquidityTimes, TopFacts, InverseFacts
<1> HIDE DEF q
<1>3. /\ Depth1(c)[p] \in Int /\ Depth1(c)[q] \in Int
      /\ Depth0(c)[p] \in Int /\ Depth0(c)[q] \in Int
      /\ Depth1(c)[q] - Depth1(c)[p] = liquidity * (q - p)
      /\ Depth0(c)[q] - Depth0(c)[p] = liquidity * d
  <2>1. q \in 1 .. Top /\ Even(c, p, q, liquidity)
    BY DEF q
  <2> QED
    BY <1>1, <2>1, EvenMove
<1>4. d \in Nat /\ d * (p * q) = Multiple * (q - p)
  <2>1. q \in 1 .. Top
    BY DEF q
  <2> QED
    BY <1>1, <2>1, InverseFalls
<1> HIDE DEF d, k, used, got0
<1>6. Multiple * got0 <= k * d
  <2>1. p * q \in Nat \ {0} /\ q - p \in Int
    BY <1>1, <1>2
  <2> DEFINE m == p * q
             e == q - p
  <2> HIDE DEF m, e
  <2>2. d * m = Multiple * e /\ got0 * m <= k * e /\ m \in Nat \ {0} /\ e \in Int
    BY <1>1, <1>4, <2>1 DEF m, e
  <2> QED
    BY <1>1, <1>2, <1>4, <2>2, CancelUp
<1>7. k * d = One * (liquidity * d)
  BY <1>2, <1>4 DEF k
<1>8. One * (remaining - used) + Depth1(c)[q] <= One * remaining + Depth1(c)[p]
  <2> DEFINE f == Depth1(c)[p]
             g == Depth1(c)[q]
             move == liquidity * (q - p)
  <2>1. f \in Int /\ g \in Int /\ g - f = move
    BY <1>3
  <2>2. One * (remaining - used) = One * remaining - One * used
        /\ One * remaining \in Int /\ One * used \in Int
    BY <1>1, <1>2
  <2> DEFINE u == One * remaining
             v == One * used
  <2> HIDE DEF f, g, move, u, v
  <2>3. move <= v /\ u \in Int /\ v \in Int
    BY <1>1, <2>2 DEF move, u, v
  <2>4. (u - v) + g <= u + f
    BY <2>1, <2>3
  <2> QED
    BY <2>2, <2>4 DEF u, v, f, g
<1>9. Multiple * (out + got0) - One * Depth0(c)[q] <= Multiple * out - One * Depth0(c)[p]
  <2> DEFINE f == Depth0(c)[p]
             g == Depth0(c)[q]
             move == liquidity * d
  <2>1. f \in Int /\ g \in Int /\ g - f = move
    BY <1>3
  <2> HIDE DEF f, g, move
  <2>2. One * g - One * f = One * move /\ One * f \in Int /\ One * g \in Int
    BY <1>2, <2>1
  <2>3. Multiple * (out + got0) = Multiple * out + Multiple * got0
        /\ Multiple * out \in Int /\ Multiple * got0 \in Int
    BY <1>1, <1>2
  <2>4. Multiple * got0 <= One * move
    BY <1>6, <1>7 DEF move
  <2> DEFINE u == Multiple * out
             v == Multiple * got0
             a == One * f
             b == One * g
             o == One * move
  <2>5. u \in Int /\ v \in Int /\ a \in Int /\ b \in Int /\ b - a = o /\ v <= o
    BY <2>2, <2>3, <2>4
  <2> HIDE DEF u, v, a, b, o
  <2>6. (u + v) - b <= u - a
    BY <2>5
  <2> QED
    BY <2>3, <2>6 DEF u, v, a, b, f, g
<1>10. remaining - step.in - step.fee = remaining - used
  BY DEF used, UpFair
<1> QED
  BY <1>1, <1>8, <1>9, <1>10 DEF Worth1, Worth0, used, got0, q

\* A turn moves the price over one liquidity.
LEMMA DownSpan ==
    ASSUME NEW c, Chain(c), NEW z \in BOOLEAN, z, NEW walk, OnTheWay(c, z, walk)
    PROVE  LET step == StepOf(c, z, walk, NextIn(c, z, walk)) IN
           /\ DownFair(step, walk.price, walk.liquidity)
           /\ Even(c, step.price, walk.price, walk.liquidity)
           /\ step.price \in 1 .. Top /\ walk.price \in 1 .. Top
<1> DEFINE next == NextIn(c, z, walk)
           nets == DOMAIN c.net
           tick == TickOf(next)
           target == TargetOf(z, tick)
           step == StepOf(c, z, walk, next)
           np == step.price
<1>1. /\ walk.price \in Nat \ {0} /\ walk.price < Ratio[MaxTick] /\ Ratio[MinTick] < walk.price
      /\ walk.tick \in MinTick .. MaxTick /\ walk.tick + 1 \in MinTick .. MaxTick
      /\ walk.price <= Ratio[walk.tick + 1] /\ walk.remaining \in Nat
      /\ walk.liquidity \in Nat /\ walk.liquidity = Pool!Below(c.net, walk.tick)
      /\ c.version \in Versions
  BY WayFacts
<1>2. /\ next.tick \in Int /\ \A t \in nets : ~(next.tick < t /\ t <= walk.tick)
      /\ tick \in MinTick .. MaxTick /\ tick <= walk.tick /\ next.tick <= tick
      /\ Ratio[tick] \in Nat \ {0} /\ Ratio[MinTick] \in Nat \ {0}
      /\ target \in Nat \ {0} /\ Ratio[tick] <= target /\ Ratio[MinTick] < target
      /\ target <= walk.price
      /\ np \in Nat \ {0} /\ target <= np /\ np <= walk.price
  BY DownTarget
<1>3. DownFair(step, walk.price, walk.liquidity)
  <2> HIDE DEF target
  <2>1. Pool!StepFee(c, z) \in 0 .. Pool!Pips
    BY FeeOfChain
  <2>2. DownFair(Pool!SwapStep(c.version, walk.price, target, walk.liquidity, walk.remaining,
                               Pool!StepFee(c, z)), walk.price, walk.liquidity)
    BY <1>1, <1>2, <2>1, StepDown
  <2> QED
    BY <2>2 DEF StepOf, target
<1>4. MinTick \in Int /\ MaxTick \in Int /\ nets \subseteq Int
  BY TickConstants DEF Chain, Book
<1> HIDE DEF next, tick, target, step, np, nets
<1>5. ASSUME NEW x \in np .. walk.price - 1 PROVE DepthAt(c, x) = walk.liquidity
  <2> DEFINE at == Pool!TickAt(x)
  <2>1. x \in Nat /\ Ratio[MinTick] <= x /\ Ratio[tick] <= x /\ x < walk.price
    BY <1>1, <1>2
  <2>2. x < Ratio[MaxTick]
    <3>1. Ratio[MaxTick] \in Nat
      BY TopFacts DEF Top
    <3> QED
      BY <1>1, <2>1, <3>1
  <2>3. at \in MinTick .. MaxTick /\ at < MaxTick /\ Ratio[at] <= x /\ x < Ratio[at + 1]
    BY <2>1, <2>2, TickOfPrice
  <2> HIDE DEF at
  <2>4. at \in Int /\ at + 1 \in MinTick .. MaxTick /\ tick \in Int /\ walk.tick \in Int
    BY <1>1, <1>2, <1>4, <2>3
  <2>5. Ratio[at] \in Nat /\ Ratio[at + 1] \in Nat /\ Ratio[walk.tick + 1] \in Nat
    BY <1>1, <2>3, <2>4, TickConstants
  <2>6. tick <= at
    <3>1. Ratio[tick] < Ratio[at + 1]
      BY <1>2, <2>1, <2>3, <2>5
    <3>2. tick < at + 1
      BY <1>2, <2>4, <3>1, RatioBack
    <3> QED
      BY <2>4, <3>2
  <2>7. at <= walk.tick
    <3>1. Ratio[at] < Ratio[walk.tick + 1]
      BY <1>1, <2>1, <2>3, <2>5
    <3>2. at < walk.tick + 1
      BY <1>1, <2>3, <3>1, RatioBack
    <3> QED
      BY <2>4, <3>2
  <2>8. \A t \in nets : ~(at < t /\ t <= walk.tick)
    <3>1. ASSUME NEW t \in nets, at < t, t <= walk.tick PROVE FALSE
      <4>1. next.tick < t
        BY <1>2, <1>4, <2>4, <2>6, <3>1
      <4> QED
        BY <1>2, <3>1, <4>1
    <3> QED
      BY <3>1
  <2>9. Pool!Below(c.net, at) = Pool!Below(c.net, walk.tick)
    BY <1>4, <2>4, <2>7, <2>8, BelowSame DEF nets
  <2> QED
    BY <1>1, <2>1, <2>9 DEF DepthAt, at
<1>6. np \in 1 .. Top /\ walk.price \in 1 .. Top
  BY <1>1, <1>2, TopFacts DEF Top
<1> QED
  BY <1>3, <1>5, <1>6 DEF Even, step, np, next

LEMMA UpSpan ==
    ASSUME NEW c, Chain(c), NEW z \in BOOLEAN, ~z, NEW walk, OnTheWay(c, z, walk)
    PROVE  LET step == StepOf(c, z, walk, NextIn(c, z, walk)) IN
           /\ UpFair(step, walk.price, walk.liquidity)
           /\ Even(c, walk.price, step.price, walk.liquidity)
           /\ step.price \in 1 .. Top /\ walk.price \in 1 .. Top
<1> DEFINE next == NextIn(c, z, walk)
           nets == DOMAIN c.net
           tick == TickOf(next)
           target == TargetOf(z, tick)
           step == StepOf(c, z, walk, next)
           np == step.price
<1>1. /\ walk.price \in Nat \ {0} /\ walk.price < Ratio[MaxTick] /\ Ratio[MinTick] <= walk.price
      /\ walk.tick \in MinTick .. MaxTick /\ Ratio[walk.tick] <= walk.price
      /\ walk.remaining \in Nat
      /\ walk.liquidity \in Nat /\ walk.liquidity = Pool!Below(c.net, walk.tick)
      /\ c.version \in Versions
  BY WayFacts
<1>2. /\ next.tick \in Int /\ \A t \in nets : ~(walk.tick < t /\ t < next.tick)
      /\ tick \in MinTick .. MaxTick /\ tick <= next.tick
      /\ Ratio[tick] \in Nat \ {0} /\ Ratio[MaxTick] \in Nat \ {0}
      /\ target \in Nat \ {0} /\ target <= Ratio[tick] /\ target < Ratio[MaxTick]
      /\ walk.price <= target
      /\ np \in Nat \ {0} /\ walk.price <= np /\ np <= target
  BY UpTarget
<1>3. UpFair(step, walk.price, walk.liquidity)
  <2> HIDE DEF target
  <2>1. Pool!StepFee(c, z) \in 0 .. Pool!Pips
    BY FeeOfChain
  <2>2. UpFair(Pool!SwapStep(c.version, walk.price, target, walk.liquidity, walk.remaining,
                             Pool!StepFee(c, z)), walk.price, walk.liquidity)
    BY <1>1, <1>2, <2>1, StepUp
  <2> QED
    BY <2>2 DEF StepOf, target
<1>4. MinTick \in Int /\ MaxTick \in Int /\ nets \subseteq Int
  BY TickConstants DEF Chain, Book
<1> HIDE DEF next, tick, target, step, np, nets
<1>5. ASSUME NEW x \in walk.price .. np - 1 PROVE DepthAt(c, x) = walk.liquidity
  <2> DEFINE at == Pool!TickAt(x)
  <2>0. Ratio[MinTick] \in Nat
    BY TopFacts
  <2>1. x \in Nat /\ Ratio[MinTick] <= x /\ walk.price <= x /\ x < Ratio[tick] /\ x < Ratio[MaxTick]
    BY <1>1, <1>2, <2>0
  <2>3. at \in MinTick .. MaxTick /\ at < MaxTick /\ Ratio[at] <= x /\ x < Ratio[at + 1]
    BY <2>1, TickOfPrice
  <2> HIDE DEF at
  <2>4. at \in Int /\ at + 1 \in MinTick .. MaxTick /\ tick \in Int /\ walk.tick \in Int
    BY <1>1, <1>2, <1>4, <2>3
  <2>5. Ratio[at] \in Nat /\ Ratio[at + 1] \in Nat /\ Ratio[walk.tick] \in Nat
    BY <1>1, <2>3, <2>4, TickConstants
  <2>6. at < tick
    <3>1. Ratio[at] < Ratio[tick]
      BY <1>2, <2>1, <2>3, <2>5
    <3> QED
      BY <1>2, <2>3, <3>1, RatioBack
  <2>7. walk.tick <= at
    <3>1. Ratio[walk.tick] < Ratio[at + 1]
      BY <1>1, <2>1, <2>3, <2>5
    <3>2. walk.tick < at + 1
      BY <1>1, <2>4, <3>1, RatioBack
    <3> QED
      BY <2>4, <3>2
  <2>8. \A t \in nets : ~(walk.tick < t /\ t <= at)
    <3>1. ASSUME NEW t \in nets, walk.tick < t, t <= at PROVE FALSE
      <4>1. t < next.tick
        BY <1>2, <1>4, <2>4, <2>6, <3>1
      <4> QED
        BY <1>2, <3>1, <4>1
    <3> QED
      BY <3>1
  <2>9. Pool!Below(c.net, walk.tick) = Pool!Below(c.net, at)
    BY <1>4, <2>4, <2>7, <2>8, BelowSame DEF nets
  <2> QED
    BY <1>1, <2>1, <2>9 DEF DepthAt, at
<1>6. np \in 1 .. Top /\ walk.price \in 1 .. Top
  BY <1>1, <1>2, TopFacts DEF Top
<1> QED
  BY <1>3, <1>5, <1>6 DEF Even, step, np, next
-----------------------------------------------------------------------------
(* What a swap is worth.                                                   *)

\* What a walk has of either token: input left and output bought.
Of1(z, walk) == IF z THEN walk.out ELSE walk.remaining
Of0(z, walk) == IF z THEN walk.remaining ELSE walk.out

\* A walk b that is worth no more than a, of either token.
NoRicher(c, z, a, b) ==
    /\ Worth1(c, Of1(z, b), b.price) <= Worth1(c, Of1(z, a), a.price)
    /\ Worth0(c, Of0(z, b), b.price) <= Worth0(c, Of0(z, a), a.price)

LEMMA WorthTyped ==
    ASSUME NEW c, Chain(c), NEW amount \in Int, NEW price \in 1 .. Top
    PROVE  Worth1(c, amount, price) \in Int /\ Worth0(c, amount, price) \in Int
<1> DEFINE f == Depth1(c)[price]
           g == Depth0(c)[price]
<1>1. f \in Int /\ g \in Int
  <2>1. price <= price
    BY TopFacts
  <2> QED
    BY <2>1, DepthRises
<1>2. One \in Int /\ Multiple \in Int
  BY TickConstants, InverseFacts
<1> HIDE DEF f, g
<1>3. One * amount + f \in Int /\ Multiple * amount - One * g \in Int
  BY <1>1, <1>2
<1> QED
  BY <1>3 DEF Worth1, Worth0, f, g

LEMMA PlacedPrice ==
    ASSUME NEW c, NEW z \in BOOLEAN, NEW walk, OnTheWay(c, z, walk)
    PROVE  walk.price \in 1 .. Top /\ walk.remaining \in Int
<1>1. walk.price \in Nat /\ Ratio[MinTick] <= walk.price /\ walk.price < Ratio[MaxTick]
      /\ walk.remaining \in Nat
  BY DEF OnTheWay, Placed
<1> QED
  BY <1>1, TopFacts DEF Top

LEMMA RicherOrder ==
    ASSUME NEW c, Chain(c), NEW z \in BOOLEAN, NEW a, NEW b, NEW d,
           OnTheWay(c, z, a), OnTheWay(c, z, b), OnTheWay(c, z, d),
           a.out \in Int, b.out \in Int, d.out \in Int,
           NoRicher(c, z, a, b), NoRicher(c, z, b, d)
    PROVE  NoRicher(c, z, a, d)
<1>1. ASSUME NEW w, OnTheWay(c, z, w), w.out \in Int
      PROVE  Worth1(c, Of1(z, w), w.price) \in Int /\ Worth0(c, Of0(z, w), w.price) \in Int
  <2>1. w.price \in 1 .. Top /\ Of1(z, w) \in Int /\ Of0(z, w) \in Int
    BY <1>1, PlacedPrice DEF Of1, Of0
  <2> QED
    BY <2>1, WorthTyped
<1>2. /\ Worth1(c, Of1(z, a), a.price) \in Int /\ Worth0(c, Of0(z, a), a.price) \in Int
      /\ Worth1(c, Of1(z, b), b.price) \in Int /\ Worth0(c, Of0(z, b), b.price) \in Int
      /\ Worth1(c, Of1(z, d), d.price) \in Int /\ Worth0(c, Of0(z, d), d.price) \in Int
  BY <1>1
<1> QED
  BY <1>2 DEF NoRicher

\* A turn makes nobody richer.
LEMMA TurnWorth ==
    ASSUME NEW c, Chain(c), NEW z \in BOOLEAN, NEW walk, OnTheWay(c, z, walk), walk.out \in Int
    PROVE  LET turn == TurnTo(c, z, walk, NextIn(c, z, walk)) IN
           NoRicher(c, z, walk, turn) /\ turn.out \in Int
<1> DEFINE next == NextIn(c, z, walk)
           turn == TurnTo(c, z, walk, next)
           step == StepOf(c, z, walk, next)
<1>1. /\ turn.price = step.price
      /\ turn.remaining = walk.remaining - step.in - step.fee
      /\ turn.out = walk.out + step.out
  <2> DEFINE tick == TickOf(next)
             after == Pool!TickAfter(z, walk, tick, step.price)
             depth == IF step.price = Ratio[tick] /\ next.initialized
                        THEN Pool!Crossed(z, walk.liquidity, c.net[tick]) ELSE walk.liquidity
  <2>1. turn = [ok |-> TRUE, price |-> step.price, tick |-> after, liquidity |-> depth,
                remaining |-> walk.remaining - step.in - step.fee,
                out |-> walk.out + step.out]
    BY DEF TurnTo
  <2> HIDE DEF turn, step, after, depth
  <2> QED
    BY <2>1
<1>2. walk.price \in 1 .. Top /\ walk.remaining \in Int /\ walk.liquidity \in Nat
  BY PlacedPrice, WayFacts
<1>3. CASE z
  <2>1. /\ DownFair(step, walk.price, walk.liquidity)
        /\ Even(c, step.price, walk.price, walk.liquidity)
        /\ step.price \in 1 .. Top
    BY <1>3, DownSpan
  <2> HIDE DEF step, turn, next
  <2>2. /\ Worth1(c, walk.out + step.out, step.price) <= Worth1(c, walk.out, walk.price)
        /\ Worth0(c, walk.remaining - step.in - step.fee, step.price)
             <= Worth0(c, walk.remaining, walk.price)
        /\ step.out \in Nat
    BY <1>2, <2>1, DownWorth
  <2>3. turn.out \in Int
    BY <1>1, <2>2
  <2>4. /\ Of1(z, turn) = walk.out + step.out
        /\ Of0(z, turn) = walk.remaining - step.in - step.fee
        /\ Of1(z, walk) = walk.out /\ Of0(z, walk) = walk.remaining
    BY <1>1, <1>3 DEF Of1, Of0
  <2>5. NoRicher(c, z, walk, turn)
    BY <1>1, <2>2, <2>4 DEF NoRicher
  <2> QED
    BY <2>3, <2>5 DEF turn, next
<1>4. CASE ~z
  <2>1. /\ UpFair(step, walk.price, walk.liquidity)
        /\ Even(c, walk.price, step.price, walk.liquidity)
        /\ step.price \in 1 .. Top
    BY <1>4, UpSpan
  <2> HIDE DEF step, turn, next
  <2>2. /\ Worth1(c, walk.remaining - step.in - step.fee, step.price)
             <= Worth1(c, walk.remaining, walk.price)
        /\ Worth0(c, walk.out + step.out, step.price) <= Worth0(c, walk.out, walk.price)
        /\ step.out \in Nat
    BY <1>2, <2>1, UpWorth
  <2>3. turn.out \in Int
    BY <1>1, <2>2
  <2>4. /\ Of0(z, turn) = walk.out + step.out
        /\ Of1(z, turn) = walk.remaining - step.in - step.fee
        /\ Of0(z, walk) = walk.out /\ Of1(z, walk) = walk.remaining
    BY <1>1, <1>4 DEF Of1, Of0
  <2>5. NoRicher(c, z, walk, turn)
    BY <1>1, <2>2, <2>4 DEF NoRicher
  <2> QED
    BY <2>3, <2>5 DEF turn, next
<1> QED
  BY <1>3, <1>4

\* Nor do the turns of a swap.
LEMMA WalkWorth ==
    ASSUME NEW c, Chain(c), NEW p, Shows(c, p),
           NEW z \in BOOLEAN, NEW start, OnTheWay(c, z, start), start.out \in Int,
           Pool!Walk(p, z, start).ok
    PROVE  /\ NoRicher(c, z, start, Pool!Walk(p, z, start))
           /\ Pool!Walk(p, z, start).out \in Int
           /\ OnTheWay(c, z, Pool!Walk(p, z, start))
<1> DEFINE N == Pool!TurnLimit(c.version)
           g == WalksOf(p, z, start, N)
           Fair(walk) == /\ NoRicher(c, z, start, walk) /\ walk.out \in Int
                         /\ OnTheWay(c, z, walk)
           good == {n \in Nat : n <= N /\ g[n].ok => Fair(g[n])}
<1>1. N \in Nat
  BY TickConstants DEF Pool!TurnLimit
<1>2. Pool!Walk(p, z, start) = g[N]
  <2>1. p.version = c.version
    BY DEF Shows
  <2> QED
    BY <2>1, WalkTurn
<1> HIDE DEF N
<1>3. /\ g[0] = start
      /\ \A n \in Nat : n + 1 <= N => g[n + 1] = Turn(p, z, g[n])
  BY <1>1, WalksFacts
<1> HIDE DEF g
<1>4. Fair(start)
  <2>1. start.price \in 1 .. Top /\ Of1(z, start) \in Int /\ Of0(z, start) \in Int
    BY PlacedPrice DEF Of1, Of0
  <2>2. Worth1(c, Of1(z, start), start.price) \in Int /\ Worth0(c, Of0(z, start), start.price) \in Int
    BY <2>1, WorthTyped
  <2> QED
    BY <2>2 DEF NoRicher
<1>5. 0 \in good
  BY <1>3, <1>4
<1>6. ASSUME NEW n \in Nat, n \in good PROVE n + 1 \in good
  <2>1. ASSUME n + 1 <= N, g[n + 1].ok PROVE Fair(g[n + 1])
    <3> DEFINE walk == g[n]
    <3>1. n <= N /\ g[n + 1] = Turn(p, z, walk)
      BY <1>1, <1>3, <2>1
    <3>2. walk.ok => Fair(walk)
      BY <1>6, <3>1
    <3> HIDE DEF walk
    <3>3. CASE ~Pool!Goes(z, walk)
      <4>1. g[n + 1] = walk
        BY <3>1, <3>3 DEF Turn
      <4> QED
        BY <2>1, <3>2, <4>1
    <3>4. CASE Pool!Goes(z, walk)
      <4>1. Fair(walk)
        BY <3>2, <3>4 DEF Pool!Goes
      <4>2. g[n + 1] = Pool!Advance(p, z, walk)
        BY <3>1, <3>4 DEF Turn
      <4> DEFINE turn == TurnTo(c, z, walk, NextIn(c, z, walk))
      <4>3. g[n + 1] = turn
        BY <2>1, <4>2, TurnShown
      <4>4. OnTheWay(c, z, turn)
        BY <4>1, TurnKeeps
      <4>5. NoRicher(c, z, walk, turn) /\ turn.out \in Int
        BY <4>1, TurnWorth
      <4> HIDE DEF turn
      <4>6. NoRicher(c, z, start, turn)
        BY <4>1, <4>4, <4>5, RicherOrder
      <4> QED
        BY <4>3, <4>4, <4>5, <4>6
    <3> QED
      BY <3>3, <3>4
  <2> QED
    BY <2>1
<1>7. g[N].ok => Fair(g[N])
  <2> HIDE DEF good, Fair
  <2>1. N \in good
    BY <1>1, <1>5, <1>6, AllNumbers
  <2> QED
    BY <1>1, <2>1 DEF good
<1> QED
  BY <1>2, <1>7

\* A swap of the first token, and of the second.
Sold(c, p, swap, amount) ==
    /\ Worth1(c, swap.out, swap.next.price) <= Worth1(c, 0, p.price)
    /\ Worth0(c, 0, swap.next.price) <= Worth0(c, amount, p.price)
Bought(c, p, swap, amount) ==
    /\ Worth1(c, 0, swap.next.price) <= Worth1(c, amount, p.price)
    /\ Worth0(c, swap.out, swap.next.price) <= Worth0(c, 0, p.price)

LEMMA SwapWorth ==
    ASSUME NEW c, Chain(c), NEW p, LoadedFrom(c, p), Placed(c, p),
           NEW z \in BOOLEAN, NEW amount \in Nat, Pool!TickSwap(p, z, amount).ok
    PROVE  LET swap == Pool!TickSwap(p, z, amount) IN
           /\ swap.out \in Int /\ swap.next.price \in 1 .. Top
           /\ IF z THEN Sold(c, p, swap, amount) ELSE Bought(c, p, swap, amount)
<1>1. p.price \in 1 .. Top
  <2>1. p.price \in Nat /\ Ratio[MinTick] <= p.price /\ p.price < Ratio[MaxTick]
    BY DEF Placed
  <2> QED
    BY <2>1, TopFacts DEF Top
<1>2. CASE amount = 0
  <2> DEFINE swap == Pool!TickSwap(p, z, amount)
  <2>1. swap = [ok |-> TRUE, out |-> 0, next |-> p]
    BY <1>2, SwapParts
  <2>2. swap.out = 0 /\ swap.next = p
    BY <2>1
  <2>3. Worth1(c, 0, p.price) \in Int /\ Worth0(c, 0, p.price) \in Int
    BY <1>1, WorthTyped
  <2> HIDE DEF swap
  <2>4. swap.out \in Int /\ swap.next.price \in 1 .. Top
        /\ Sold(c, p, swap, amount) /\ Bought(c, p, swap, amount)
    BY <1>1, <1>2, <2>2, <2>3 DEF Sold, Bought
  <2> QED
    BY <2>4 DEF swap
<1>3. CASE amount # 0
  <2> DEFINE start == StartOf(p, amount)
             walk == Pool!Walk(p, z, start)
             swap == Pool!TickSwap(p, z, amount)
  <2>1. Shows(c, p) /\ PoolFields \subseteq DOMAIN p
    BY DEF LoadedFrom
  <2>2. MayStart(p, z) /\ walk.ok /\ walk.remaining = 0
    <3>1. ASSUME ~(MayStart(p, z) /\ walk.ok /\ walk.remaining = 0) PROVE FALSE
      <4>1. Pool!TickSwap(p, z, amount) = Pool!Refusal
        BY <1>3, <3>1, SwapParts
      <4>2. ~Pool!TickSwap(p, z, amount).ok
        BY <4>1 DEF Pool!Refusal
      <4> QED
        BY <4>2
    <3> QED
      BY <3>1
  <2>3. swap = [ok |-> TRUE, out |-> walk.out, next |-> Moved(p, walk)]
    BY <1>3, <2>2, SwapParts
  <2>4. /\ start.price = p.price /\ start.tick = p.tick /\ start.liquidity = p.liquidity
        /\ start.remaining = amount /\ start.out = 0
    BY DEF StartOf
  <2> HIDE DEF start
  <2>5. OnTheWay(c, z, start)
    <3>1. Placed(c, start)
      BY <2>4 DEF Placed
    <3>2. z => Ratio[MinTick] < p.price
      <4>1. Ratio[MinTick] \in Nat /\ p.price \in Nat
        BY TickConstants DEF Placed
      <4>2. z => Ratio[MinTick] + 1 < p.price
        BY <2>2 DEF MayStart, Pool!PriceLimit
      <4> QED
        BY <4>1, <4>2
    <3> QED
      BY <2>4, <3>1, <3>2 DEF OnTheWay
  <2>6. NoRicher(c, z, start, walk) /\ walk.out \in Int /\ OnTheWay(c, z, walk)
    BY <2>1, <2>2, <2>4, <2>5, WalkWorth
  <2>7. walk.price \in 1 .. Top
    BY <2>6, PlacedPrice
  <2> HIDE DEF walk
  <2>8. Moved(p, walk).price = walk.price
    BY <2>1, MovedFacts
  <2>9. swap.out = walk.out /\ swap.next.price = walk.price
    BY <2>3, <2>8
  <2> HIDE DEF swap
  <2>10. /\ swap.out \in Int /\ swap.next.price \in 1 .. Top
         /\ IF z THEN Sold(c, p, swap, amount) ELSE Bought(c, p, swap, amount)
    <3>1. CASE z
      <4>1. Sold(c, p, swap, amount)
        BY <2>2, <2>4, <2>6, <2>9, <3>1 DEF Sold, NoRicher, Of1, Of0
      <4> QED
        BY <2>6, <2>7, <2>9, <3>1, <4>1
    <3>2. CASE ~z
      <4>1. Bought(c, p, swap, amount)
        BY <2>2, <2>4, <2>6, <2>9, <3>2 DEF Bought, NoRicher, Of1, Of0
      <4> QED
        BY <2>6, <2>7, <2>9, <3>2, <4>1
    <3> QED
      BY <3>1, <3>2
  <2> QED
    BY <2>10 DEF swap
<1> QED
  BY <1>2, <1>3

LEMMA WorthAdds1 ==
    ASSUME NEW c, Chain(c), NEW a \in Int, NEW x \in Int, NEW price \in 1 .. Top
    PROVE  Worth1(c, a, price) = Worth1(c, x, price) + One * (a - x)
<1> DEFINE f == Depth1(c)[price]
<1>1. f \in Int /\ One \in Int
  <2>1. price <= price
    BY TopFacts
  <2> QED
    BY <2>1, DepthRises, TickConstants
<1> HIDE DEF f
<1>2. One * a + f = One * x + f + One * (a - x)
  BY <1>1
<1> QED
  BY <1>2 DEF Worth1, f

LEMMA WorthAdds0 ==
    ASSUME NEW c, Chain(c), NEW a \in Int, NEW x \in Int, NEW price \in 1 .. Top
    PROVE  Worth0(c, a, price) = Worth0(c, x, price) + Multiple * (a - x)
<1> DEFINE g == Depth0(c)[price]
<1>1. g \in Int /\ One \in Int /\ Multiple \in Int
  <2>1. price <= price
    BY TopFacts
  <2> QED
    BY <2>1, DepthRises, TickConstants, InverseFacts
<1> HIDE DEF g
<1>2. Multiple * a - One * g = Multiple * x - One * g + Multiple * (a - x)
  BY <1>1
<1> QED
  BY <1>2 DEF Worth0, g

\* What a trader's balances and a pool at a price are worth, against the pool as it was loaded.
NoBetter(c, first, second, price) ==
    /\ first \in Int /\ second \in Int /\ price \in 1 .. Top
    /\ Worth1(c, second, price) <= Worth1(c, 0, c.price)
    /\ Worth0(c, first, price) <= Worth0(c, 0, c.price)

LEMMA NoBetterSwaps ==
    ASSUME NEW c, Chain(c), c.price \in 1 .. Top, NEW p, LoadedFrom(c, p), Placed(c, p),
           NEW z \in BOOLEAN, NEW amount \in Nat, Pool!TickSwap(p, z, amount).ok,
           NEW first, NEW second, NoBetter(c, first, second, p.price)
    PROVE  LET swap == Pool!TickSwap(p, z, amount) IN
           IF z THEN NoBetter(c, first - amount, second + swap.out, swap.next.price)
                ELSE NoBetter(c, first + swap.out, second - amount, swap.next.price)
<1> DEFINE swap == Pool!TickSwap(p, z, amount)
           q == swap.next.price
           gain == swap.out
<1>1. /\ gain \in Int /\ q \in 1 .. Top
      /\ IF z THEN Sold(c, p, swap, amount) ELSE Bought(c, p, swap, amount)
  BY SwapWorth
<1> HIDE DEF swap
<1>2. first \in Int /\ second \in Int /\ p.price \in 1 .. Top /\ One \in Int /\ Multiple \in Int
  BY TickConstants, InverseFacts DEF NoBetter
<1>3. ASSUME NEW x \in Int, NEW y \in Int, NEW a \in Int, NEW b \in Int, a - x = b - y,
             Worth1(c, x, q) <= Worth1(c, y, p.price)
      PROVE  Worth1(c, a, q) <= Worth1(c, b, p.price)
  <2>1. Worth1(c, a, q) = Worth1(c, x, q) + One * (a - x)
    BY <1>1, WorthAdds1
  <2>2. Worth1(c, b, p.price) = Worth1(c, y, p.price) + One * (b - y)
    BY <1>2, WorthAdds1
  <2>3. Worth1(c, x, q) \in Int
    BY <1>1, WorthTyped
  <2>4. Worth1(c, y, p.price) \in Int
    BY <1>2, WorthTyped
  <2> DEFINE more == One * (a - x)
  <2>5. more \in Int /\ more = One * (b - y)
    BY <1>2, <1>3
  <2> HIDE DEF more
  <2>6. Worth1(c, x, q) + more <= Worth1(c, y, p.price) + more
    BY <1>3, <2>3, <2>4, <2>5
  <2> QED
    BY <2>1, <2>2, <2>5, <2>6 DEF more
<1>4. ASSUME NEW x \in Int, NEW y \in Int, NEW a \in Int, NEW b \in Int, a - x = b - y,
             Worth0(c, x, q) <= Worth0(c, y, p.price)
      PROVE  Worth0(c, a, q) <= Worth0(c, b, p.price)
  <2>1. Worth0(c, a, q) = Worth0(c, x, q) + Multiple * (a - x)
    BY <1>1, WorthAdds0
  <2>2. Worth0(c, b, p.price) = Worth0(c, y, p.price) + Multiple * (b - y)
    BY <1>2, WorthAdds0
  <2>3. Worth0(c, x, q) \in Int
    BY <1>1, WorthTyped
  <2>4. Worth0(c, y, p.price) \in Int
    BY <1>2, WorthTyped
  <2> DEFINE more == Multiple * (a - x)
  <2>5. more \in Int /\ more = Multiple * (b - y)
    BY <1>2, <1>4
  <2> HIDE DEF more
  <2>6. Worth0(c, x, q) + more <= Worth0(c, y, p.price) + more
    BY <1>4, <2>3, <2>4, <2>5
  <2> QED
    BY <2>1, <2>2, <2>5, <2>6 DEF more
<1>5. ASSUME NEW a \in Int, NEW b \in Int,
             Worth1(c, b, q) <= Worth1(c, second, p.price),
             Worth0(c, a, q) <= Worth0(c, first, p.price)
      PROVE  NoBetter(c, a, b, q)
  <2>1. /\ Worth1(c, b, q) \in Int /\ Worth1(c, second, p.price) \in Int
        /\ Worth0(c, a, q) \in Int /\ Worth0(c, first, p.price) \in Int
        /\ Worth1(c, 0, c.price) \in Int /\ Worth0(c, 0, c.price) \in Int
    BY <1>1, <1>2, WorthTyped
  <2> QED
    BY <1>1, <1>5, <2>1 DEF NoBetter
<1>6. CASE z
  <2>1. Worth1(c, gain, q) <= Worth1(c, 0, p.price) /\ Worth0(c, 0, q) <= Worth0(c, amount, p.price)
    BY <1>1, <1>6 DEF Sold
  <2> HIDE DEF gain, q
  <2>2. /\ (second + gain) - gain = second - 0 /\ (first - amount) - 0 = first - amount
        /\ second + gain \in Int /\ first - amount \in Int
    BY <1>1, <1>2
  <2>3. Worth1(c, second + gain, q) <= Worth1(c, second, p.price)
    BY <1>1, <1>2, <1>3, <2>1, <2>2
  <2>4. Worth0(c, first - amount, q) <= Worth0(c, first, p.price)
    BY <1>2, <1>4, <2>1, <2>2
  <2>5. NoBetter(c, first - amount, second + gain, q)
    BY <1>5, <2>2, <2>3, <2>4
  <2> QED
    BY <1>6, <2>5 DEF gain, q, swap
<1>7. CASE ~z
  <2>1. Worth0(c, gain, q) <= Worth0(c, 0, p.price) /\ Worth1(c, 0, q) <= Worth1(c, amount, p.price)
    BY <1>1, <1>7 DEF Bought
  <2> HIDE DEF gain, q
  <2>2. /\ (first + gain) - gain = first - 0 /\ (second - amount) - 0 = second - amount
        /\ first + gain \in Int /\ second - amount \in Int
    BY <1>1, <1>2
  <2>3. Worth0(c, first + gain, q) <= Worth0(c, first, p.price)
    BY <1>1, <1>2, <1>4, <2>1, <2>2
  <2>4. Worth1(c, second - amount, q) <= Worth1(c, second, p.price)
    BY <1>2, <1>3, <2>1, <2>2
  <2>5. NoBetter(c, first + gain, second - amount, q)
    BY <1>5, <2>2, <2>3, <2>4
  <2> QED
    BY <1>7, <2>5 DEF gain, q, swap
<1> QED
  BY <1>6, <1>7

\* Who is worth no more than before has not gained.
LEMMA NoBetterGains ==
    ASSUME NEW c, Chain(c), c.price \in 1 .. Top, NEW first, NEW second, NEW price,
           NoBetter(c, first, second, price), first >= 0, second >= 0
    PROVE  first = 0 /\ second = 0
<1> DEFINE f == Depth1(c)[price]
           f0 == Depth1(c)[c.price]
           g == Depth0(c)[price]
           g0 == Depth0(c)[c.price]
<1>1. first \in Nat /\ second \in Nat /\ price \in 1 .. Top
      /\ One * second + f <= One * 0 + f0
      /\ Multiple * first - One * g <= Multiple * 0 - One * g0
  BY DEF NoBetter, Worth1, Worth0
<1>2. /\ f \in Int /\ f0 \in Int /\ g \in Int /\ g0 \in Int
      /\ price <= c.price => f <= f0 /\ g <= g0
      /\ c.price <= price => f0 <= f /\ g0 <= g
      /\ f = f0 <=> g = g0
  <2>0. price \in Nat /\ c.price \in Nat
    BY <1>1, TopFacts
  <2>1. CASE price <= c.price
    <3>1. /\ f \in Int /\ f0 \in Int /\ f <= f0 /\ g \in Int /\ g0 \in Int /\ g <= g0
          /\ f = f0 <=> g = g0
      BY <1>1, <2>1, DepthRises
    <3>2. c.price <= price => c.price = price
      BY <2>0, <2>1
    <3> QED
      BY <3>1, <3>2
  <2>2. CASE c.price <= price
    <3>1. /\ f \in Int /\ f0 \in Int /\ f0 <= f /\ g \in Int /\ g0 \in Int /\ g0 <= g
          /\ f0 = f <=> g0 = g
      BY <1>1, <2>2, DepthRises
    <3>2. price <= c.price => c.price = price
      BY <2>0, <2>2
    <3> QED
      BY <3>1, <3>2
  <2> QED
    BY <2>0, <2>1, <2>2
<1> HIDE DEF f, f0, g, g0
<1>3. One \in Nat \ {0} /\ Multiple \in Nat \ {0} /\ price \in Nat /\ c.price \in Nat
  BY <1>1, TickConstants, InverseFacts, TopFacts
<1>4. /\ One * second \in Nat /\ Multiple * first \in Nat
      /\ One * g \in Int /\ One * g0 \in Int
      /\ One * 0 = 0 /\ Multiple * 0 = 0
  BY <1>1, <1>2, <1>3
<1>5. One * second = 0 => second = 0
  BY <1>1, <1>3
<1>6. Multiple * first = 0 => first = 0
  BY <1>1, <1>3
<1>7. g <= g0 => One * g <= One * g0
  BY <1>2, <1>3
<1>8. One * g = One * g0 => g = g0
  <2>1. ASSUME NEW x \in Int, NEW y \in Int, x < y PROVE One * x < One * y
    <3>1. x * One < y * One
      BY <1>3, <2>1, MulStrict
    <3> QED
      BY <1>3, <3>1
  <2>2. g < g0 => One * g < One * g0
    BY <1>2, <2>1
  <2>3. g0 < g => One * g0 < One * g
    BY <1>2, <2>1
  <2> QED
    BY <1>2, <1>4, <2>2, <2>3
<1> DEFINE u == One * second
           v == Multiple * first
           a == One * g
           b == One * g0
<1>9. /\ u \in Nat /\ v \in Nat /\ a \in Int /\ b \in Int
      /\ u + f <= f0 /\ v - a <= 0 - b
      /\ u = 0 => second = 0
      /\ v = 0 => first = 0
      /\ g <= g0 => a <= b
      /\ a = b => g = g0
  <2>1. u \in Nat /\ v \in Nat /\ a \in Int /\ b \in Int
    BY <1>4
  <2>2. (u = 0 => second = 0) /\ (v = 0 => first = 0)
    BY <1>5, <1>6
  <2>3. (g <= g0 => a <= b) /\ (a = b => g = g0)
    BY <1>7, <1>8
  <2>4. u + f <= One * 0 + f0 /\ v - a <= Multiple * 0 - b
    BY <1>1
  <2> HIDE DEF u, v, a, b
  <2>5. u + f <= f0 /\ v - a <= 0 - b
    BY <1>2, <1>4, <2>1, <2>4
  <2> QED
    BY <2>1, <2>2, <2>3, <2>5
<1> HIDE DEF u, v, a, b
<1>10. CASE price <= c.price
  <2>1. v = 0 /\ a = b
    BY <1>2, <1>9, <1>10
  <2>2. g = g0
    BY <1>2, <1>9, <1>10, <2>1
  <2>3. u = 0
    BY <1>2, <1>9, <2>2
  <2> QED
    BY <1>9, <2>1, <2>3
<1>11. CASE c.price <= price
  <2>1. u = 0 /\ f = f0
    BY <1>2, <1>9, <1>11
  <2>2. g = g0
    BY <1>2, <2>1
  <2>3. a = b
    BY <2>2 DEF a, b
  <2>4. v = 0
    BY <1>9, <2>3
  <2> QED
    BY <1>9, <2>1, <2>4
<1> QED
  BY <1>3, <1>10, <1>11
-----------------------------------------------------------------------------
(* What a trader gains at any pool but a Curve pool.                       *)

\* Balances that at fixed weights are worth nothing, or less.
Backed(first, second, w1, w2) ==
    /\ first \in Int /\ second \in Int /\ w1 \in Nat \ {0} /\ w2 \in Nat \ {0}
    /\ first * w1 + second * w2 <= 0

LEMMA BackedFirst ==
    ASSUME NEW first, NEW second, NEW w1, NEW w2, Backed(first, second, w1, w2),
           NEW paid \in Nat, NEW out \in Nat, out * w2 <= paid * w1
    PROVE  Backed(first - paid, second + out, w1, w2)
<1>1. /\ first \in Int /\ second \in Int /\ w1 \in Nat \ {0} /\ w2 \in Nat \ {0}
      /\ first * w1 + second * w2 <= 0
  BY DEF Backed
<1>2. (first - paid) * w1 = first * w1 - paid * w1 /\ (second + out) * w2 = second * w2 + out * w2
  BY <1>1
<1>3. first * w1 \in Int /\ paid * w1 \in Int /\ second * w2 \in Int /\ out * w2 \in Int
  BY <1>1
<1> DEFINE a == first * w1
           b == second * w2
           x == paid * w1
           y == out * w2
<1>4. a \in Int /\ b \in Int /\ x \in Int /\ y \in Int /\ a + b <= 0 /\ y <= x
  BY <1>1, <1>3
<1> HIDE DEF a, b, x, y
<1>5. (a - x) + (b + y) <= 0
  BY <1>4
<1>6. (first - paid) * w1 + (second + out) * w2 <= 0
  BY <1>2, <1>5 DEF a, b, x, y
<1> QED
  BY <1>1, <1>6 DEF Backed

LEMMA BackedSecond ==
    ASSUME NEW first, NEW second, NEW w1, NEW w2, Backed(first, second, w1, w2),
           NEW paid \in Nat, NEW out \in Nat, out * w1 <= paid * w2
    PROVE  Backed(first + out, second - paid, w1, w2)
<1>1. /\ first \in Int /\ second \in Int /\ w1 \in Nat \ {0} /\ w2 \in Nat \ {0}
      /\ first * w1 + second * w2 <= 0
  BY DEF Backed
<1>2. Backed(second, first, w2, w1)
  <2>1. second * w2 + first * w1 = first * w1 + second * w2
    BY <1>1
  <2> QED
    BY <1>1, <2>1 DEF Backed
<1>3. Backed(second - paid, first + out, w2, w1)
  BY <1>2, BackedFirst
<1>4. (second - paid) * w2 + (first + out) * w1 <= 0
      /\ second - paid \in Int /\ first + out \in Int
  BY <1>3 DEF Backed
<1>5. (second - paid) * w2 + (first + out) * w1 = (first + out) * w1 + (second - paid) * w2
  <2>1. (second - paid) * w2 \in Int /\ (first + out) * w1 \in Int
    BY <1>1, <1>4
  <2> QED
    BY <2>1
<1> QED
  BY <1>1, <1>4, <1>5 DEF Backed

LEMMA BackedNothing ==
    ASSUME NEW first, NEW second, NEW w1, NEW w2, Backed(first, second, w1, w2),
           first >= 0, second >= 0
    PROVE  first = 0 /\ second = 0
<1>1. /\ first \in Nat /\ second \in Nat /\ w1 \in Nat \ {0} /\ w2 \in Nat \ {0}
      /\ first * w1 + second * w2 <= 0
  BY DEF Backed
<1>2. first * w1 \in Nat /\ second * w2 \in Nat
  BY <1>1
<1>3. first * w1 = 0 /\ second * w2 = 0
  BY <1>1, <1>2
<1> QED
  BY <1>1, <1>3

\* What the wrapper and the ARM pay for what they take.
LEMMA LidoPays ==
    ASSUME NEW p \in Pool!LidoPools, p.pooled # 0, p.shares # 0,
           NEW i \in 1 .. 2, NEW amount \in Nat, Pool!LidoSwap(p, i, amount).ok
    PROVE  LET out == Pool!LidoSwap(p, i, amount).out IN
           /\ out \in Nat
           /\ i = 1 => out * p.pooled <= amount * p.shares
           /\ i = 2 => out * p.shares <= amount * p.pooled
<1>1. p.pooled \in Nat \ {0} /\ p.shares \in Nat \ {0}
  BY DEF Pool!LidoPools
<1>2. CASE i = 1
  <2>1. Pool!LidoSwap(p, i, amount).out = Pool!SharesOf(p, amount)
    BY <1>2 DEF Pool!LidoSwap, Pool!Wrap, Pool!Filled, Pool!Refuse
  <2>2. Pool!SharesOf(p, amount) \in Nat /\ Pool!SharesOf(p, amount) * p.pooled <= amount * p.shares
    BY <1>1, MulNat, QuotientTimes DEF Pool!SharesOf
  <2> QED
    BY <1>2, <2>1, <2>2
<1>3. CASE i = 2
  <2>1. /\ Pool!LidoSwap(p, i, amount) = Pool!Unwrap(p, amount) /\ Pool!Unwrap(p, amount).ok
    BY <1>3 DEF Pool!LidoSwap, Pool!Refuse
  <2>2. Pool!LidoSwap(p, i, amount).out = Pool!EtherOf(p, amount)
    BY <2>1 DEF Pool!Unwrap, Pool!Filled, Pool!Refuse
  <2>3. Pool!EtherOf(p, amount) \in Nat /\ Pool!EtherOf(p, amount) * p.shares <= amount * p.pooled
    BY <1>1, MulNat, QuotientTimes DEF Pool!EtherOf
  <2> QED
    BY <1>3, <2>2, <2>3
<1> QED
  BY <1>2, <1>3

LEMMA ArmPays ==
    ASSUME NEW p \in Pool!ArmPools, p.rate[1] * p.rate[2] <= PriceScale * PriceScale,
           NEW i \in 1 .. 2, NEW amount \in Nat, Pool!ArmSwap(p, i, amount).ok
    PROVE  LET swap == Pool!ArmSwap(p, i, amount) IN
           /\ swap.out \in Nat
           /\ i = 1 => swap.out * PriceScale <= amount * p.rate[1]
           /\ i = 2 => swap.out * p.rate[1] <= amount * PriceScale
<1>1. p.rate[1] \in Nat /\ p.rate[2] \in Nat /\ PriceScale \in Nat \ {0}
  BY DEF Pool!ArmPools, Pool!PoolTradesAssumption
<1>2. CASE i = 1
  <2> DEFINE out == (amount * p.rate[1]) \div PriceScale
  <2>1. Pool!ArmSwap(p, i, amount).out = out
    BY <1>2 DEF Pool!ArmSwap, Pool!ArmSellWeth, Pool!Filled, Pool!Refuse
  <2>2. out \in Nat /\ out * PriceScale <= amount * p.rate[1]
    BY <1>1, MulNat, QuotientTimes
  <2> HIDE DEF out
  <2> QED
    BY <1>2, <2>1, <2>2
<1>3. CASE i = 2
  <2> DEFINE out == (amount * p.rate[2]) \div PriceScale
  <2>1. Pool!ArmSwap(p, i, amount).out = out
    BY <1>3 DEF Pool!ArmSwap, Pool!ArmSellSteth, Pool!Filled, Pool!Refuse
  <2>2. out \in Nat /\ out * PriceScale <= amount * p.rate[2]
    BY <1>1, MulNat, QuotientTimes
  <2>3. out * p.rate[1] <= amount * PriceScale
    <3> DEFINE r1 == p.rate[1]
               r2 == p.rate[2]
    <3>1. r1 \in Nat /\ r2 \in Nat /\ r1 * r2 <= PriceScale * PriceScale
      BY <1>1
    <3> HIDE DEF out, r1, r2
    <3>2. out * PriceScale <= amount * r2
      BY <2>2 DEF r2
    <3>3. (out * PriceScale) * r1 <= (amount * r2) * r1
      <4> DEFINE x == out * PriceScale
                 y == amount * r2
      <4>1. x \in Nat /\ y \in Nat /\ x <= y
        BY <1>1, <2>2, <3>1, <3>2
      <4> HIDE DEF x, y
      <4>2. x * r1 <= y * r1
        BY <3>1, <4>1
      <4> QED
        BY <4>2 DEF x, y
    <3>4. amount * (r1 * r2) <= amount * (PriceScale * PriceScale)
      <4> DEFINE x == r1 * r2
                 y == PriceScale * PriceScale
      <4>1. x \in Nat /\ y \in Nat /\ x <= y
        BY <1>1, <3>1
      <4> HIDE DEF x, y
      <4>2. amount * x <= amount * y
        BY <4>1
      <4> QED
        BY <4>2 DEF x, y
    <3>5. (amount * r2) * r1 = amount * (r1 * r2)
      BY <3>1
    <3>6. amount * (PriceScale * PriceScale) = (amount * PriceScale) * PriceScale
          /\ (out * PriceScale) * r1 = (out * r1) * PriceScale
      BY <1>1, <2>2, <3>1
    <3> DEFINE u == out * r1
               v == amount * PriceScale
    <3>7. u \in Int /\ v \in Int
      BY <1>1, <2>2, <3>1
    <3>8. u * PriceScale <= v * PriceScale
      <4>1. (out * PriceScale) * r1 \in Int /\ (amount * r2) * r1 \in Int
            /\ amount * (PriceScale * PriceScale) \in Int
        BY <1>1, <2>2, <3>1
      <4> QED
        BY <3>3, <3>4, <3>5, <3>6, <4>1
    <3> HIDE DEF u, v
    <3>9. ASSUME v < u PROVE FALSE
      <4>1. v * PriceScale < u * PriceScale /\ v * PriceScale \in Int /\ u * PriceScale \in Int
        BY <1>1, <3>7, <3>9, MulStrict
      <4> QED
        BY <3>8, <4>1
    <3> QED
      BY <3>7, <3>9 DEF u, v, r1
  <2> QED
    BY <1>3, <2>1, <2>2, <2>3
<1> QED
  BY <1>2, <1>3

\* A trade moves two of the trader's balances.
Settled(h, after, i, j, amount, out) ==
    after = [h EXCEPT ![i] = @ - amount, ![j] = @ + out]

LEMMA HeldAfter ==
    ASSUME NEW h \in [Pool!Tokens -> Int], NEW i \in 1 .. 2, NEW j \in 1 .. 2, i # j,
           NEW amount \in Int, NEW out \in Int,
           NEW after, Settled(h, after, i, j, amount, out)
    PROVE  /\ after \in [Pool!Tokens -> Int] /\ after[3] = h[3]
           /\ after[i] = h[i] - amount /\ after[j] = h[j] + out
<1>1. Pool!Tokens = 1 .. 3
  BY DEF Pool!Tokens
<1> QED
  BY <1>1 DEF Settled

LEMMA TwoTokens ==
    ASSUME NEW state, state.family # "stable", NEW pair \in Pool!PairsOf(state)
    PROVE  pair[1] \in 1 .. 2 /\ pair[2] \in 1 .. 2 /\ pair[1] # pair[2]
  BY DEF Pool!PairsOf

\* No swap changes the rates of the ARM.
LEMMA ArmKeepsRate ==
    ASSUME NEW p \in Pool!ArmPools, NEW i \in 1 .. 2, NEW amount \in Nat, Pool!ArmSwap(p, i, amount).ok
    PROVE  Pool!ArmSwap(p, i, amount).next.rate = p.rate
<1>1. CASE i = 1
  <2> DEFINE out == (amount * p.rate[1]) \div PriceScale
             next == [p EXCEPT !.weth = @ + amount, !.held = @ - Pool!SharesOf(p, out)]
  <2>1. Pool!ArmSwap(p, i, amount).next = next
    BY <1>1 DEF Pool!ArmSwap, Pool!ArmSellWeth, Pool!Filled, Pool!Refuse
  <2>2. next.rate = p.rate
    BY DEF Pool!ArmPools
  <2> QED
    BY <2>1, <2>2
<1>2. CASE i = 2
  <2> DEFINE out == (amount * p.rate[2]) \div PriceScale
             next == [p EXCEPT !.weth = @ - out, !.held = @ + Pool!SharesOf(p, amount)]
  <2>1. Pool!ArmSwap(p, i, amount).next = next
    BY <1>2 DEF Pool!ArmSwap, Pool!ArmSellSteth, Pool!Filled, Pool!Refuse
  <2>2. next.rate = p.rate
    BY DEF Pool!ArmPools
  <2> QED
    BY <2>1, <2>2
<1> QED
  BY <1>1, <1>2

\* A trader's balances at a loaded pool, by family: worth no more than before along the
\* prices of a tick pool; worth nothing at the rates of the wrapper, the ARM and the
\* converter; nothing yet, or some token spent, at an offer that is taken once.
NoTokens == [t \in Pool!Tokens |-> 0]
TwoHeld == held \in [Pool!Tokens -> Int] /\ held[3] = 0
RateGain(w1, w2) == TwoHeld /\ Backed(held[1], held[2], w1, w2)
Spent == \E t \in Pool!Tokens : held[t] \in Int /\ held[t] < 0
OnceGain(taken) == held = NoTokens \/ (taken /\ Spent)

TickGain ==
    /\ TwoHeld /\ source.price \in 1 .. Top
    /\ NoBetter(source, held[1], held[2], pool.price)
LidoGain == RateGain(pool.shares, pool.pooled)
ArmGain ==
    /\ pool.rate = source.rate
    /\ pool.rate[1] * pool.rate[2] <= PriceScale * PriceScale =>
         RateGain(pool.rate[1], PriceScale)
ConverterGain == pool.family = "converter" /\ RateGain(1, 1)
FluidGain == pool.family = "fluid" /\ "executed" \in DOMAIN pool /\ OnceGain(pool.executed)
BebopGain ==
    /\ pool.family = "bebop" /\ {"amountIn", "consumed"} \subseteq DOMAIN pool
    /\ pool.amountIn > 0 /\ OnceGain(pool.consumed)

GainInv ==
    /\ source \in Sources
    /\ phase # "loaded" \/ ~Pool!Traded => held = NoTokens
    /\ phase = "loaded" =>
         /\ source.family = "tick" => TickGain
         /\ source.family = "lido" => LidoGain
         /\ source.family = "arm" => ArmGain
         /\ source.family = "converter" => ConverterGain
         /\ source.family = "fluid" => FluidGain
         /\ source.family = "bebop" => BebopGain

LEMMA NoTokensHeld ==
    /\ NoTokens \in [Pool!Tokens -> Int] /\ NoTokens[1] = 0 /\ NoTokens[2] = 0 /\ NoTokens[3] = 0
<1>1. Pool!Tokens = 1 .. 3
  BY DEF Pool!Tokens
<1> QED
  BY <1>1 DEF NoTokens

LEMMA NothingBacked ==
    ASSUME NEW w1 \in Nat \ {0}, NEW w2 \in Nat \ {0}
    PROVE  Backed(0, 0, w1, w2)
<1>1. 0 * w1 = 0 /\ 0 * w2 = 0
  OBVIOUS
<1> QED
  BY <1>1 DEF Backed

LEMMA GainLoads ==
    ASSUME GainInv, Pool!Load
    PROVE  GainInv'
<1>1. /\ source' = source /\ source \in Sources /\ held' = held /\ phase # "loaded"
      /\ held = NoTokens
  BY DEF GainInv, Pool!Load
<1>2. NoTokens' = NoTokens
  BY DEF NoTokens
<1>3. TwoHeld' /\ held'[1] = 0 /\ held'[2] = 0
  BY <1>1, NoTokensHeld DEF TwoHeld
<1>4. ASSUME phase' = "loaded", source.family = "tick" PROVE TickGain'
  <2>1. Pool!TickFacts(source) /\ Chain(source)
    BY <1>1, <1>4, TickSourceFacts DEF Pool!IsTick
  <2>2. Pool!LoadState.ok /\ pool' = Pool!LoadState.state
    BY <1>4 DEF Pool!Load
  <2>3. Pool!LoadState = Pool!TickLoad(source, got)
    <3>1. ~Pool!Refusal.ok
      BY DEF Pool!Refusal
    <3> QED
      BY <1>4, <2>2, <3>1 DEF Pool!LoadState, Pool!IsTick
  <2>4. Paired(source, pool', Pool!WholePool(source))
    BY <2>1, <2>2, <2>3, LoadPaired
  <2>5. Pool!WholePool(source).price = source.price
    <3>1. source \in Pool!TickSource(source)
      BY <2>1 DEF Pool!TickFacts
    <3>2. "price" \in DOMAIN source
      BY <3>1 DEF Pool!TickSource
    <3> QED
      BY <3>2 DEF Pool!WholePool
  <2>6. pool'.price = source.price /\ Placed(source, pool')
    BY <2>4, <2>5 DEF Paired
  <2>7. source.price \in 1 .. Top
    <3>1. /\ source.price \in Nat /\ Ratio[MinTick] <= source.price
          /\ source.price < Ratio[MaxTick]
      BY <2>6 DEF Placed
    <3> QED
      BY <3>1, TopFacts DEF Top
  <2>8. Worth1(source, 0, source.price) \in Int /\ Worth0(source, 0, source.price) \in Int
    BY <2>1, <2>7, WorthTyped
  <2>9. NoBetter(source, 0, 0, source.price)
    BY <2>7, <2>8 DEF NoBetter
  <2>10. (source.price \in 1 .. Top)'
    BY <1>1, <2>7 DEF Top
  <2>11. NoBetter(source, held[1], held[2], pool.price)'
    <3>1. NoBetter(source', held'[1], held'[2], pool'.price)
      BY <1>1, <1>3, <2>6, <2>9
    <3> QED
      BY <3>1 DEF NoBetter, Worth1, Worth0, Depth1, Depth0, Depth, DepthAt, Top,
                  Multiple, Reciprocal, Weight1, Weight0
  <2> QED
    BY <1>3, <2>10, <2>11 DEF TickGain
<1>5. ASSUME phase' = "loaded", source.family # "tick"
      PROVE  pool' = source /\ (source.family \notin Pool!Named => Pool!ValuesLoad(source))
  BY <1>5, FixedLoaded
<1>6. ASSUME phase' = "loaded", source.family = "lido" PROVE LidoGain'
  <2>1. pool' = source /\ Pool!LidoLoads(source) /\ source \in Pool!LidoPools
    BY <1>1, <1>5, <1>6, SourceFacts DEF Pool!ValuesLoad, Pool!Named
  <2>2. source.shares \in Nat \ {0} /\ source.pooled \in Nat \ {0}
    BY <2>1 DEF Pool!LidoLoads, Pool!LidoPools
  <2>3. Backed(held'[1], held'[2], pool'.shares, pool'.pooled)
    BY <1>3, <2>1, <2>2, NothingBacked
  <2> QED
    BY <1>3, <2>3 DEF LidoGain, RateGain, Backed
<1>7. ASSUME phase' = "loaded", source.family = "arm" PROVE ArmGain'
  <2>1. pool' = source /\ Pool!ArmLoads(source) /\ source \in Pool!ArmPools
    BY <1>1, <1>5, <1>7, SourceFacts DEF Pool!ValuesLoad, Pool!Named
  <2>2. source.rate[1] \in Nat \ {0} /\ PriceScale \in Nat \ {0}
    BY <1>1, <2>1, SourceFacts DEF Pool!ArmLoads, Pool!ArmPools
  <2>3. Backed(held'[1], held'[2], pool'.rate[1], PriceScale)
    BY <1>3, <2>1, <2>2, NothingBacked
  <2> QED
    BY <1>1, <1>3, <2>1, <2>3 DEF ArmGain, RateGain, Backed
<1>8. ASSUME phase' = "loaded", source.family = "converter" PROVE ConverterGain'
  <2>1. Backed(held'[1], held'[2], 1, 1)
    BY <1>3, NothingBacked
  <2> QED
    BY <1>3, <1>5, <1>8, <2>1 DEF ConverterGain, RateGain, Backed
<1>9. ASSUME phase' = "loaded", source.family = "fluid" PROVE FluidGain'
  <2>1. pool' = source /\ source \in Pool!FluidPools
    BY <1>1, <1>5, <1>9 DEF Pool!PoolTradesAssumption
  <2>2. "executed" \in DOMAIN source
    BY <2>1 DEF Pool!FluidPools
  <2>3. held' = NoTokens'
    BY <1>1, <1>2
  <2> QED
    BY <1>9, <2>1, <2>2, <2>3 DEF FluidGain, OnceGain
<1>10. ASSUME phase' = "loaded", source.family = "bebop" PROVE BebopGain'
  <2>1. pool' = source /\ source \in Pool!BebopPools /\ source.amountIn > 0
    BY <1>1, <1>5, <1>10 DEF Pool!PoolTradesAssumption, Pool!ValuesLoad, Pool!Named, Pool!BebopLoads
  <2>2. {"amountIn", "consumed"} \subseteq DOMAIN source
    BY <2>1 DEF Pool!BebopPools
  <2>3. held' = NoTokens'
    BY <1>1, <1>2
  <2> QED
    BY <1>10, <2>1, <2>2, <2>3 DEF BebopGain, OnceGain
<1>11. held' = NoTokens'
  BY <1>1, <1>2
<1> QED
  BY <1>1, <1>4, <1>6, <1>7, <1>8, <1>9, <1>10, <1>11 DEF GainInv

\* A sum of weights stays worth nothing through a trade of either token.
LEMMA RateTrades ==
    ASSUME NEW w1, NEW w2, RateGain(w1, w2),
           NEW i \in 1 .. 2, NEW j \in 1 .. 2, i # j, NEW amount \in Nat, NEW out \in Nat,
           Settled(held, held', i, j, amount, out),
           i = 1 => out * w2 <= amount * w1,
           i = 2 => out * w1 <= amount * w2
    PROVE  TwoHeld' /\ Backed(held'[1], held'[2], w1, w2)
<1>1. held \in [Pool!Tokens -> Int] /\ held[3] = 0 /\ Backed(held[1], held[2], w1, w2)
  BY DEF RateGain, TwoHeld
<1>2. /\ held' \in [Pool!Tokens -> Int] /\ held'[3] = 0
      /\ held'[i] = held[i] - amount /\ held'[j] = held[j] + out
  BY <1>1, HeldAfter
<1>3. TwoHeld'
  BY <1>2 DEF TwoHeld, Pool!Tokens
<1>4. CASE i = 1
  <2>1. j = 2
    BY <1>4
  <2>2. Backed(held[1] - amount, held[2] + out, w1, w2)
    BY <1>1, <1>4, BackedFirst
  <2> QED
    BY <1>2, <1>3, <1>4, <2>1, <2>2
<1>5. CASE i = 2
  <2>1. j = 1
    BY <1>5
  <2>2. Backed(held[1] + out, held[2] - amount, w1, w2)
    BY <1>1, <1>5, BackedSecond
  <2> QED
    BY <1>2, <1>3, <1>5, <2>1, <2>2
<1> QED
  BY <1>4, <1>5

\* An offer is taken once, and some of the token it takes is spent on it.
LEMMA OnceTrades ==
    ASSUME held = NoTokens, NEW i \in 1 .. 2, NEW j \in 1 .. 2, i # j,
           NEW amount \in Nat, amount > 0, NEW out,
           Settled(held, held', i, j, amount, out)
    PROVE  Spent'
<1>1. Pool!Tokens = 1 .. 3 /\ i \in Pool!Tokens /\ held[i] = 0
  BY DEF Pool!Tokens, NoTokens
<1>2. held'[i] = held[i] - amount
  BY <1>1 DEF NoTokens, Settled
<1>3. held'[i] \in Int /\ held'[i] < 0
  BY <1>1, <1>2
<1> QED
  BY <1>1, <1>3 DEF Spent, Pool!Tokens

LEMMA TickTrades ==
    ASSUME source \in Sources, source.family = "tick", TickGain, Paired(source, pool, whole),
           NEW i \in 1 .. 2, NEW j \in 1 .. 2, i # j, NEW amount \in Nat,
           Pool!Trade(i, j, amount)
    PROVE  TickGain'
<1>1. /\ Chain(source) /\ source.price \in 1 .. Top /\ TwoHeld /\ source' = source
      /\ NoBetter(source, held[1], held[2], pool.price)
  BY TickSourceFacts DEF TickGain, Pool!IsTick, Pool!Trade
<1>2. LoadedFrom(source, pool) /\ Placed(source, pool) /\ pool.family = "tick"
  BY DEF Paired, LoadedFrom
<1>3. PICK z \in BOOLEAN :
         /\ z <=> i = 1
         /\ \A p, x : Pool!TickSwap(p, i = 1, x) = Pool!TickSwap(p, z, x)
  BY SwapDirection
<1> DEFINE swap == Pool!TickSwap(pool, z, amount)
           outcome == Pool!SwapPool(pool, i, j, amount)
<1>4. outcome = swap
  <2>1. outcome = Pool!TickSwap(pool, i = 1, amount)
    BY <1>2 DEF Pool!SwapPool
  <2> HIDE DEF outcome
  <2> QED
    BY <1>3, <2>1
<1>5. /\ outcome.ok /\ pool' = outcome.next
      /\ Settled(held, held', i, j, amount, outcome.out)
  BY DEF Pool!Trade, Settled
<1> HIDE DEF outcome
<1>6. /\ swap.out \in Int
      /\ IF z THEN NoBetter(source, held[1] - amount, held[2] + swap.out, swap.next.price)
              ELSE NoBetter(source, held[1] + swap.out, held[2] - amount, swap.next.price)
  BY <1>1, <1>2, <1>4, <1>5, SwapWorth, NoBetterSwaps
<1> HIDE DEF swap
<1>7. /\ held' \in [Pool!Tokens -> Int] /\ held'[3] = 0
      /\ held'[i] = held[i] - amount /\ held'[j] = held[j] + swap.out
  BY <1>1, <1>4, <1>5, <1>6, HeldAfter DEF TwoHeld
<1>8. NoBetter(source, held'[1], held'[2], pool'.price)
  <2>1. CASE z
    <3>1. i = 1 /\ j = 2
      BY <1>3, <2>1
    <3> QED
      BY <1>4, <1>5, <1>6, <1>7, <2>1, <3>1
  <2>2. CASE ~z
    <3>1. i = 2 /\ j = 1
      BY <1>3, <2>2
    <3> QED
      BY <1>4, <1>5, <1>6, <1>7, <2>2, <3>1
  <2> QED
    BY <2>1, <2>2
<1>9. NoBetter(source, held[1], held[2], pool.price)'
  BY <1>1, <1>8 DEF NoBetter, Worth1, Worth0, Depth1, Depth0, Depth, DepthAt, Top,
                    Multiple, Reciprocal, Weight1, Weight0
<1>10. TwoHeld' /\ (source.price \in 1 .. Top)'
  BY <1>1, <1>7 DEF TwoHeld, Pool!Tokens, Top
<1> QED
  BY <1>9, <1>10 DEF TickGain

LEMMA LidoTrades ==
    ASSUME source.family = "lido", LidoClaim, LidoGain,
           NEW i \in 1 .. 2, NEW j \in 1 .. 2, i # j, NEW amount \in Nat,
           Pool!Trade(i, j, amount)
    PROVE  LidoGain'
<1> DEFINE swap == Pool!LidoSwap(pool, i, amount)
           outcome == Pool!SwapPool(pool, i, j, amount)
<1>1. pool \in Pool!LidoPools /\ pool.pooled # 0 /\ pool.shares # 0
  BY DEF LidoClaim
<1>2. outcome = swap
  BY <1>1 DEF Pool!SwapPool, Pool!LidoPools
<1>3. /\ outcome.ok /\ pool' = outcome.next
      /\ Settled(held, held', i, j, amount, outcome.out)
  BY DEF Pool!Trade, Settled
<1> HIDE DEF outcome
<1>4. pool'.pooled = pool.pooled /\ pool'.shares = pool.shares
  BY <1>1, <1>2, <1>3, LidoCovers
<1>5. /\ swap.out \in Nat
      /\ i = 1 => swap.out * pool.pooled <= amount * pool.shares
      /\ i = 2 => swap.out * pool.shares <= amount * pool.pooled
  BY <1>1, <1>2, <1>3, LidoPays
<1> HIDE DEF swap
<1>6. TwoHeld' /\ Backed(held'[1], held'[2], pool.shares, pool.pooled)
  <2>1. RateGain(pool.shares, pool.pooled)
    BY DEF LidoGain
  <2>2. Settled(held, held', i, j, amount, swap.out)
    BY <1>2, <1>3
  <2> QED
    BY <1>5, <2>1, <2>2, RateTrades
<1> QED
  BY <1>4, <1>6 DEF LidoGain, RateGain, Backed

LEMMA ArmTrades ==
    ASSUME source.family = "arm", ArmClaim, ArmGain,
           NEW i \in 1 .. 2, NEW j \in 1 .. 2, i # j, NEW amount \in Nat,
           Pool!Trade(i, j, amount)
    PROVE  ArmGain'
<1> DEFINE swap == Pool!ArmSwap(pool, i, amount)
           outcome == Pool!SwapPool(pool, i, j, amount)
<1>1. pool \in Pool!ArmPools /\ pool.rate = source.rate
  BY DEF ArmClaim, ArmGain
<1>2. outcome = swap
  BY <1>1 DEF Pool!SwapPool, Pool!ArmPools
<1>3. /\ outcome.ok /\ pool' = outcome.next /\ source' = source
      /\ Settled(held, held', i, j, amount, outcome.out)
  BY DEF Pool!Trade, Settled
<1> HIDE DEF outcome
<1>4. pool'.rate = pool.rate
  BY <1>1, <1>2, <1>3, ArmKeepsRate
<1>5. ASSUME pool.rate[1] * pool.rate[2] <= PriceScale * PriceScale
      PROVE  TwoHeld' /\ Backed(held'[1], held'[2], pool.rate[1], PriceScale)
  <2>1. RateGain(pool.rate[1], PriceScale)
    BY <1>5 DEF ArmGain
  <2>2. /\ swap.out \in Nat
        /\ i = 1 => swap.out * PriceScale <= amount * pool.rate[1]
        /\ i = 2 => swap.out * pool.rate[1] <= amount * PriceScale
    BY <1>1, <1>2, <1>3, <1>5, ArmPays
  <2>3. Settled(held, held', i, j, amount, swap.out)
    BY <1>2, <1>3
  <2> HIDE DEF swap
  <2> QED
    BY <2>1, <2>2, <2>3, RateTrades
<1> HIDE DEF swap
<1> QED
  BY <1>1, <1>3, <1>4, <1>5 DEF ArmGain, RateGain, Backed

LEMMA ConverterTrades ==
    ASSUME source.family = "converter", ConverterGain,
           NEW i \in 1 .. 2, NEW j \in 1 .. 2, i # j, NEW amount \in Nat,
           Pool!Trade(i, j, amount)
    PROVE  ConverterGain'
<1> DEFINE swap == Pool!ConverterSwap(pool, i, amount)
           outcome == Pool!SwapPool(pool, i, j, amount)
<1>1. outcome = swap /\ pool.family = "converter"
  BY DEF Pool!SwapPool, ConverterGain
<1>2. /\ outcome.ok /\ pool' = outcome.next
      /\ Settled(held, held', i, j, amount, outcome.out)
  BY DEF Pool!Trade, Settled
<1> HIDE DEF outcome
<1>3. swap.out = amount /\ swap.next = pool
  BY <1>1, <1>2 DEF Pool!ConverterSwap, Pool!Filled, Pool!Refuse
<1> HIDE DEF swap
<1>4. TwoHeld' /\ Backed(held'[1], held'[2], 1, 1)
  <2>1. RateGain(1, 1)
    BY DEF ConverterGain
  <2>2. Settled(held, held', i, j, amount, amount)
    BY <1>1, <1>2, <1>3
  <2>3. amount * 1 <= amount * 1
    OBVIOUS
  <2> QED
    BY <2>1, <2>2, <2>3, RateTrades
<1>5. pool' = pool
  BY <1>1, <1>2, <1>3
<1> QED
  BY <1>1, <1>4, <1>5 DEF ConverterGain, RateGain, Backed

LEMMA FluidTrades ==
    ASSUME source \in Sources, source.family = "fluid", FluidGain,
           NEW i \in 1 .. 2, NEW j \in 1 .. 2, i # j, NEW amount \in Nat,
           Pool!Trade(i, j, amount)
    PROVE  FluidGain'
<1> DEFINE swap == Pool!FluidSwap(pool, i, amount)
           outcome == Pool!SwapPool(pool, i, j, amount)
           routed == Pool!FluidRouted(pool, i, Pool!Adjusted(pool, i, amount),
                       Pool!Side(pool, "col", i), Pool!Side(pool, "debt", i),
                       Pool!Routed(pool, Pool!Adjusted(pool, i, amount),
                                   Pool!Side(pool, "col", i), Pool!Side(pool, "debt", i)))
<1>1. outcome = swap /\ pool.family = "fluid" /\ "executed" \in DOMAIN pool
  BY DEF Pool!SwapPool, FluidGain
<1>2. /\ outcome.ok /\ pool' = outcome.next
      /\ Settled(held, held', i, j, amount, outcome.out)
  BY DEF Pool!Trade, Settled
<1> HIDE DEF outcome
<1>3. ~Pool!Refuse.ok
  BY DEF Pool!Refuse
<1>4. ~pool.executed /\ ~(amount < MinInput) /\ swap = routed
  <2>1. pool.executed \/ amount < MinInput => swap = Pool!Refuse
    BY DEF Pool!FluidSwap
  <2>2. swap = Pool!Refuse \/ swap = routed
    BY DEF Pool!FluidSwap
  <2> HIDE DEF swap, routed
  <2> QED
    BY <1>1, <1>2, <1>3, <2>1, <2>2
<1>5. swap.next = [pool EXCEPT !.executed = TRUE]
  <2>1. PICK a, b, d, e : routed = Pool!FluidRouted(pool, i, a, b, d, e)
    OBVIOUS
  <2> DEFINE filled == Pool!FluidRouted(pool, i, a, b, d, e)
  <2> HIDE DEF swap, routed
  <2>2. PICK out : filled \in {Pool!Refuse, Pool!Filled(out, [pool EXCEPT !.executed = TRUE])}
    BY DEF Pool!FluidRouted
  <2> HIDE DEF filled
  <2>3. filled = routed /\ swap.ok /\ swap = routed
    BY <1>1, <1>2, <1>4, <2>1 DEF filled
  <2>4. filled = Pool!Filled(out, [pool EXCEPT !.executed = TRUE])
    BY <1>3, <2>2, <2>3
  <2>5. filled.next = [pool EXCEPT !.executed = TRUE]
    BY <2>4 DEF Pool!Filled
  <2> QED
    BY <2>3, <2>5
<1> HIDE DEF swap, routed
<1>6. pool'.executed /\ pool'.family = "fluid" /\ "executed" \in DOMAIN pool'
  BY <1>1, <1>2, <1>5
<1>7. amount > 0
  <2>1. MinInput \in Nat \ {0}
    BY DEF Pool!PoolTradesAssumption
  <2> QED
    BY <1>4, <2>1
<1>8. held = NoTokens
  BY <1>4 DEF FluidGain, OnceGain
<1>9. Spent'
  BY <1>2, <1>7, <1>8, OnceTrades
<1> QED
  BY <1>6, <1>9 DEF FluidGain, OnceGain

LEMMA BebopTrades ==
    ASSUME source.family = "bebop", BebopGain,
           NEW i \in 1 .. 2, NEW j \in 1 .. 2, i # j, NEW amount \in Nat,
           Pool!Trade(i, j, amount)
    PROVE  BebopGain'
<1> DEFINE swap == Pool!BebopSwap(pool, i, amount)
           outcome == Pool!SwapPool(pool, i, j, amount)
<1>1. outcome = swap /\ pool.family = "bebop" /\ {"amountIn", "consumed"} \subseteq DOMAIN pool
  BY DEF Pool!SwapPool, BebopGain
<1>2. /\ outcome.ok /\ pool' = outcome.next
      /\ Settled(held, held', i, j, amount, outcome.out)
  BY DEF Pool!Trade, Settled
<1> HIDE DEF outcome
<1>3. ~pool.consumed /\ amount = pool.amountIn /\ swap.next = [pool EXCEPT !.consumed = TRUE]
  BY <1>1, <1>2 DEF Pool!BebopSwap, Pool!Filled, Pool!Refuse
<1> HIDE DEF swap
<1>4. /\ pool'.consumed /\ pool'.family = "bebop" /\ pool'.amountIn = pool.amountIn
      /\ {"amountIn", "consumed"} \subseteq DOMAIN pool'
  BY <1>1, <1>2, <1>3
<1>5. held = NoTokens /\ amount > 0
  BY <1>3 DEF BebopGain, OnceGain
<1>6. Spent'
  BY <1>2, <1>5, OnceTrades
<1> QED
  BY <1>4, <1>5, <1>6 DEF BebopGain, OnceGain

\* A pool that is traded is of the family of its source, and not a Curve pool's.
LEMMA FamilyKnown ==
    ASSUME GainInv, WindowInv, ClaimInv, phase = "loaded", ~Pool!IsStable, Pool!Traded
    PROVE  /\ pool.family # "stable"
           /\ source.family \in {"tick", "lido", "arm", "converter", "fluid", "bebop"}
<1>1. source.family \in {"tick", "lido", "arm", "converter", "fluid", "bebop"}
  <2>1. source.family \in {"tick"} \cup Pool!Named \cup Pool!AtOnce
    BY DEF GainInv, Pool!PoolTradesAssumption
  <2> QED
    BY <2>1 DEF Pool!Named, Pool!AtOnce, Pool!IsStable, Pool!Traded
<1>2. source.family = "tick" => pool.family = "tick"
  BY DEF WindowInv, Paired, LoadedFrom, Pool!IsTick
<1>3. source.family = "lido" => pool.family = "lido"
  BY DEF ClaimInv, LidoClaim, Pool!LidoPools
<1>4. source.family = "arm" => pool.family = "arm"
  BY DEF ClaimInv, ArmClaim, Pool!ArmPools
<1>5. /\ source.family = "converter" => pool.family = "converter"
      /\ source.family = "fluid" => pool.family = "fluid"
      /\ source.family = "bebop" => pool.family = "bebop"
  BY DEF GainInv, ConverterGain, FluidGain, BebopGain
<1> QED
  BY <1>1, <1>2, <1>3, <1>4, <1>5

LEMMA GainTrades ==
    ASSUME GainInv, WindowInv, ClaimInv,
           NEW pair \in Pool!PairsOf(pool), NEW amount \in Amounts[source.family],
           Pool!Trade(pair[1], pair[2], amount)
    PROVE  GainInv'
<1>1. /\ source' = source /\ source \in Sources /\ phase = "loaded" /\ phase' = "loaded"
      /\ amount \in Nat /\ Pool!Traded
  BY SourceFacts DEF GainInv, Pool!Trade
<1>2. Pool!Traded'
  BY <1>1 DEF Pool!Traded
<1>3. CASE Pool!IsStable
  BY <1>1, <1>2, <1>3 DEF GainInv, Pool!IsStable
<1>4. CASE ~Pool!IsStable
  <2>1. pool.family # "stable"
    BY <1>1, <1>4, FamilyKnown
  <2>2. pair[1] \in 1 .. 2 /\ pair[2] \in 1 .. 2 /\ pair[1] # pair[2]
    BY <2>1, TwoTokens
  <2>3. source.family = "tick" => TickGain'
    BY <1>1, <2>2, TickTrades DEF GainInv, WindowInv, Pool!IsTick
  <2>4. source.family = "lido" => LidoGain'
    BY <1>1, <2>2, LidoTrades DEF GainInv, ClaimInv
  <2>5. source.family = "arm" => ArmGain'
    BY <1>1, <2>2, ArmTrades DEF GainInv, ClaimInv
  <2>6. source.family = "converter" => ConverterGain'
    BY <1>1, <2>2, ConverterTrades DEF GainInv
  <2>7. source.family = "fluid" => FluidGain'
    BY <1>1, <2>2, FluidTrades DEF GainInv
  <2>8. source.family = "bebop" => BebopGain'
    BY <1>1, <2>2, BebopTrades DEF GainInv
  <2> QED
    BY <1>1, <1>2, <2>3, <2>4, <2>5, <2>6, <2>7, <2>8 DEF GainInv
<1> QED
  BY <1>3, <1>4

\* The ARM's two rates multiplied back give no more than was put in: its owner sets them,
\* and the code takes what it reads.
RatesWithinPar ==
    source.family = "arm" => source.rate[1] * source.rate[2] <= PriceScale * PriceScale

LEMMA GainNothing ==
    ASSUME GainInv, ~Pool!IsStable, RatesWithinPar
    PROVE  TakerNeverGains
<1> SUFFICES ASSUME \A t \in Pool!Tokens : held[t] >= 0, NEW u \in Pool!Tokens, held[u] > 0
             PROVE  FALSE
  BY DEF TakerNeverGains, Pool!TraderNeverGains
<1>1. held[1] >= 0 /\ held[2] >= 0 /\ u \in 1 .. 3
  BY DEF Pool!Tokens
<1>2. CASE phase # "loaded" \/ ~Pool!Traded
  <2>1. held[u] = 0
    BY <1>1, <1>2 DEF GainInv, NoTokens
  <2> QED
    BY <2>1
<1>3. CASE phase = "loaded" /\ Pool!Traded
  <2>1. source.family \in {"tick", "lido", "arm", "converter", "fluid", "bebop"}
    <3>1. source.family \in {"tick"} \cup Pool!Named \cup Pool!AtOnce
      BY DEF GainInv, Pool!PoolTradesAssumption
    <3> QED
      BY <1>3, <3>1 DEF Pool!Named, Pool!AtOnce, Pool!IsStable, Pool!Traded
  <2>2. ASSUME held[3] = 0, held[1] = 0, held[2] = 0 PROVE FALSE
    BY <1>1, <2>2
  <2>3. CASE source.family = "tick"
    <3>1. TickGain /\ Chain(source)
      BY <1>3, <2>3, TickSourceFacts DEF GainInv, Pool!IsTick
    <3>2. held[1] = 0 /\ held[2] = 0
      BY <1>1, <3>1, NoBetterGains DEF TickGain
    <3> QED
      BY <2>2, <3>1, <3>2 DEF TickGain, TwoHeld
  <2>4. ASSUME NEW w1, NEW w2, RateGain(w1, w2) PROVE FALSE
    <3>1. held[1] = 0 /\ held[2] = 0
      BY <1>1, <2>4, BackedNothing DEF RateGain
    <3> QED
      BY <2>2, <2>4, <3>1 DEF RateGain, TwoHeld
  <2>5. CASE source.family = "lido"
    BY <1>3, <2>4, <2>5 DEF GainInv, LidoGain
  <2>6. CASE source.family = "arm"
    <3>1. ArmGain
      BY <1>3, <2>6 DEF GainInv
    <3>2. RateGain(pool.rate[1], PriceScale)
      BY <2>6, <3>1 DEF ArmGain, RatesWithinPar
    <3> QED
      BY <2>4, <3>2
  <2>7. CASE source.family = "converter"
    BY <1>3, <2>4, <2>7 DEF GainInv, ConverterGain
  <2>8. ASSUME NEW taken, OnceGain(taken) PROVE FALSE
    <3>1. CASE held = NoTokens
      BY <1>1, <2>2, <3>1, NoTokensHeld
    <3>2. CASE taken /\ Spent
      <4>1. PICK t \in Pool!Tokens : held[t] \in Int /\ held[t] < 0
        BY <3>2 DEF Spent
      <4>2. held[t] >= 0
        OBVIOUS
      <4> QED
        BY <4>1, <4>2
    <3> QED
      BY <2>8, <3>1, <3>2 DEF OnceGain
  <2>9. CASE source.family = "fluid"
    BY <1>3, <2>8, <2>9 DEF GainInv, FluidGain
  <2>10. CASE source.family = "bebop"
    BY <1>3, <2>8, <2>10 DEF GainInv, BebopGain
  <2> QED
    BY <2>1, <2>3, <2>5, <2>6, <2>7, <2>9, <2>10
<1> QED
  BY <1>2, <1>3

\* What the trader has gained stays so.
LEMMA GainStays ==
    ASSUME GainInv, WindowInv, ClaimInv, [PoolsNext]_<<vars, poolVars, trading>>
    PROVE  GainInv'
<1>1. ASSUME UNCHANGED poolVars PROVE GainInv'
  BY <1>1 DEF GainInv, poolVars, TickGain, LidoGain, ArmGain, ConverterGain, FluidGain, BebopGain,
              RateGain, OnceGain, Spent, TwoHeld, NoTokens, Backed, Pool!Traded, NoBetter,
              Worth1, Worth0, Depth1, Depth0, Depth, DepthAt, Top, Multiple, Reciprocal,
              Weight1, Weight0
<1>2. ASSUME Pool!Read \/ Pool!Prefetch \/ Pool!Serve \/ Pool!FollowUp PROVE GainInv'
  <2>1. source' = source /\ phase' # "loaded" /\ phase # "loaded" /\ held' = held
    BY <1>2 DEF Pool!Read, Pool!Prefetch, Pool!Serve, Pool!FollowUp, Pool!Ask
  <2>2. NoTokens' = NoTokens
    BY DEF NoTokens
  <2> QED
    BY <2>1, <2>2 DEF GainInv
<1> QED
  BY <1>1, <1>2, PoolSteps, GainLoads, GainTrades DEF Pool!Next

\* No sequence of swaps at a pool of any family leaves the trader with more of a token and
\* no less of the others: along the ticks of a pool, at the rates of the wrapper, the
\* converter and an ARM whose rates stay within par, and at offers taken once; but for the
\* Curve pools, where that rests on how near Newton's iteration comes to the root.
THEOREM NoGainButAtCurve ==
    PoolsSpec => [](~Pool!IsStable /\ RatesWithinPar => TakerNeverGains)
<1>1. PoolsStart => GainInv /\ WindowInv /\ ClaimInv
  BY DEF PoolsStart, PoolsInit, Pool!Init, GainInv, WindowInv, ClaimInv, NoTokens
<1>2. ASSUME GainInv, WindowInv, ClaimInv, [PoolsNext]_<<vars, poolVars, trading>>
      PROVE  GainInv' /\ WindowInv' /\ ClaimInv'
  BY <1>2, GainStays, WindowStays, ClaimStays
<1>3. GainInv => (~Pool!IsStable /\ RatesWithinPar => TakerNeverGains)
  BY GainNothing
<1> QED
  BY <1>1, <1>2, <1>3, PTL DEF PoolsSpec
=============================================================================
