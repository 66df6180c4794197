---------------------------- MODULE LitePsmTrades ----------------------------
(***************************************************************************)
(* Any sequence of swaps of one trader against one LitePSM, each applied   *)
(* to the state the last one returned (LitePsmState.swap), with the binary *)
(* search of _buy_gem_exact_input as the loop it is.                       *)
(***************************************************************************)
EXTENDS LitePsm

CONSTANTS TotalDai, TotalGem,  \* what trader and PSM hold between them
          Loaded               \* the states load_state may have built

ASSUME LitePsmTradesAssumption ==
    /\ TotalDai \in Uint /\ TotalGem \in Uint
    /\ Loaded \subseteq Psms

VARIABLES psm,
          dai, gem,       \* the trader's balances
          pc,             \* "idle", "search", or how the last swap ended
          daiIn,          \* the input of the buy under way
          low, high       \* the interval of its binary search

vars == <<psm, dai, gem, pc, daiIn, low, high>>

AtRest == {"idle", "swapped", "refused"}

TypeOK ==
    /\ psm \in Psms
    /\ dai \in Uint /\ gem \in Uint
    /\ pc \in AtRest \cup {"search"}
    /\ daiIn \in Uint
    /\ low \in 0 .. high /\ high \in Uint

Init ==
    /\ psm \in Loaded
    /\ dai \in Uint /\ dai + psm.daiBuffer = TotalDai
    /\ gem \in Uint /\ gem + psm.pocketGem = TotalGem
    /\ pc = "idle"
    /\ daiIn = 0 /\ low = 0 /\ high = 0
-----------------------------------------------------------------------------
Sell(gemIn) ==
    LET outcome == SellGem(psm, gemIn) IN
    /\ pc \in AtRest
    /\ IF outcome.ok
         THEN /\ psm' = outcome.next
              /\ gem' = gem - gemIn
              /\ dai' = dai + outcome.out
              /\ pc' = "swapped"
         ELSE /\ pc' = "refused"
              /\ UNCHANGED <<psm, gem, dai>>
    /\ UNCHANGED <<daiIn, low, high>>

\* Mutant: the upper bound of the search is one too low at a lattice point.
BuyShort(amount) ==
    /\ pc \in AtRest
    /\ psm.tout # Halted
    /\ daiIn' = amount
    /\ low' = 0
    /\ high' = IF amount = 0 THEN 0 ELSE (amount - 1) \div Factor
    /\ pc' = "search"
    /\ UNCHANGED <<psm, dai, gem>>

Buy(amount) ==
    /\ pc \in AtRest
    /\ psm.tout # Halted
    /\ daiIn' = amount
    /\ low' = 0
    /\ high' = amount \div Factor
    /\ pc' = "search"
    /\ UNCHANGED <<psm, dai, gem>>

BuyHalted ==
    /\ pc \in AtRest
    /\ psm.tout = Halted
    /\ pc' = "refused"
    /\ UNCHANGED <<psm, dai, gem, daiIn, low, high>>

\* Mutant: the middle is rounded down.
MiddleDown == (low + high) \div 2

\* The upper middle, so that the interval always shrinks.
Middle == (low + high + 1) \div 2

\* Mutant: an amount that costs exactly the input is taken for too dear.
NarrowStrict ==
    /\ pc = "search" /\ low < high
    /\ IF Affordable(psm, daiIn, Middle) /\ RequiredDai(psm, Middle) < daiIn
         THEN low' = Middle /\ UNCHANGED high
         ELSE high' = Middle - 1 /\ UNCHANGED low
    /\ UNCHANGED <<psm, dai, gem, pc, daiIn>>

\* A price that overflows uint256 is too high a price.
Narrow ==
    /\ pc = "search" /\ low < high
    /\ IF Affordable(psm, daiIn, Middle)
         THEN low' = Middle /\ UNCHANGED high
         ELSE high' = Middle - 1 /\ UNCHANGED low
    /\ UNCHANGED <<psm, dai, gem, pc, daiIn>>

Settle ==
    /\ pc = "search" /\ low = high
    /\ IF BuySettles(psm, daiIn, low)
         THEN /\ psm' = AfterBuy(psm, daiIn, low)
              /\ dai' = dai - daiIn
              /\ gem' = gem + low
              /\ pc' = "swapped"
         ELSE /\ pc' = "refused"
              /\ UNCHANGED <<psm, dai, gem>>
    /\ daiIn' = 0 /\ low' = 0 /\ high' = 0
-----------------------------------------------------------------------------
Search == Narrow \/ Settle

\* The shortcut for an input of zero changes what Sell(0) and Buy(0) change.
Next ==
    \/ \E amount \in 0 .. gem : Sell(amount)
    \/ \E amount \in 0 .. dai : Buy(amount)
    \/ BuyHalted
    \/ Search

Spec == Init /\ [][Next]_vars

\* A Python function that has been called runs on.
FairSpec == Spec /\ WF_vars(Search)
-----------------------------------------------------------------------------
\* When the interval has shrunk to a point, that point is the largest amount
\* of gem daiIn can pay for, overflowing prices being too high
\* (_buy_gem_exact_input, "binary search the monotonic source formula").
SearchFindsLargest ==
    pc = "search" /\ low = high =>
        \A g \in Uint : Affordable(psm, daiIn, g) <=> g <= low

\* The loop computes BuyGem: no exact input that some amount of gem costs, and
\* that can be drawn, is refused, and what is drawn is that amount.
SearchSettlesPreimage ==
    [][pc = "search" /\ pc' # "search" =>
          LET outcome == BuyGem(psm, daiIn) IN
          IF outcome.ok
            THEN pc' = "swapped" /\ psm' = outcome.next /\ gem' = gem + outcome.out
            ELSE pc' = "refused" /\ psm' = psm /\ gem' = gem]_vars

\* Whatever the sequence of sells and buys, fees and roundings, the trader
\* never gains: valued at the conversion factor, the holdings only shrink.
TraderNeverGains == [][dai' + Factor * gem' <= dai + Factor * gem]_vars

\* Nothing is created or lost between the trader and the PSM, and a refused
\* swap changes neither.
Conserved ==
    /\ dai + psm.daiBuffer = TotalDai
    /\ gem + psm.pocketGem = TotalGem

\* The search ends.
SearchEnds == pc = "search" ~> pc \in AtRest
=============================================================================
