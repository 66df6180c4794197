------------------------------- MODULE LitePsm -------------------------------
(***************************************************************************)
(* LitePsmState (adapters/litepsm.py): integer arithmetic of the Maker     *)
(* LitePSM.  sellGem takes an exact amount of gem (USDC); buyGem takes an  *)
(* exact output, so a given amount of DAI can be spent only if it is what  *)
(* some whole amount of gem costs.                                         *)
(*                                                                         *)
(* uint256 is 0..MaxUint, 10**18 is Wad, to18ConversionFactor is Factor:   *)
(* parameters, so that a small instance reaches every boundary.            *)
(***************************************************************************)
EXTENDS Naturals

CONSTANTS Factor, Wad, MaxUint, Halted

ASSUME LitePsmAssumption ==
    /\ Factor \in Nat \ {0}
    /\ Wad \in Nat \ {0}
    /\ MaxUint \in Nat
    /\ Halted \notin Nat

Uint == 0 .. MaxUint
Fees == 0 .. Wad \cup {Halted}

Psms == [tin : Fees, tout : Fees,
         daiBuffer : Uint, pocketGem : Uint, allowance : Uint]

\* The exception every refusal raises.
Unsupported == [ok |-> FALSE]

Fee(gross, rate) == (gross * rate) \div Wad

\* A fee whose product overflows uint256 cannot be charged.
FeeFits(gross, rate) == gross <= MaxUint /\ gross * rate <= MaxUint
-----------------------------------------------------------------------------
\* Mutant: the fee is paid out instead of kept.
SellDaiPlus(psm, gemIn) == gemIn * Factor + Fee(gemIn * Factor, psm.tin)

\* What sellGem pays for an amount of gem.
SellDai(psm, gemIn) == gemIn * Factor - Fee(gemIn * Factor, psm.tin)

SellGem(psm, gemIn) ==
    IF /\ psm.tin # Halted
       /\ FeeFits(gemIn * Factor, psm.tin)
       /\ SellDai(psm, gemIn) <= psm.daiBuffer
       /\ psm.pocketGem + gemIn <= MaxUint
      THEN [ok |-> TRUE, out |-> SellDai(psm, gemIn),
            next |-> [psm EXCEPT !.daiBuffer = @ - SellDai(psm, gemIn),
                                 !.pocketGem = @ + gemIn]]
      ELSE Unsupported
-----------------------------------------------------------------------------
\* What buyGem charges for an amount of gem, and whether uint256 holds it.
RequiredDai(psm, gemOut) == gemOut * Factor + Fee(gemOut * Factor, psm.tout)

RequiredFits(psm, gemOut) ==
    FeeFits(gemOut * Factor, psm.tout) /\ RequiredDai(psm, gemOut) <= MaxUint

Affordable(psm, daiIn, gemOut) ==
    RequiredFits(psm, gemOut) /\ RequiredDai(psm, gemOut) <= daiIn

\* Mutant: the allowance of the pocket is not looked at.
BuySettlesUnallowed(psm, daiIn, gemOut) ==
    /\ RequiredDai(psm, gemOut) = daiIn
    /\ gemOut <= psm.pocketGem
    /\ psm.daiBuffer + daiIn <= MaxUint

\* The amount found must cost all of daiIn and be there to be drawn.
BuySettles(psm, daiIn, gemOut) ==
    /\ RequiredDai(psm, gemOut) = daiIn
    /\ gemOut <= psm.pocketGem
    /\ gemOut <= psm.allowance
    /\ psm.daiBuffer + daiIn <= MaxUint

\* Mutant: the fee does not reach the buffer.
AfterBuyNet(psm, daiIn, gemOut) ==
    [psm EXCEPT !.daiBuffer = @ + gemOut * Factor,
                !.pocketGem = @ - gemOut,
                !.allowance = @ - gemOut]

\* The allowance shrinks with every draw, even from MAX_UINT256.
AfterBuy(psm, daiIn, gemOut) ==
    [psm EXCEPT !.daiBuffer = @ + daiIn,
                !.pocketGem = @ - gemOut,
                !.allowance = @ - gemOut]

\* The exact preimage of daiIn, which the code finds by binary search (see
\* LitePsmTrades); there is at most one, since each unit of gem costs at
\* least Factor more.
Preimage(psm, daiIn) ==
    {g \in Uint : RequiredFits(psm, g) /\ BuySettles(psm, daiIn, g)}

BuyGem(psm, daiIn) ==
    IF psm.tout # Halted /\ Preimage(psm, daiIn) # {}
      THEN LET gemOut == CHOOSE g \in Preimage(psm, daiIn) : TRUE
           IN  [ok |-> TRUE, out |-> gemOut, next |-> AfterBuy(psm, daiIn, gemOut)]
      ELSE Unsupported
-----------------------------------------------------------------------------
(* litepsm_support.py: the largest trades that are accepted, by a search   *)
(* that takes what is accepted for a prefix, and refuses below its end.    *)

LastAccepted(accepted, low, high) ==
    LET search[span \in (low .. high) \X (low .. high)] ==
            LET middle == (span[1] + span[2]) \div 2 IN
            IF span[1] + 1 >= span[2] THEN span[1]
            ELSE IF middle \in accepted THEN search[<<middle, span[2]>>]
                                        ELSE search[<<span[1], middle>>]
    IN  search[<<low, high>>]

MaxSellGemInput(psm) ==
    LET most == MaxUint \div Factor
        low == LastAccepted({g \in 1 .. most : SellGem(psm, g).ok}, 0, most + 1) IN
    IF psm.tin # Halted /\ psm.tin # Wad /\ low > 0 /\ SellGem(psm, low).out > 0
      THEN low ELSE 0

\* An output whose price buys it, and not a smaller one.
Buyable(psm, gem) ==
    /\ RequiredFits(psm, gem)
    /\ BuyGem(psm, RequiredDai(psm, gem)).ok
    /\ BuyGem(psm, RequiredDai(psm, gem)).out = gem

MaxBuyGemOutput(psm) ==
    LET most == IF psm.pocketGem < psm.allowance THEN psm.pocketGem ELSE psm.allowance IN
    IF psm.tout = Halted THEN 0
    ELSE LastAccepted({g \in 1 .. most : Buyable(psm, g)}, 0, most + 1)
=============================================================================
