---------------------------- MODULE StablePools ----------------------------
(***************************************************************************)
(* The Curve adapters: a StableSwap-NG pool of any number of coins, and    *)
(* the legacy 3pool.  A state is a record of the kind, the balances and    *)
(* rates of the coins, the amplification, the fee, the multiplier of the   *)
(* fee off the peg and the share of the fee that the admin may claim.  The *)
(* two kinds share the invariant and differ in where they round.           *)
(***************************************************************************)
EXTENDS Integers, Sequences, FiniteSetsExt

CONSTANTS Precision,       \* 10^18 in the code
          FeeUnit,         \* FEE_DENOMINATOR, 10^10
          AmpUnit,         \* A_PRECISION, 100; the 3pool has none
          Turns            \* the 255 turns of either iteration

Coins(pool) == 1 .. Len(pool.balances)
Unit(pool) == IF pool.kind = "ng" THEN AmpUnit ELSE 1
Near(a, b) == a - b \in -1 .. 1

\* A loop of n turns, each a function of what the one before it left.
Loop(step, start, n) ==
    LET after[k \in 0 .. n] == IF k = 0 THEN start ELSE step[k][after[k - 1]]
    IN  after[n]

SumOver(xp) == MapThenSumSet(LAMBDA k : xp[k], DOMAIN xp)
Power(base, n) == Loop([k \in 1 .. n |-> [product \in Nat |-> product * base]], 1, n)

\* d times d over each of the weights in turn.
Diluted(d, weights) ==
    Loop([k \in 1 .. Len(weights) |-> [product \in Nat |-> (product * d) \div weights[k]]],
         d, Len(weights))

\* xp: the balances at their rates.
Scaled(pool) == [k \in Coins(pool) |-> (pool.rates[k] * pool.balances[k]) \div Precision]
-----------------------------------------------------------------------------
(* get_D and get_y: Newton's iterations, which end when two turns agree to *)
(* one unit and refuse the pool when they never do, or divide by zero.     *)

Iterates == [value : Nat, status : {"moving", "settled", "stuck"}]

Newton(at, dividend, divisor) ==
    LET next == dividend \div divisor IN
    IF at.status # "moving" THEN at
    ELSE IF divisor <= 0 THEN [value |-> at.value, status |-> "stuck"]
    ELSE [value |-> next,
          status |-> IF Near(next, at.value) THEN "settled" ELSE "moving"]

Converged(turn, start) ==
    LET last == Loop([k \in 1 .. Turns |-> turn],
                     [value |-> start, status |-> "moving"], Turns) IN
    IF last.status = "settled" THEN [ok |-> TRUE, value |-> last.value]
                               ELSE [ok |-> FALSE]

\* D_P: the NG pool divides by n^n at the end, the 3pool at every coin.
DProduct(pool, xp, d) ==
    LET n == Len(xp) IN
    IF pool.kind = "ng"
      THEN Diluted(d, xp) \div Power(n, n)
      ELSE Diluted(d, [k \in 1 .. n |-> xp[k] * n])

NextD(pool, xp, at) ==
    LET n == Len(xp)
        ann == pool.amp * n
        d == at.value
        product == DProduct(pool, xp, d) IN
    Newton(at, ((ann * SumOver(xp)) \div Unit(pool) + product * n) * d,
           ((ann - Unit(pool)) * d) \div Unit(pool) + (n + 1) * product)

GetD(pool, xp) ==
    IF \/ \E k \in DOMAIN xp : xp[k] = 0
       \/ IF pool.kind = "ng" THEN pool.amp * Len(xp) < AmpUnit ELSE pool.amp * 3 <= 1
      THEN [ok |-> FALSE]
      ELSE Converged([at \in Iterates |-> NextD(pool, xp, at)], SumOver(xp))

\* The coins but the one that is bought.
Without(xp, j) == [k \in 1 .. Len(xp) - 1 |-> xp[IF k < j THEN k ELSE k + 1]]

GetY(pool, i, j, x, xp, d) ==
    LET n == Len(xp)
        ann == pool.amp * n
        others == Without([xp EXCEPT ![i] = x], j)
        before == Diluted(d, [k \in 1 .. n - 1 |-> others[k] * n])
        c == (before * d * Unit(pool)) \div (ann * n)
        b == SumOver(others) + (d * Unit(pool)) \div ann - d IN
    Converged([at \in Iterates |-> Newton(at, at.value * at.value + c, 2 * at.value + b)], d)
-----------------------------------------------------------------------------
\* dynamic_fee: the fee of an NG pool grows off the peg.
DynamicFee(pool, xi, xj) ==
    IF pool.offpeg <= FeeUnit
      THEN pool.fee
      ELSE (pool.offpeg * pool.fee)
             \div (((pool.offpeg - FeeUnit) * 4 * xi * xj) \div ((xi + xj) * (xi + xj)) + FeeUnit)

\* What a swap would pay before its fee, and the fee, both scaled.
Priced(pool, i, j, xp, x, y) ==
    LET raw == xp[j] - y.value - 1
        rate == IF pool.kind = "ng"
                  THEN DynamicFee(pool, (xp[i] + x) \div 2, (xp[j] + y.value) \div 2)
                  ELSE pool.fee IN
    IF y.ok /\ raw >= 0
      THEN [ok |-> TRUE, raw |-> raw, fee |-> (raw * rate) \div FeeUnit]
      ELSE [ok |-> FALSE]

ExchangeAt(pool, i, j, xp, d, x) ==
    IF d.ok THEN Priced(pool, i, j, xp, x, GetY(pool, i, j, x, xp, d.value))
            ELSE [ok |-> FALSE]

Exchange(pool, i, j, amount) ==
    LET xp == Scaled(pool) IN
    ExchangeAt(pool, i, j, xp, GetD(pool, xp),
               xp[i] + (amount * pool.rates[i]) \div Precision)

Unscaled(pool, j, amount) == (amount * Precision) \div pool.rates[j]

AdminShare(pool, j, fee) == Unscaled(pool, j, (fee * pool.admin) \div FeeUnit)

\* swap: the output and the admin's claim leave the balance of the coin.
Settled(pool, i, j, amount, exchange) ==
    LET out == Unscaled(pool, j, exchange.raw - exchange.fee)
        admin == AdminShare(pool, j, exchange.fee) IN
    IF ~exchange.ok THEN [ok |-> FALSE]
    ELSE IF exchange.fee > exchange.raw \/ out = 0 \/ pool.balances[j] < out + admin
      THEN [ok |-> FALSE]
      ELSE [ok |-> TRUE, out |-> out,
            next |-> [pool EXCEPT !.balances[i] = @ + amount,
                                  !.balances[j] = @ - out - admin]]

StableSwap(pool, i, j, amount) ==
    IF amount = 0 THEN [ok |-> TRUE, out |-> 0, next |-> pool]
                  ELSE Settled(pool, i, j, amount, Exchange(pool, i, j, amount))

\* Mutant: the 3pool's quote leaves out the fee.
NoFee(pool, gross) == 0

LegacyFee(pool, gross) == (pool.fee * gross) \div FeeUnit

\* quote_exact_in: an NG pool quotes its swap, the 3pool takes the fee from
\* the output after its scale is undone.
LegacyQuote(pool, j, exchange) ==
    LET gross == Unscaled(pool, j, exchange.raw) IN
    IF exchange.ok THEN [ok |-> TRUE, out |-> gross - LegacyFee(pool, gross)]
                   ELSE [ok |-> FALSE]

StableQuote(pool, i, j, amount) ==
    CASE pool.kind = "ng" -> StableSwap(pool, i, j, amount)
      [] pool.kind = "3pool" /\ amount = 0 -> [ok |-> TRUE, out |-> 0]
      [] pool.kind = "3pool" /\ amount # 0 ->
            LegacyQuote(pool, j, Exchange(pool, i, j, amount))
-----------------------------------------------------------------------------
\* load_state: what refuses a pool whose calls were all answered.
LegacyLoads(pool) ==
    /\ \A k \in Coins(pool) : pool.balances[k] # 0
    /\ pool.fee <= FeeUnit /\ pool.admin <= FeeUnit

\* An NG pool's coins must be plain, and A() must not have lost precision.
StableLoads(pool) ==
    /\ LegacyLoads(pool)
    /\ pool.kind = "ng" => /\ pool.plain
                           /\ pool.amp % AmpUnit = 0
                           /\ \A k \in Coins(pool) : pool.rates[k] # 0
=============================================================================
