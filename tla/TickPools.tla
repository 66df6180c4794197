----------------------------- MODULE TickPools -----------------------------
(***************************************************************************)
(* The Uniswap V3, Uniswap V4 and PancakeSwap V3 adapters: which calls     *)
(* they ask for, the state they build from the answers, and its swaps.     *)
(* A pool on the chain is a record of its version, whether its ticks are   *)
(* read in bulk, its spacing, the protocol's fee of either direction and   *)
(* its own fee, in Pips, price, tick and liquidity, and net, the liquidity *)
(* net of its initialized ticks.  A loaded state is the same record with   *)
(* the nets that were read, and the words of the bitmap that were and the  *)
(* initialized ticks in them, of which the chain's record has none.  A     *)
(* snapshot has the calls that answered and the calls that failed.         *)
(***************************************************************************)
EXTENDS TickMath

CONSTANTS Radius,      \* word_radius
          WalkTurns    \* the turns of the loop that a swap of V3 may make

Window(tick, spacing) ==
    Word(tick, spacing) - Radius .. Word(tick, spacing) + Radius

\* slot0, and the liquidity, the fee, the spacing and the tokens as one.
Statics == {<<"slot0", {}>>, <<"static", {}>>}
WordCalls(words) == {<<"word", {w}>> : w \in words}
TickCalls(ticks) == {<<"tick", {t}>> : t \in ticks}

Has(got, call) == call \in got.ok \cup got.failed

InWords(c, words) ==
    {t \in DOMAIN c.net : \E w \in words : t \in WordTicks(w, c.spacing)}
-----------------------------------------------------------------------------
\* read_requests, with the window around a configured tick when there is one.
TickReads(c, hints) ==
    Statics \cup WordCalls(UNION {Window(t, c.spacing) : t \in hints})

\* prefetch_requests: the plan the previous block's snapshot calls for, its
\* ticks included but for Pancake.
PrefetchV3(c, prior, words) ==
    IF c.bulk THEN {<<"lens", {w}>> : w \in {v \in words : InWords(prior, {v}) # {}}}
              ELSE {}

PrefetchV4(c, prior, words) ==
    IF c.bulk THEN {<<"bulk", InWords(prior, words)>>}
              ELSE TickCalls(InWords(prior, words))

TickPrefetch(c, prior) ==
    LET words == Window(prior.tick, c.spacing) IN
    Statics \cup WordCalls(words)
            \cup CASE c.version = "v3" -> PrefetchV3(c, prior, words)
                   [] c.version = "v4" -> PrefetchV4(c, prior, words)
                   [] c.version = "pancake" -> {}

\* The calls of one word once its bitmap is known (V3 and Pancake).
WordRequests(c, got, word) ==
    LET individual == TickCalls(InWords(c, {word})) IN
    IF c.bulk /\ ~(\A call \in individual : Has(got, call))
      THEN {<<"lens", {word}>>}
      ELSE individual

Refusal == [ok |-> FALSE]

\* Mutant: once a word is known, no other word of the window is asked for.
HintedDependents(c, got) ==
    LET words == {w \in Window(c.tick, c.spacing) : Has(got, <<"word", {w}>>)} IN
    [ok |-> TRUE,
     calls |-> IF words = {} THEN WordCalls(Window(c.tick, c.spacing))
               ELSE {call \in UNION {WordRequests(c, got, w) : w \in words} : ~Has(got, call)}]

DependentsV3(c, got, words) == UNION {WordRequests(c, got, w) : w \in words}

DependentsV4(c, words) ==
    IF c.bulk THEN {<<"bulk", InWords(c, words)>>} ELSE TickCalls(InWords(c, words))

\* dependent_requests: what is still to ask, or the refusal of the pool.
TickDependents(c, got) ==
    LET words == Window(c.tick, c.spacing)
        unknown == {w \in words : ~Has(got, <<"word", {w}>>)}
        asked == IF c.version = "v4" THEN DependentsV4(c, words)
                                     ELSE DependentsV3(c, got, words)
        gates == IF c.version = "v4" THEN {<<"slot0", {}>>} ELSE Statics IN
    CASE ~(gates \subseteq got.ok) -> [ok |-> TRUE, calls |-> {}]
      [] gates \subseteq got.ok /\ unknown # {} ->
            [ok |-> TRUE, calls |-> WordCalls(unknown)]
      [] gates \subseteq got.ok /\ unknown = {} ->
            IF WordCalls(words) \subseteq got.ok
              THEN [ok |-> TRUE, calls |-> {call \in asked : ~Has(got, call)}]
              ELSE Refusal
-----------------------------------------------------------------------------
\* _contiguous_range: the words around the current one that were read.
Contiguous(loaded, centre) ==
    {w \in loaded : \A v \in Least(w, centre) .. Most(w, centre) : v \in loaded}

\* The ticks of the range whose net the snapshot yields.
NetsV3(c, got, words) ==
    {t \in InWords(c, words) :
        \/ <<"tick", {t}>> \in got.ok
        \/ c.version = "v3" /\ <<"lens", {Word(t, c.spacing)}>> \in got.ok}

NetsV4(c, got, words) ==
    IF c.bulk THEN InWords(c, words)
              ELSE {t \in InWords(c, words) : <<"tick", {t}>> \in got.ok}

LoadsV3(c, nets, words) == nets = InWords(c, words)

\* A net that is missing does not refuse a V4 pool read tick by tick: the swap
\* that would cross the tick is refused.
LoadsV4(c, got, words) ==
    /\ c.price \in Ratio[MinTick] .. Ratio[MaxTick] - 1
    /\ c.bulk => <<"bulk", InWords(c, words)>> \in got.ok

\* load_state
TickLoad(c, got) ==
    LET loaded == {w \in Window(c.tick, c.spacing) : <<"word", {w}>> \in got.ok}
        words == Contiguous(loaded, Word(c.tick, c.spacing))
        nets == IF c.version = "v4" THEN NetsV4(c, got, words) ELSE NetsV3(c, got, words) IN
    IF /\ Statics \subseteq got.ok
       /\ Word(c.tick, c.spacing) \in loaded
       /\ IF c.version = "v4" THEN LoadsV4(c, got, words) ELSE LoadsV3(c, nets, words)
      THEN [ok |-> TRUE,
            state |-> [c EXCEPT !.net = [t \in nets |-> c.net[t]],
                                !.words = words, !.initialized = InWords(c, words)]]
      ELSE Refusal

\* The state of the whole pool, that no window bounds.
WholePool(c) ==
    [c EXCEPT !.words = Word(MinTick, c.spacing) - 1 .. Word(MaxTick, c.spacing) + 1,
              !.initialized = DOMAIN c.net]
-----------------------------------------------------------------------------
TickAfter(zeroForOne, walk, tick, price) ==
    IF price = Ratio[tick] THEN IF zeroForOne THEN tick - 1 ELSE tick
    ELSE IF price # walk.price THEN TickAt(price) ELSE walk.tick

\* Mutant: the net of a tick is added in either direction.
CrossedUp(zeroForOne, liquidity, net) == liquidity + net

Crossed(zeroForOne, liquidity, net) ==
    IF zeroForOne THEN liquidity - net ELSE liquidity + net

\* Crossing an initialized tick, or stopping short of the next one.
AfterStep(pool, zeroForOne, walk, next, step) ==
    LET tick == Most(MinTick, Least(MaxTick, next.tick))
        crossed == step.price = Ratio[tick] /\ next.initialized
        known == tick \in DOMAIN pool.net IN
    [ok |-> crossed => known,
     price |-> step.price,
     tick |-> TickAfter(zeroForOne, walk, tick, step.price),
     liquidity |-> IF crossed /\ known
                     THEN Crossed(zeroForOne, walk.liquidity, pool.net[tick])
                     ELSE walk.liquidity,
     remaining |-> walk.remaining - step.in - step.fee,
     out |-> walk.out + step.out]

PriceLimit(zeroForOne) == IF zeroForOne THEN Ratio[MinTick] + 1 ELSE Ratio[MaxTick] - 1

\* Mutant: a word that was not loaded counts as an empty one.
AnyWord(pool, word) == TRUE

\* _word
Covered(pool, word) == word \in pool.words

\* A V4 pool also pays the protocol, by direction.
StepFee(pool, zeroForOne) ==
    SwapFee(pool.protocol[IF zeroForOne THEN 1 ELSE 2], pool.fee)

\* One turn of the loop: a word that is not loaded refuses the swap.
Advance(pool, zeroForOne, walk) ==
    LET next == NextTick(pool.initialized, walk.tick, pool.spacing, zeroForOne)
        tick == Most(MinTick, Least(MaxTick, next.tick))
        target == IF zeroForOne THEN Most(Ratio[tick], PriceLimit(zeroForOne))
                                ELSE Least(Ratio[tick], PriceLimit(zeroForOne))
        fee == StepFee(pool, zeroForOne) IN
    IF Covered(pool, next.word)
      THEN AfterStep(pool, zeroForOne, walk, next,
                     SwapStep(pool.version, walk.price, target, walk.liquidity,
                              walk.remaining, fee))
      ELSE [walk EXCEPT !.ok = FALSE]

\* While input is left and the price may still move.
Goes(zeroForOne, walk) ==
    walk.ok /\ walk.remaining # 0 /\ walk.price # PriceLimit(zeroForOne)

\* V3 counts the turns it makes, V4 also the one that finds nothing left to do.
TurnLimit(version) == IF version = "v4" THEN WalkTurns - 1 ELSE WalkTurns

Walk(pool, zeroForOne, start) ==
    LET turn[n \in 0 .. TurnLimit(pool.version)] ==
          IF n = 0 THEN start
          ELSE LET walk == turn[n - 1] IN
               IF Goes(zeroForOne, walk) THEN Advance(pool, zeroForOne, walk) ELSE walk IN
    turn[TurnLimit(pool.version)]

\* _swap: input left at the limit of the protocol, or after the last turn,
\* refuses the swap.
TickSwap(pool, zeroForOne, amount) ==
    LET walk == Walk(pool, zeroForOne,
                     [ok |-> TRUE, price |-> pool.price, tick |-> pool.tick,
                      liquidity |-> pool.liquidity, remaining |-> amount, out |-> 0]) IN
    IF amount = 0
      THEN [ok |-> TRUE, out |-> 0, next |-> pool]
      ELSE IF /\ IF zeroForOne THEN PriceLimit(zeroForOne) < pool.price
                               ELSE PriceLimit(zeroForOne) > pool.price
              /\ walk.ok /\ walk.remaining = 0
        THEN [ok |-> TRUE, out |-> walk.out,
              next |-> [pool EXCEPT !.price = walk.price, !.tick = walk.tick,
                                    !.liquidity = walk.liquidity]]
        ELSE Refusal
=============================================================================
