----------------------------- MODULE PoolTrades -----------------------------
(***************************************************************************)
(* One pool of any family from its first call to its last swap: what an    *)
(* adapter asks for (read_requests or the prefetch of the previous block,  *)
(* then dependent_requests as long as it wants more), which of the answers *)
(* fail, the state load_state builds of them, and any sequence of swaps of *)
(* one trader, each on the state the last one returned.                    *)
(***************************************************************************)
EXTENDS TickPools, StablePools, RatePools, FiniteSets

CONSTANTS Sources,         \* pools on the chain: family, identity and facts
          Hints,           \* ticks that a record's configuration hints at
          Priors,          \* what the previous block's snapshot may say
          Amounts,         \* Amounts[f], the inputs tried on family f
          MaxFailed, MaxTrades

Tokens == 1 .. 3

\* A pair whose balances are not its reserves is not a plain V2 pair.
PairLoads(pair) == /\ pair.reserves = pair.balances
                   /\ pair.reserves[1] # 0 /\ pair.reserves[2] # 0

\* What refuses a pool of which everything was read at once.
ValuesLoad(values) ==
    CASE values.family = "stable" -> StableLoads(values)
      [] values.family = "lido" -> LidoLoads(values)
      [] values.family = "arm" -> ArmLoads(values)
      [] values.family = "fluid" -> FluidLoads(values)
      [] values.family = "bebop" -> BebopLoads(values, values.timestamp)
      [] values.family = "v2" -> PairLoads(values)

Named == {"psm", "wrapper", "converter"}
AtOnce == {"stable", "lido", "arm", "fluid", "bebop", "v2"}

\* The liquidity in range at a tick: what the ticks at or below it add up to.
Below(net, tick) == MapThenSumSet(LAMBDA t : net[t], {t \in DOMAIN net : t <= tick})

\* Prices rise with the tick.
PriceTable ==
    /\ MinTick \in Int /\ MaxTick \in Int /\ MinTick < MaxTick
    /\ One \in Nat \ {0} /\ WordBits \in Nat \ {0}
    /\ \A t \in Ticks : Ratio[t] \in Nat \ {0}
    /\ \A t, u \in Ticks : t < u => Ratio[t] < Ratio[u]

TickSource(c) ==
    [family : {"tick"}, identity : BOOLEAN, healthy : BOOLEAN,
     version : {"v3", "v4", "pancake"}, bulk : BOOLEAN, spacing : Nat \ {0},
     protocol : [1 .. 2 -> 0 .. Pips], fee : 0 .. Pips,
     price : Nat, tick : Ticks, liquidity : Nat, net : [DOMAIN c.net -> Int],
     words : {{}}, initialized : {{}}]

Initialized(c) == c.price \in Ratio[MinTick] .. Ratio[MaxTick] - 1

\* What the chain's contracts keep of a pool.  Its liquidity is what its ticks
\* add up to, nowhere less than none; its price is between those of its tick
\* and of the next, a stop on a tick leaving the tick below.  A V4 price may
\* not be initialized; a pool is called healthy when its family has no reason
\* to refuse it: it is what its record says, its price is initialized, and
\* values that are read at once are acceptable.
TickFacts(c) ==
    /\ c \in TickSource(c)
    /\ c.version = "pancake" => ~c.bulk
    /\ c.fee = Pips => c.version = "v4"
    /\ IsFiniteSet(DOMAIN c.net) /\ DOMAIN c.net \subseteq Ticks
    /\ \A t \in DOMAIN c.net : (t \div c.spacing) * c.spacing = t
    /\ \A t \in Ticks : Below(c.net, t) >= 0
    /\ c.liquidity = Below(c.net, c.tick)
    /\ c.healthy \/ c.version # "v4" => Initialized(c)
    /\ Initialized(c) =>
          c.tick < MaxTick /\ Ratio[c.tick] <= c.price /\ c.price <= Ratio[c.tick + 1]

\* What the named and the offered pools keep, each with its contract's values.
LidoPools ==
    [family : {"lido"}, identity : BOOLEAN, healthy : BOOLEAN,
     pooled : Nat, shares : Nat, supply : Nat, backing : Nat]
ArmPools ==
    [family : {"arm"}, identity : BOOLEAN, healthy : BOOLEAN,
     paused : BOOLEAN, implementation : BOOLEAN, rate : [1 .. 2 -> Nat],
     weth : Nat, queued : Nat, claimed : Nat, held : Nat, pooled : Nat, shares : Nat]

FluidPools ==
    [family : {"fluid"}, identity : BOOLEAN, healthy : BOOLEAN,
     precision : [1 .. 2 -> [up : Nat \ {0}, down : Nat \ {0}]],
     fee : Nat, center : Nat, sameBlock : BOOLEAN,
     lastPrice : Nat, olderPrice : Nat, lastCenter : Nat, revenue : Nat,
     curve : [{"col", "debt"} -> [real : [1 .. 2 -> Nat], imaginary : [1 .. 2 -> Nat]]],
     enabled : [{"col", "debt"} -> BOOLEAN],
     withdrawable : [1 .. 2 -> Nat], borrowable : [1 .. 2 -> Nat],
     paused : BOOLEAN, executed : BOOLEAN]

BebopPools ==
    [family : {"bebop"}, identity : BOOLEAN, healthy : BOOLEAN,
     sell : 1 .. 2, amountIn : Nat, amountOut : Nat, signed : BOOLEAN,
     historical : BOOLEAN, expiry : Nat, timestamp : Nat, consumed : BOOLEAN]

CurvePools ==
    [family : {"stable"}, identity : BOOLEAN, healthy : BOOLEAN, kind : {"ng", "3pool"},
     balances : Seq(Nat), rates : Seq(Nat), amp : Nat, fee : Nat, offpeg : Nat,
     admin : Nat, plain : BOOLEAN]

\* A rate for every coin; the 3pool's, which its adapter names (RATES), are
\* multiples of the precision.
CurveRates(c) ==
    /\ Len(c.rates) = Len(c.balances)
    /\ c.kind = "3pool" => \A k \in DOMAIN c.rates : c.rates[k] # 0 /\ c.rates[k] % Precision = 0

PoolTradesAssumption ==
    /\ Precision \in Nat \ {0} /\ FeeUnit \in Nat \ {0} /\ AmpUnit \in Nat \ {0}
    /\ Turns \in Nat
    /\ MinInput \in Nat \ {0}
    /\ Radius \in Nat /\ WalkTurns \in Nat \ {0} /\ PriceScale \in Nat \ {0}
    /\ PriceTable
    /\ \A s \in Sources :
          /\ s.family \in {"tick"} \cup Named \cup AtOnce
          /\ Amounts[s.family] \subseteq Nat
          /\ s.healthy => s.identity
          /\ s.family = "tick" => TickFacts(s)
          /\ s.family \in AtOnce /\ s.healthy => ValuesLoad(s)
          /\ s.family = "stable" => s \in CurvePools /\ CurveRates(s)
          /\ s.family = "lido" => s \in LidoPools
          /\ s.family = "arm" => s \in ArmPools
          /\ s.family = "fluid" => s \in FluidPools
          /\ s.family = "bebop" => s \in BebopPools

VARIABLES source, got, wanted, phase, pool, whole,
          held,            \* the trader's balance of each token, from zero
          trades

vars == <<source, got, wanted, phase, pool, whole, held, trades>>

IsTick == source.family = "tick"
IsStable == source.family = "stable"

TypeOK ==
    /\ source \in Sources
    /\ phase \in {"new", "asked", "served", "complete", "loaded", "refused"}
    /\ wanted # {} => phase = "asked"
    /\ got.ok \cap (got.failed \cup wanted) = {}
    /\ Cardinality(got.failed) <= MaxFailed
    /\ trades \in 0 .. MaxTrades
    /\ held \in [Tokens -> Int]

Init ==
    /\ source \in Sources
    /\ got = [ok |-> {}, failed |-> {}]
    /\ wanted = {}
    /\ phase = "new"
    /\ pool = source /\ whole = source
    /\ held = [t \in Tokens |-> 0]
    /\ trades = 0
-----------------------------------------------------------------------------
(* The other families.  A LitePSM, its wrapper and the converter name the  *)
(* contracts whose balances or authorities are read next; the rest tell    *)
(* what they are (identity) and what they hold (values) in one batch.      *)

Calls(names) == {<<name, {}>> : name \in names}

PsmReads == Calls({"gem", "dai", "pocket", "terms"})
WrapperReads == Calls({"psm", "gem", "pocket", "usds", "terms"})
ConverterReads == Calls({"daiJoin", "usdsJoin", "dai", "usds"})

FixedReads ==
    CASE source.family = "psm" -> PsmReads
      [] source.family = "wrapper" -> WrapperReads
      [] source.family = "converter" -> ConverterReads
      [] source.family = "bebop" -> {}
      [] OTHER -> Calls({"identity", "values"})

\* The contracts named, and what is read of them: the fees and, for the
\* wrapper, its own token are not needed for that.
PsmFollows == [named |-> Calls({"gem", "dai", "pocket"}),
               calls |-> Calls({"buffer", "stock", "allowance"})]
WrapperFollows == [named |-> Calls({"psm", "gem", "pocket"}),
                   calls |-> Calls({"buffer", "stock", "allowance"})]
ConverterFollows == [named |-> ConverterReads,
                     calls |-> Calls({"live", "usdsWards", "daiWards"})]

Follows ==
    CASE source.family = "psm" -> PsmFollows
      [] source.family = "wrapper" -> WrapperFollows
      [] source.family = "converter" -> ConverterFollows
      [] OTHER -> [named |-> {}, calls |-> {}]

FixedDependents ==
    CASE ~(FixedReads \subseteq got.ok \cup got.failed) -> [ok |-> TRUE, calls |-> {}]
      [] FixedReads \subseteq got.ok \cup got.failed ->
            IF Follows.named \subseteq got.ok
              THEN [ok |-> TRUE, calls |-> {c \in Follows.calls : ~Has(got, c)}]
              ELSE Refusal

PsmLoads == PsmReads \cup PsmFollows.calls \subseteq got.ok
WrapperLoads == WrapperReads \cup WrapperFollows.calls \subseteq got.ok
ConverterLoads == ConverterReads \cup ConverterFollows.calls \subseteq got.ok

FixedLoad ==
    IF /\ source.identity
       /\ FixedReads \subseteq got.ok
       /\ CASE source.family = "psm" -> PsmLoads
            [] source.family = "wrapper" -> WrapperLoads
            [] source.family = "converter" -> ConverterLoads
            [] OTHER -> ValuesLoad(source)
      THEN [ok |-> TRUE, state |-> source]
      ELSE Refusal

Dependents == IF IsTick THEN TickDependents(source, got) ELSE FixedDependents
LoadState == IF IsTick
               THEN IF source.identity THEN TickLoad(source, got) ELSE Refusal
               ELSE FixedLoad
-----------------------------------------------------------------------------
Ask(calls) ==
    /\ wanted' = calls
    /\ phase' = IF calls = {} THEN "served" ELSE "asked"

Read ==
    /\ phase = "new"
    /\ IF IsTick
         THEN \E hints \in {{}} \cup {{t} : t \in Hints} : Ask(TickReads(source, hints))
         ELSE Ask(FixedReads)
    /\ UNCHANGED <<source, got, pool, whole, held, trades>>

Prefetch ==
    /\ phase = "new" /\ IsTick
    /\ \E prior \in Priors :
          Ask(TickPrefetch(source, [source EXCEPT !.tick = prior.tick, !.net = prior.net]))
    /\ UNCHANGED <<source, got, pool, whole, held, trades>>

\* The batch is answered; any of its calls may fail.
Serve ==
    /\ phase = "asked"
    /\ \E failing \in {{}} \cup {{call} : call \in wanted} :
          /\ Cardinality(failing \cup got.failed) <= MaxFailed
          /\ got' = [ok |-> got.ok \cup (wanted \ failing),
                     failed |-> got.failed \cup failing]
    /\ wanted' = {}
    /\ phase' = "served"
    /\ UNCHANGED <<source, pool, whole, held, trades>>

FollowUp ==
    /\ phase = "served"
    /\ LET dependents == Dependents IN
       IF ~dependents.ok
         THEN phase' = "refused" /\ UNCHANGED wanted
         ELSE IF dependents.calls = {}
           THEN phase' = "complete" /\ UNCHANGED wanted
           ELSE Ask(dependents.calls)
    /\ UNCHANGED <<source, got, pool, whole, held, trades>>

\* Also on a snapshot whose acquisition was not finished.
Load ==
    /\ phase \in {"served", "complete"}
    /\ LET loaded == LoadState IN
       IF loaded.ok
         THEN /\ phase' = "loaded"
              /\ pool' = loaded.state
              /\ whole' = IF IsTick THEN WholePool(source) ELSE loaded.state
         ELSE phase' = "refused" /\ UNCHANGED <<pool, whole>>
    /\ UNCHANGED <<source, got, wanted, held, trades>>

SwapPool(state, i, j, amount) ==
    CASE state.family = "tick" -> TickSwap(state, i = 1, amount)
      [] state.family = "stable" -> StableSwap(state, i, j, amount)
      [] state.family = "lido" -> LidoSwap(state, i, amount)
      [] state.family = "arm" -> ArmSwap(state, i, amount)
      [] state.family = "fluid" -> FluidSwap(state, i, amount)
      [] state.family = "bebop" -> BebopSwap(state, i, amount)
      [] state.family = "converter" -> ConverterSwap(state, i, amount)

Traded == source.family \notin {"v2", "psm", "wrapper"}

PairsOf(state) == {p \in Tokens \X Tokens :
                     /\ p[1] # p[2]
                     /\ {p[1], p[2]} \subseteq
                          1 .. (IF state.family = "stable" THEN Len(state.balances) ELSE 2)}

Trade(i, j, amount) ==
    /\ phase = "loaded" /\ Traded /\ trades < MaxTrades
    /\ LET outcome == SwapPool(pool, i, j, amount) IN
       /\ outcome.ok
       /\ pool' = outcome.next
       /\ whole' = IF IsTick THEN SwapPool(whole, i, j, amount).next ELSE outcome.next
       /\ held' = [held EXCEPT ![i] = @ - amount, ![j] = @ + outcome.out]
    /\ trades' = trades + 1
    /\ UNCHANGED <<source, got, wanted, phase>>

Next ==
    \/ Read \/ Prefetch \/ Serve \/ FollowUp \/ Load
    \/ \E pair \in PairsOf(pool), amount \in Amounts[source.family] :
          Trade(pair[1], pair[2], amount)

Spec == Init /\ [][Next]_vars
-----------------------------------------------------------------------------
(* Properties.                                                             *)

\* What dependent_requests leaves unasked, load_state does not miss: when it
\* wants nothing more and no call failed, a healthy pool loads, and a tick pool
\* loads its whole window around the tick it is at now, whatever the hint or
\* the previous block's snapshot said.
AcquiredLoads ==
    phase = "complete" /\ got.failed = {} /\ source.healthy =>
      /\ LoadState.ok
      /\ IsTick => LoadState.state.words = Window(source.tick, source.spacing)

\* A tick pool swaps on the words it loaded exactly as on the whole pool, or
\* refuses: liquidity that was not loaded never counts as none.
SwapsAsWhole ==
    phase = "loaded" /\ IsTick =>
      /\ pool.price = whole.price
      /\ pool.tick = whole.tick
      /\ pool.liquidity = whole.liquidity
      /\ \A i \in 1 .. 2, amount \in Amounts["tick"] :
            LET here == TickSwap(pool, i = 1, amount)
                there == TickSwap(whole, i = 1, amount) IN
            here.ok => there.ok /\ here.out = there.out

\* The liquidity in range is what the ticks at or below the current one add
\* up to, after any crossings up and down, and after a stop on a tick.
LiquidityInRange ==
    phase = "loaded" /\ IsTick => pool.liquidity = Below(source.net, pool.tick)

\* No sequence of swaps on one pool leaves the trader with more of a token
\* and no less of the others.
TraderNeverGains ==
    ~(/\ \A t \in Tokens : held[t] >= 0
      /\ \E t \in Tokens : held[t] > 0)

\* A stable pool quotes what its swap pays; the 3pool's quote may promise one
\* unit more, since it takes the fee after the scale is undone.
QuotesHold ==
    phase = "loaded" /\ IsStable =>
      \A pair \in PairsOf(pool), amount \in Amounts["stable"] :
        LET quote == StableQuote(pool, pair[1], pair[2], amount)
            swap == StableSwap(pool, pair[1], pair[2], amount) IN
        swap.ok => /\ quote.ok
                   /\ quote.out - swap.out \in IF pool.kind = "ng" THEN {0} ELSE {0, 1}

\* What a pool owes to others stays covered by what it holds: the shares behind
\* the wstETH outstanding, the WETH of the ARM's queued withdrawals.
ClaimsCovered ==
    phase = "loaded" =>
      /\ source.family = "lido" =>
           pool.backing - pool.supply >= source.backing - source.supply
      /\ source.family = "arm" =>
           pool.weth >= Lower(source.weth, Owed(pool))
=============================================================================
