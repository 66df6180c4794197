--------------------------- MODULE StatefulSearch ---------------------------
(***************************************************************************)
(* GeneralSearchSolver.solve (solver/search.py): a beam search over funded *)
(* actions on pool states, whose plans are ranked with those of earlier    *)
(* runs (incumbents) and of the baseline.  DualSolver.solve                *)
(* (solver/dual.py) is the same search with amounts to try suggested by    *)
(* prices, which an optimizer chooses: here any of Prices, per raw unit.   *)
(*                                                                         *)
(* One step deepens the search by one action.  Scale is 10**decimals of a  *)
(* token.  What loaded-tick intervals suggest for V3 pools is left out: no *)
(* suggested amount is taken on trust.                                     *)
(***************************************************************************)
EXTENDS BaselineSolver

CONSTANTS Jobs,        \* what a solver is asked for, and its limits
          Prices, Scale,
          V2Pools,     \* the pools that are UniV2States
          ReserveMax, Wad, MaxUint, Halted

Psm == INSTANCE LitePsm

VARIABLES job,
          frontier,    \* nodes: balances, states, steps
          completions, \* plans to be ranked
          expansions, truncated, depth,
          ranked,      \* what solve returns
          stage        \* "search", "ranking" or "done"

vars == <<job, frontier, completions, expansions, truncated, depth, ranked, stage>>
-----------------------------------------------------------------------------
(* Suggestions of DualSolver._support.                                     *)

Directions(p) == {<<TokensOf[p][1], TokensOf[p][2]>>, <<TokensOf[p][2], TokensOf[p][1]>>}

Action(p, tokens, amountIn, value) ==
    [pool |-> p, tokenIn |-> tokens[1], tokenOut |-> tokens[2], amountIn |-> amountIn,
     value |-> value]

\* The endpoint of a LitePSM's trades if it is worth it at the rate without
\* rounding; values are in Wad-ths, so that fees need no fractions.
EndpointSell(p, psm, value) ==
    LET capacity == Psm!MaxSellGemInput(psm) IN
    Action(p, <<Gem, Dai>>, capacity,
           IF capacity = 0 THEN 0
           ELSE capacity * (Factor * (Wad - psm.tin) * value[Dai] - Wad * value[Gem]))

EndpointBuy(p, psm, value) ==
    LET capacity == Psm!MaxBuyGemOutput(psm) IN
    Action(p, <<Dai, Gem>>, Psm!RequiredDai(psm, capacity),
           IF capacity = 0 THEN 0
           ELSE capacity * (Wad * value[Gem] - Factor * (Wad + psm.tout) * value[Dai]))

Root(square) ==
    LET search[span \in (0 .. 46340) \X (1 .. 46341)] ==
            LET middle == (span[1] + span[2]) \div 2 IN
            IF span[1] + 1 >= span[2] THEN span[1]
            ELSE IF middle * middle <= square THEN search[<<middle, span[2]>>]
                                              ELSE search[<<span[1], middle>>]
    IN  search[<<0, 46341>>]

\* The input at which what a pair pays for one more unit is worth that unit.
Stationary(reserveIn, reserveOut, valueIn, valueOut) ==
    (Root((997000 * reserveIn * reserveOut * valueOut) \div valueIn) - 1000 * reserveIn) \div 997

PairSupport(p, reserves, tokens, value) ==
    LET most == ReserveMax - reserves[tokens[1]]
        wanted == Stationary(reserves[tokens[1]], reserves[tokens[2]],
                             value[tokens[1]], value[tokens[2]])
        amountIn == Min({most, Max({1, wanted})})
        outcome == Swap(p, reserves, tokens[1], tokens[2], amountIn) IN
    Action(p, tokens, amountIn,
           IF most > 0 /\ outcome.ok
             THEN Wad * (outcome.out * value[tokens[2]] - amountIn * value[tokens[1]])
             ELSE 0)

\* The better direction of a pool that is admitted, if it is worth anything.
Support(p, value) ==
    LET actions == CASE p \in V2Pools ->
                          {PairSupport(p, States[p], d, value) : d \in Directions(p)}
                     [] p \in LitePsms ->
                          {EndpointSell(p, States[p], value), EndpointBuy(p, States[p], value)}
                     [] OTHER -> {} IN
    {a \in actions : a.value > 0 /\ \A b \in actions : a.value >= b.value}

Suggestions(offered, value) == UNION {Support(p, value) : p \in ToSet(offered)}
-----------------------------------------------------------------------------
(* Fractions, as pairs without a common divisor.                           *)

Frac(n, d) ==
    LET common == CHOOSE g \in 1 .. d :
                    /\ d % g = 0 /\ n % g = 0
                    /\ \A k \in g + 1 .. d : ~(d % k = 0 /\ n % k = 0) IN
    <<n \div common, d \div common>>

Sum2(a, b) == Frac(a[1] * b[2] + b[1] * a[2], a[2] * b[2])
Times(a, b) == Frac(a[1] * b[1], a[2] * b[2])
Exceeds(a, b) == a[1] * b[2] > b[1] * a[2]

\* _backward_values: what a token is worth in the output token, by quotes of
\* one whole token or, if that is refused, of one unit.
Rated(quote, whole, unit) ==
    Frac(CASE whole.ok -> whole.out
           [] ~whole.ok /\ unit.ok -> unit.out * Scale[quote.in]
           [] OTHER -> 0,
         Scale[quote.out])

Raised(values, token, value) ==
    IF Exceeds(value, values[token]) THEN [values EXCEPT ![token] = value] ELSE values

Improved(values, quote) ==
    IF values[quote.out] = <<0, 1>> THEN values
    ELSE Raised(values, quote.in,
                Times(Rated(quote,
                            Swap(quote.pool, States[quote.pool], quote.in, quote.out,
                                 Scale[quote.in]),
                            Swap(quote.pool, States[quote.pool], quote.in, quote.out, 1)),
                      values[quote.out]))

Quotes(offered) ==
    FlattenSeq([i \in DOMAIN offered |->
        <<[pool |-> offered[i], in |-> TokensOf[offered[i]][1], out |-> TokensOf[offered[i]][2]],
          [pool |-> offered[i], in |-> TokensOf[offered[i]][2], out |-> TokensOf[offered[i]][1]]>>])

BackwardValues(offered, target, rounds) ==
    FoldLeft(Improved, [t \in Tokens |-> IF t = target THEN <<1, 1>> ELSE <<0, 1>>],
             FlattenSeq([r \in 1 .. rounds |-> Quotes(offered)]))

NodeValue(node, values) ==
    FoldSet(LAMBDA t, sum : Sum2(sum, Times(Frac(node.balances[t], Scale[t]), values[t])),
            <<0, 1>>, Tokens)
-----------------------------------------------------------------------------
CapacityBoundary(p, state, tokenIn, tokenOut, held) ==
    LET accepted == {a \in 1 .. held : Swap(p, state, tokenIn, tokenOut, a).ok} IN
    IF held \in accepted \/ 1 \notin accepted THEN {} ELSE {Psm!LastAccepted(accepted, 1, held)}

Amounts(p, state, tokenIn, tokenOut, held) ==
    LET grid == IF job.exhaustive
                  THEN 1 .. held
                  ELSE {(held * part) \div GridParts : part \in 1 .. GridParts - 1}
                         \cup CapacityBoundary(p, state, tokenIn, tokenOut, held)
        lattice == IF /\ job.request.allowRefund /\ p \in FreePsms
                      /\ tokenIn = Dai /\ tokenOut = Gem
                     THEN {held - (held % Factor)} ELSE {}
        suggested == {s.amountIn : s \in {a \in job.suggested :
                        a.pool = p /\ a.tokenIn = tokenIn /\ a.tokenOut = tokenOut}} IN
    ({held, 1} \cup grid \cup lattice \cup suggested) \cap (1 .. held)

Made(node, step, outcome) ==
    IF outcome.ok /\ outcome.out > 0
      THEN <<[balances |-> [[node.balances EXCEPT ![step.tokenIn] = @ - step.amountIn]
                                           EXCEPT ![step.tokenOut] = @ + outcome.out],
              states |-> [node.states EXCEPT ![step.pool] = outcome.next],
              steps |-> Append(node.steps, step)]>>
      ELSE <<>>

Acted(node, p, tokenIn, tokenOut, amount) ==
    Made(node, [pool |-> p, tokenIn |-> tokenIn, tokenOut |-> tokenOut, amountIn |-> amount],
         Swap(p, node.states[p], tokenIn, tokenOut, amount))

\* By pool, direction and amount.
Spent(node, quote, held, amounts) ==
    FlattenSeq([a \in 1 .. held |->
        IF a \in amounts THEN Acted(node, quote.pool, quote.in, quote.out, a) ELSE <<>>])

ChildrenBy(node, quote) ==
    Spent(node, quote, node.balances[quote.in],
          Amounts(quote.pool, node.states[quote.pool], quote.in, quote.out,
                  node.balances[quote.in]))

Children(node, quotes) == FlattenSeq([i \in DOMAIN quotes |-> ChildrenBy(node, quotes[i])])

\* _key.  It has the number of steps, so only nodes of one depth are alike.
Key(node) == <<node.balances, node.states, Len(node.steps)>>

\* A child is searched from unless one before it is alike.  States of other
\* pools than V2 and V3 have no key.
Unlike(children) ==
    LET keys == [i \in DOMAIN children |-> Key(children[i])]
        new == SelectSeq([i \in DOMAIN children |-> i],
                         LAMBDA i : \A k \in 1 .. i - 1 : keys[k] # keys[i]) IN
    IF ToSet(job.offered) \subseteq V2Pools
      THEN [n \in DOMAIN new |-> children[new[n]]]
      ELSE children

Plan(steps) == [request |-> job.request, steps |-> steps]

Completed(children) ==
    LET full == SelectSeq(children, LAMBDA c : Evaluated(job.request, job.offered, c.steps).feasible) IN
    [i \in DOMAIN full |-> Plan(full[i].steps)]

\* _trim: by value, then the least of the input and the most of the output held.
Trim(nodes, values) ==
    LET value == [i \in DOMAIN nodes |-> NodeValue(nodes[i], values)]
        left(i) == nodes[i].balances[job.request.tokenIn]
        made(i) == nodes[i].balances[job.request.tokenOut]
        Before(i, k) ==
            \/ Exceeds(value[i], value[k])
            \/ /\ value[i] = value[k]
               /\ \/ left(i) < left(k)
                  \/ left(i) = left(k) /\ made(i) > made(k)
                  \/ left(i) = left(k) /\ made(i) = made(k) /\ i < k
        order == SortSeq([i \in DOMAIN nodes |-> i], Before) IN
    [i \in 1 .. Min({Len(nodes), job.beamWidth}) |-> nodes[order[i]]]
-----------------------------------------------------------------------------
Init ==
    /\ \E asked \in Jobs, value \in Prices :
          job = asked @@ [suggested |-> IF asked.guided THEN Suggestions(asked.offered, value)
                                                        ELSE {}]
    /\ frontier = <<[balances |-> [Empty EXCEPT ![job.request.tokenIn] = job.request.amountIn],
                     states |-> States, steps |-> <<>>]>>
    /\ completions = SelectSeq(job.incumbents, LAMBDA plan : plan.request = job.request)
    /\ expansions = 0 /\ truncated = FALSE /\ depth = 0
    /\ ranked = <<>>
    /\ stage = "search"

\* The children that are taken, and those searched from.
Search(children, taken, nodes) ==
    /\ expansions' = expansions + Len(taken)
    /\ truncated' = (Len(taken) < Len(children))
    /\ completions' = completions \o Completed(taken)
    /\ \/ /\ truncated' \/ nodes = <<>> \/ depth + 1 = job.maxSteps
          /\ frontier' = <<>>
          /\ stage' = "ranking"
       \/ /\ ~truncated' /\ nodes # <<>> /\ depth + 1 < job.maxSteps
          /\ frontier' = IF job.exhaustive THEN nodes
                         ELSE Trim(nodes, BackwardValues(job.offered, job.request.tokenOut,
                                                         job.maxSteps))
          /\ UNCHANGED stage

SearchFrom(children, taken) == Search(children, taken, Unlike(taken))

Cut(children) ==
    SearchFrom(children,
               SubSeq(children, 1, Min({Len(children), job.maxExpansions - expansions})))

Deepen ==
    /\ stage = "search"
    /\ Cut(FlattenSeq([i \in DOMAIN frontier |-> Children(frontier[i], Quotes(job.offered))]))
    /\ depth' = depth + 1
    /\ UNCHANGED <<job, ranked>>

\* _rank_unique: each plan is evaluated again, and returned once.
Best(plans, verdicts) ==
    LET once == SelectSeq([i \in DOMAIN plans |-> i],
                          LAMBDA i : /\ verdicts[i].feasible
                                     /\ \A k \in 1 .. i - 1 : plans[k].steps # plans[i].steps) IN
    SortSeq([n \in DOMAIN once |-> [plan |-> plans[once[n]], out |-> verdicts[once[n]].out]],
            LAMBDA a, b : a.out > b.out)

RankUnique(plans) ==
    Best(plans, [i \in DOMAIN plans |->
                    Evaluated(plans[i].request, job.offered, plans[i].steps)])

AsPlans(winners) == [i \in DOMAIN winners |-> Plan(winners[i].steps)]

Rank ==
    /\ stage = "ranking"
    /\ ranked' = RankUnique(completions \o
                    IF job.withBaseline THEN AsPlans(Winners(job.request, job.offered)) ELSE <<>>)
    /\ completions' = <<>>
    /\ stage' = "done"
    /\ UNCHANGED <<job, frontier, expansions, truncated, depth>>

Next == Deepen \/ Rank
-----------------------------------------------------------------------------
Out(steps) == Evaluated(job.request, job.offered, steps)

\* Some plan of this request that yields at least this much is returned first.
Reaches(out) == ranked # <<>> /\ ranked[1].out >= out

\* What is returned fills this request, best first, each plan once.
Ranking ==
    /\ \A i \in DOMAIN ranked :
          /\ ranked[i].plan.request = job.request
          /\ Out(ranked[i].plan.steps) = [feasible |-> TRUE, out |-> ranked[i].out]
    /\ \A i, k \in DOMAIN ranked :
          i < k => ranked[i].out >= ranked[k].out /\ ranked[i].plan # ranked[k].plan

\* No prior plan for the request and no single-venue plan is lost, although the
\* search may be cut: the latter as the baseline, or as a first action.
FloorKept ==
    /\ \A plan \in ToSet(job.incumbents) :
          plan.request = job.request /\ Out(plan.steps).feasible => Reaches(Out(plan.steps).out)
    /\ job.withBaseline \/ ~truncated =>
          \A r \in ToSet(DirectRoutes(job.request, job.offered)) :
             LET steps == Along(r, job.request.amountIn, States).steps IN
             steps # <<>> /\ Out(steps).feasible =>
                \E i \in DOMAIN ranked : /\ Len(ranked[i].plan.steps) = 1
                                         /\ ranked[i].out >= Out(steps).out

\* The splits that were not compiled would not have won.
SplitsPrunedExactly ==
    LET routes == DirectRoutes(job.request, job.offered) \o PathRoutes(job.request, job.offered)
        splits == Splits(job.request, routes)
        best == BestSplit(job.request, job.offered, routes) IN
    \A i \in DOMAIN splits :
        Candidate(job.request, job.offered, splits[i].routes, splits[i].allocations).out <= best.out

\* Every node that max_steps actions reach, whatever else reaches the same.
RECURSIVE Reached(_, _)
Reached(nodes, steps) ==
    IF steps = 0 THEN nodes
    ELSE nodes \cup Reached(UNION {ToSet(Children(n, Quotes(job.offered))) : n \in nodes}, steps - 1)

\* An exhaustive search that ends finds the best plan there is.
ExhaustiveIsBest ==
    job.exhaustive /\ ~truncated =>
        \A node \in Reached({[balances |-> [Empty EXCEPT ![job.request.tokenIn] =
                                                            job.request.amountIn],
                              states |-> States, steps |-> <<>>]}, job.maxSteps) :
            Out(node.steps).feasible => Reaches(Out(node.steps).out)

\* What solve promises of the plans it returns (GeneralSearchSolver.solve,
\* _rank_unique, BaselineSolver._best_split).
PlansAreBest ==
    stage = "done" => Ranking /\ FloorKept /\ SplitsPrunedExactly /\ ExhaustiveIsBest
=============================================================================
