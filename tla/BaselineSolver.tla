--------------------------- MODULE BaselineSolver ---------------------------
(***************************************************************************)
(* BaselineSolver.solve (solver/baseline.py): direct routes, routes over   *)
(* one intermediate token, and splits of the input over two routes on a    *)
(* grid.  Splits are priced before they are compiled and evaluated, and    *)
(* only those that could win are.                                          *)
(*                                                                         *)
(* Evaluated is Evaluator.evaluate as a function: what the machine of      *)
(* module Evaluator ends with.  `offered` is the sequence of the pools     *)
(* whose states a solver was given.                                        *)
(***************************************************************************)
EXTENDS Integers, Sequences, FiniteSetsExt, SequencesExt

CONSTANTS Tokens, PoolIds, TokensOf, Owner, Loaded, CapacityIds, Foreign,
          LitePsms, FreePsms, Dai, Gem, Factor,
          Swap(_, _, _, _, _),
          GridParts

Empty == [t \in Tokens |-> 0]
States == [p \in PoolIds |-> Loaded[Owner[p]]]

ShareCapacity(pools) ==
    \E p, q \in pools : p # q /\ CapacityIds[p] \cap CapacityIds[q] # {}
-----------------------------------------------------------------------------
Execute(run, step, outcome) ==
    IF /\ run.ok
       /\ step.pool \in run.offered \ Foreign
       /\ step.amountIn \in 0 .. run.balances[step.tokenIn]
       /\ outcome.ok
      THEN [run EXCEPT
              !.balances = [[@ EXCEPT ![step.tokenIn] = @ - step.amountIn]
                               EXCEPT ![step.tokenOut] = @ + outcome.out],
              !.states = [@ EXCEPT ![step.pool] = outcome.next]]
      ELSE [run EXCEPT !.ok = FALSE]

Executed(run, step) ==
    Execute(run, step, Swap(step.pool, run.states[step.pool], step.tokenIn, step.tokenOut,
                            step.amountIn))

\* What may be left of the DAI of the plan's only buy of gem for a free LitePSM.
Refund(request, steps, left) ==
    LET buys == {i \in 1 .. Len(steps) : /\ steps[i].pool \in LitePsms
                                         /\ steps[i].amountIn > 0
                                         /\ steps[i].tokenIn = Dai
                                         /\ steps[i].tokenOut = Gem} IN
    IF /\ request.allowRefund
       /\ \E i \in buys : /\ buys = {i}
                          /\ steps[i].pool \in FreePsms
                          /\ \A k \in i + 1 .. Len(steps) : steps[k].tokenOut # Dai
       /\ left \in 1 .. Factor - 1
      THEN left ELSE 0

Settled(request, run, used, refund) ==
    IF /\ ~ShareCapacity(used)
       /\ run.ok
       /\ \A t \in Tokens \ {request.tokenOut} :
            run.balances[t] = 0 \/ (t = Dai /\ t # request.tokenIn /\ refund # 0)
      THEN [feasible |-> TRUE, out |-> run.balances[request.tokenOut]]
      ELSE [feasible |-> FALSE, out |-> 0]

Ended(request, steps, run) ==
    Settled(request, run, {steps[i].pool : i \in 1 .. Len(steps)} \cap run.offered,
            Refund(request, steps, run.balances[Dai]))

Evaluated(request, offered, steps) ==
    Ended(request, steps,
          FoldLeft(Executed,
                   [ok |-> TRUE, offered |-> ToSet(offered), states |-> States,
                    balances |-> [Empty EXCEPT ![request.tokenIn] = request.amountIn]],
                   steps))
-----------------------------------------------------------------------------
Hop(p, tokenIn, tokenOut) == [pool |-> p, tokenIn |-> tokenIn, tokenOut |-> tokenOut]

RoutesBetween(offered, tokenIn, tokenOut) ==
    LET trading == SelectSeq(offered, LAMBDA p : {tokenIn, tokenOut} \subseteq ToSet(TokensOf[p])) IN
    [i \in DOMAIN trading |-> <<Hop(trading[i], tokenIn, tokenOut)>>]

DirectRoutes(request, offered) == RoutesBetween(offered, request.tokenIn, request.tokenOut)

\* Each first hop with each second, over each intermediate token.
Joined(firsts, seconds) ==
    FlattenSeq([i \in DOMAIN firsts |-> [k \in DOMAIN seconds |-> firsts[i] \o seconds[k]]])

PathRoutes(request, offered) ==
    LET middles == SetToSeq(UNION {ToSet(TokensOf[p]) : p \in ToSet(offered)}
                              \ {request.tokenIn, request.tokenOut}) IN
    FlattenSeq([i \in DOMAIN middles |->
        Joined(RoutesBetween(offered, request.tokenIn, middles[i]),
               RoutesBetween(offered, middles[i], request.tokenOut))])
-----------------------------------------------------------------------------
\* One hop after another, each on the states the last one left.
Hopped(walk, hop, outcome) ==
    IF walk.ok /\ outcome.ok
      THEN [ok |-> TRUE, amount |-> outcome.out,
            states |-> [walk.states EXCEPT ![hop.pool] = outcome.next],
            steps |-> Append(walk.steps,
                             [pool |-> hop.pool, tokenIn |-> hop.tokenIn,
                              tokenOut |-> hop.tokenOut, amountIn |-> walk.amount])]
      ELSE [walk EXCEPT !.ok = FALSE]

Follow(walk, hop) ==
    Hopped(walk, hop, Swap(hop.pool, walk.states[hop.pool], hop.tokenIn, hop.tokenOut,
                           walk.amount))

Along(route, amount, states) ==
    FoldLeft(Follow, [ok |-> TRUE, amount |-> amount, states |-> states, steps |-> <<>>], route)

\* Of two routes, the second on what the first leaves: the steps, and the sum.
Together(first, second) ==
    [ok |-> first.ok /\ second.ok, amount |-> first.amount + second.amount,
     steps |-> first.steps \o second.steps]

Then(first, route, amount) == Together(first, Along(route, amount, first.states))

Compile(routes, allocations) ==
    IF Len(routes) = 1
      THEN Along(routes[1], allocations[1], States)
      ELSE Then(Along(routes[1], allocations[1], States), routes[2], allocations[2])

NoCandidate == [out |-> -1, steps |-> <<>>]

Judged(steps, verdict) ==
    IF verdict.feasible THEN [out |-> verdict.out, steps |-> steps] ELSE NoCandidate

Compiled(request, offered, compiled) ==
    IF compiled.ok
      THEN Judged(compiled.steps, Evaluated(request, offered, compiled.steps))
      ELSE NoCandidate

Candidate(request, offered, routes, allocations) ==
    Compiled(request, offered, Compile(routes, allocations))

\* The first of the best.
Better(best, candidate) == IF candidate.out > best.out THEN candidate ELSE best

BestUnsplit(request, offered, routes) ==
    FoldLeft(Better, NoCandidate,
             [i \in DOMAIN routes |->
                Candidate(request, offered, <<routes[i]>>, <<request.amountIn>>)])
-----------------------------------------------------------------------------
AmountFirsts(request) ==
    LET shares == {(request.amountIn * part) \div GridParts : part \in 1 .. GridParts - 1} IN
    {a \in shares \cup {request.amountIn - s : s \in shares} : a \in 1 .. request.amountIn - 1}

PoolsOf(route) == {route[i].pool : i \in DOMAIN route}

SplitRelation(first, second) ==
    CASE PoolsOf(first) \cap PoolsOf(second) # {} -> "overlap"
      [] PoolsOf(first) \cap PoolsOf(second) = {} ->
            IF ShareCapacity(PoolsOf(first) \cup PoolsOf(second))
              THEN "capacity-conflict" ELSE "independent"

Sum(first, second) ==
    IF first.ok /\ second.ok THEN first.amount + second.amount ELSE NoCandidate.out

\* Mutant: the shares are quoted on each other's routes.
SplitOutputSwapped(routes, allocations) ==
    Sum(Along(routes[1], allocations[2], States), Along(routes[2], allocations[1], States))

\* Routes without a common pool, each quoted on the states at the start ...
SplitOutput(routes, allocations) ==
    Sum(Along(routes[1], allocations[1], States), Along(routes[2], allocations[2], States))

\* ... and routes with one, in the order of execution.
Ordered(compiled) == IF compiled.ok THEN compiled.amount ELSE NoCandidate.out
OrderedOutput(routes, allocations) == Ordered(Compile(routes, allocations))

Quoted(routes, allocations) ==
    CASE SplitRelation(routes[1], routes[2]) = "overlap" -> OrderedOutput(routes, allocations)
      [] SplitRelation(routes[1], routes[2]) = "independent" -> SplitOutput(routes, allocations)
      [] OTHER -> NoCandidate.out

\* Compiled and evaluated only if the quote beats the best so far.
Attempt(request, offered, best, routes, allocations) ==
    IF best.out < Quoted(routes, allocations)
      THEN Better(best, Candidate(request, offered, routes, allocations))
      ELSE best

\* The two orders of every pair of routes, each with its share.
Splits(request, routes) ==
    LET shares == SelectSeq([a \in 1 .. request.amountIn |-> a],
                            LAMBDA a : a \in AmountFirsts(request))
        halves(a, i, k) == [routes |-> <<routes[i], routes[k]>>,
                            allocations |-> <<a, request.amountIn - a>>] IN
    FlattenSeq([n \in DOMAIN shares |-> FlattenSeq([i \in DOMAIN routes |->
        FlattenSeq([k \in 1 .. i - 1 |->
            <<halves(shares[n], k, i), halves(request.amountIn - shares[n], i, k)>>])])])

BestSplit(request, offered, routes) ==
    FoldLeft(LAMBDA best, split :
                 Attempt(request, offered, best, split.routes, split.allocations),
             NoCandidate, Splits(request, routes))

\* The best direct plan, the best path and the best split, for which the better
\* of these stands in if it is better.
Ranked(direct, path, split) ==
    SelectSeq(<<direct, path, IF split.out < Better(direct, path).out THEN Better(direct, path)
                                                                      ELSE split>>,
              LAMBDA candidate : candidate # NoCandidate)

Winners(request, offered) ==
    Ranked(BestUnsplit(request, offered, DirectRoutes(request, offered)),
           BestUnsplit(request, offered, PathRoutes(request, offered)),
           BestSplit(request, offered,
                     DirectRoutes(request, offered) \o PathRoutes(request, offered)))
=============================================================================
