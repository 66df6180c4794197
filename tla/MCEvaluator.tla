---------------------------- MODULE MCEvaluator ----------------------------
(* Four tokens, three V2 pairs, the LitePSM, its USDS wrapper, the          *)
(* converter, a V2 pair of another chain.  An instance evaluates one plan,  *)
(* of at most three steps of MCSteps, or solves one of MCJobs.              *)
EXTENDS Evaluator

CONSTANTS ReserveMax, Wad, MaxUint, Halted, GridParts

Kind == [ad |-> "v2", psm |-> "psm", wrapper |-> "wrapper",
         converter |-> "converter", abroad |-> "v2",
         ad2 |-> "v2", wu |-> "v2", lite |-> "psm"]
Pair == [ad |-> <<"WETH", "DAI">>, psm |-> <<"DAI", "USDC">>,
         wrapper |-> <<"USDS", "USDC">>, converter |-> <<"DAI", "USDS">>,
         abroad |-> <<"WETH", "USDC">>, ad2 |-> <<"WETH", "DAI">>,
         wu |-> <<"WETH", "USDC">>, lite |-> <<"DAI", "USDC">>]

V == INSTANCE Venues
MCSwap(p, state, tokenIn, tokenOut, amountIn) ==
    V!VenueSwap(p, state, tokenIn, tokenOut, amountIn)
MCInventory(p, state, token) == V!VenueInventory(p, state, token)

MCPoolIds == DOMAIN Kind
MCTokens == {"WETH", "DAI", "USDS", "USDC"}
MCClasses == {{"WETH"}, {"USDC"}, {"DAI", "USDS"}}
MCOwner == [p \in MCPoolIds |-> IF p = "wrapper" THEN "psm" ELSE p]
MCOwners == MCPoolIds \ {"wrapper"}
MCCapacityIds ==
    [p \in MCPoolIds |-> CASE p \in {"psm", "wrapper"} -> {"dai_buffer", "pocket_usdc"}
                           [] p = "converter" -> {}
                           [] OTHER -> {p}]
MCLoaded == [ad |-> [t \in {"WETH", "DAI"} |-> IF t = "WETH" THEN 8 ELSE 20],
             psm |-> [tin |-> 0, tout |-> 0, daiBuffer |-> 6, pocketGem |-> 2,
                      allowance |-> 2],
             converter |-> [t \in {} |-> 0],
             abroad |-> [t \in {"WETH", "USDC"} |-> 5],
             ad2 |-> [t \in {"WETH", "DAI"} |-> IF t = "WETH" THEN 20 ELSE 49],
             wu |-> [t \in {"WETH", "USDC"} |-> IF t = "WETH" THEN 9 ELSE 7],
             lite |-> [tin |-> 0, tout |-> 0, daiBuffer |-> 20, pocketGem |-> 5,
                       allowance |-> 5]]

Amounts == [ad |-> {1, 2, 3}, psm |-> {-1, 0, 3, 6}, wrapper |-> {3, 6},
            converter |-> {1, 2, 3}, abroad |-> {1}, ad2 |-> {}, wu |-> {}, lite |-> {}]
AmountsBack == [ad |-> {5}, psm |-> {1, 2}, wrapper |-> {1}, converter |-> {3},
                abroad |-> {}, ad2 |-> {}, wu |-> {}, lite |-> {}]

MCSteps ==
    UNION {[pool : {p}, tokenIn : {Pair[p][1]}, tokenOut : {Pair[p][2]},
            amountIn : Amounts[p]] : p \in MCPoolIds}
    \cup UNION {[pool : {p}, tokenIn : {Pair[p][2]}, tokenOut : {Pair[p][1]},
                 amountIn : AmountsBack[p]] : p \in MCPoolIds}
    \cup [pool : {"unknown"}, tokenIn : {"DAI"}, tokenOut : {"USDC"}, amountIn : {3}]

MCPlans == UNION {[1 .. n -> MCSteps] : n \in 0 .. 3}

MCRequests ==
    [tokenIn : {"WETH"}, tokenOut : {"USDC"}, amountIn : {2, 3},
     allowRefund : BOOLEAN, oneChain : {TRUE}]
    \cup [tokenIn : {"DAI"}, tokenOut : {"USDC", "WETH"}, amountIn : {5, 6},
          allowRefund : {TRUE}, oneChain : {TRUE}]
    \cup [tokenIn : {"USDC"}, tokenOut : {"DAI", "USDC"}, amountIn : {1},
          allowRefund : {TRUE}, oneChain : BOOLEAN]
-----------------------------------------------------------------------------
VARIABLES job, frontier, completions, expansions, truncated, depth, ranked, stage

solving == <<job, frontier, completions, expansions, truncated, depth, ranked, stage>>

MCTokensOf == Pair
MCOffered == <<"abroad", "ad", "ad2", "converter", "lite", "psm", "wrapper", "wu">>
MCV2Pools == {"ad", "ad2", "wu", "abroad"}
MCScale == [WETH |-> 2, DAI |-> 3, USDS |-> 3, USDC |-> 1]

\* What a raw unit is worth: of the output token one, of the others what the
\* optimizer ends with.
MCPrices == {[WETH |-> 2, DAI |-> 1, USDS |-> 1, USDC |-> 3],
             [WETH |-> 1, DAI |-> 2, USDS |-> 1, USDC |-> 3]}

Ask(tokenIn, tokenOut, amountIn, refund) ==
    [tokenIn |-> tokenIn, tokenOut |-> tokenOut, amountIn |-> amountIn,
     allowRefund |-> refund, oneChain |-> TRUE]

Job(asked, offered, steps, width, most) ==
    [request |-> asked, offered |-> offered, exhaustive |-> FALSE, maxSteps |-> steps,
     beamWidth |-> width, maxExpansions |-> most, guided |-> TRUE, withBaseline |-> TRUE,
     incumbents |-> <<>>]

Sold(p, amount) == [pool |-> p, tokenIn |-> "WETH", tokenOut |-> "USDC", amountIn |-> amount]

MCJobs ==
    LET venues == <<"ad", "ad2", "lite", "wu">>
        all == <<"abroad", "ad", "converter", "psm", "wrapper", "wu">>
        sell == Ask("WETH", "USDC", 6, TRUE)
        earlier == <<[request |-> sell, steps |-> <<Sold("wu", 6)>>],
                     [request |-> Ask("WETH", "USDC", 3, TRUE), steps |-> <<Sold("wu", 3)>>]>> IN
    \* Exhaustive: two pairs of the same tokens; a buy that leaves dust.
    {[Job(Ask("WETH", "DAI", 6, FALSE), <<"ad2", "ad">>, 2, 1, 100000)
        EXCEPT !.exhaustive = TRUE, !.withBaseline = FALSE],
     [Job(Ask("WETH", "DAI", 3, FALSE), <<"ad", "ad2">>, 3, 1, 100000)
        EXCEPT !.exhaustive = TRUE, !.withBaseline = FALSE],
     [Job(Ask("WETH", "USDC", 5, TRUE), <<"ad", "ad2", "lite">>, 3, 1, 100000)
        EXCEPT !.exhaustive = TRUE],
    \* A beam, a narrow one over every kind of pool, one that is cut, and two
    \* after earlier plans, of which one was for less and the other uses a pool
    \* that may not be offered any more.
     Job(sell, venues, 4, 4, 100000),
     Job(sell, all, 3, 1, 100000),
     [Job(sell, venues, 3, 4, 3) EXCEPT !.guided = FALSE],
     [Job(sell, venues, 2, 1, 1) EXCEPT !.withBaseline = FALSE, !.incumbents = earlier],
     [Job(sell, <<"ad", "lite">>, 2, 1, 2) EXCEPT !.withBaseline = FALSE, !.incumbents = earlier]}

Solve == INSTANCE StatefulSearch WITH
            TokensOf <- MCTokensOf, V2Pools <- MCV2Pools, Scale <- MCScale,
            Prices <- MCPrices, Jobs <- MCJobs

Solvable ==
    /\ Solve!Init
    /\ request = job.request /\ plan = <<>> /\ pc = "rejected"
    /\ pools = Loaded /\ balances = [t \in Tokens |-> 0] /\ results = <<>> /\ psmBuys = <<>>
    /\ evaluation = None /\ chain = Loaded

Evaluable ==
    /\ Init
    /\ job = <<>> /\ frontier = <<>> /\ completions = <<>> /\ expansions = 0
    /\ truncated = FALSE /\ depth = 0 /\ ranked = <<>> /\ stage = "idle"

EvaluateOrSolve ==
    /\ Evaluable \/ Solvable
    /\ [][(Next /\ UNCHANGED solving) \/ (Solve!Next /\ UNCHANGED vars)]_<<vars, solving>>

\* What the machine ends with is what the solvers take an evaluation to be.
EvaluatedAlike ==
    pc = "done" =>
        LET verdict == Solve!Evaluated(request, MCOffered, plan) IN
        /\ verdict.feasible = evaluation.feasible
        /\ evaluation.feasible => verdict.out = evaluation.amountOut

\* What a solver returns fills the request, is in order, and misses neither an
\* earlier plan nor a trade at one venue, however the search was cut; no split
\* that was left out would have won; an exhaustive search finds the best plan.
PlansAreBest == EvaluatedAlike /\ Solve!PlansAreBest
=============================================================================
