------------------------------ MODULE Evaluator ------------------------------
(***************************************************************************)
(* Evaluator.evaluate (evaluator/evaluate.py): one plan, re-executed step  *)
(* by step on pool states that each swap replaces by the next.             *)
(*                                                                         *)
(* The pools are the PoolState protocol (core/protocols.py): Swap and      *)
(* Inventory are parameters, bound to adapters in module Venues.  Several  *)
(* pool states may have been read from one owner's inventory, as the       *)
(* LitePSM and the USDS wrapper around it; `chain`, which the code does    *)
(* not have, follows what the plan would do to the owners themselves.      *)
(***************************************************************************)
EXTENDS Integers, Sequences, FiniteSetsExt

CONSTANTS Tokens, PoolIds,
          Requests, Plans,
          Owners, Owner,           \* whose inventory a pool's state was read from
          Loaded,                  \* Loaded[o]: what load_state read of owner o
          CapacityIds,             \* capacity_ids() of each pool
          Foreign,                 \* pools of another chain
          LitePsms, FreePsms,          \* the LitePSM states, those whose tout is 0
          Dai, Gem, Factor,        \* what they trade, and their factor
          Swap(_, _, _, _, _),     \* state.swap(token_in, token_out, amount_in)
          Inventory(_, _, _),      \* what a pool state holds of a token
          Classes                  \* tokens grouped by one-to-one conversion

ASSUME EvaluatorAssumption ==
    /\ Requests \subseteq [tokenIn : Tokens, tokenOut : Tokens, amountIn : Int,
                            allowRefund : BOOLEAN, oneChain : BOOLEAN]
    /\ Plans \subseteq Seq([pool : STRING, tokenIn : Tokens, tokenOut : Tokens,
                             amountIn : Int])
    /\ Owner \in [PoolIds -> Owners]
    /\ DOMAIN Loaded = Owners
    /\ FreePsms \subseteq LitePsms /\ LitePsms \subseteq PoolIds
    /\ Factor \in Nat
    /\ IsFiniteSet(PoolIds)
    /\ \A class \in Classes : class \subseteq Tokens /\ IsFiniteSet(class)
    \* Pools of one owner say so, by a capacity they share.
    /\ \A p, q \in PoolIds :
          p # q /\ Owner[p] = Owner[q] => CapacityIds[p] \cap CapacityIds[q] # {}

VARIABLES request, plan,
          pc,          \* "check", "run", "rejected" or "done"
          pools,       \* pool_states
          balances,    \* the trader's, by token
          results,     \* amounts out of the steps executed so far
          psmBuys,     \* psm_dai_buys: positions in the plan
          evaluation,
          chain        \* the owners' inventories, as the plan changes them

vars == <<request, plan, pc, pools, balances, results, psmBuys, evaluation, chain>>

None == [feasible |-> FALSE, amountOut |-> 0, residual |-> 0, refund |-> 0]

TypeOK ==
    /\ pc \in {"check", "run", "rejected", "done"}
    /\ balances \in [Tokens -> Nat]
    /\ results \in Seq(Nat) /\ Len(results) <= Len(plan)
    /\ psmBuys \in Seq(Nat)
    /\ \A i \in 1 .. Len(psmBuys) : psmBuys[i] \in 1 .. Len(results)
    /\ evaluation \in [feasible : BOOLEAN, amountOut : Nat, residual : Int, refund : Nat]

Init ==
    /\ request \in Requests
    /\ plan \in Plans
    /\ pc = "check"
    /\ pools = [p \in PoolIds |-> Loaded[Owner[p]]]
    /\ balances = [t \in Tokens |-> 0]
    /\ results = <<>>
    /\ psmBuys = <<>>
    /\ evaluation = None
    /\ chain = Loaded
-----------------------------------------------------------------------------
ValidRequest ==
    /\ request.amountIn > 0
    /\ request.oneChain
    /\ request.tokenIn # request.tokenOut

UsedPools == {plan[i].pool : i \in 1 .. Len(plan)}

\* Mutant: every capacity has its own owner.
CapacityNeverShared == FALSE

\* Two pools of the plan draw on one capacity.
SharedCapacity ==
    \E p, q \in UsedPools \cap PoolIds :
        p # q /\ CapacityIds[p] \cap CapacityIds[q] # {}

Reject ==
    /\ pc = "check"
    /\ ~ValidRequest \/ SharedCapacity
    /\ pc' = "rejected"
    /\ evaluation' = [None EXCEPT !.residual = request.amountIn]
    /\ UNCHANGED <<request, plan, pools, balances, results, psmBuys, chain>>

Begin ==
    /\ pc = "check"
    /\ ValidRequest /\ ~SharedCapacity
    /\ balances' = [balances EXCEPT ![request.tokenIn] = request.amountIn]
    /\ pc' = "run"
    /\ UNCHANGED <<request, plan, pools, results, psmBuys, evaluation, chain>>
-----------------------------------------------------------------------------
Step == plan[Len(results) + 1]

Outcome == Swap(Step.pool, pools[Step.pool], Step.tokenIn, Step.tokenOut, Step.amountIn)

OutcomeOnChain ==
    Swap(Step.pool, chain[Owner[Step.pool]], Step.tokenIn, Step.tokenOut, Step.amountIn)

\* Mutant: a step may spend what the trader does not hold.
ExecutableOnCredit ==
    /\ Step.pool \in PoolIds
    /\ Step.amountIn >= 0
    /\ Step.pool \notin Foreign
    /\ Outcome.ok /\ Outcome.out \in Nat

\* A known pool of this chain, an amount the trader holds, a swap it supports.
Executable ==
    /\ Step.pool \in PoolIds
    /\ Step.amountIn >= 0
    /\ Step.pool \notin Foreign
    /\ Step.amountIn <= balances[Step.tokenIn]
    /\ Outcome.ok /\ Outcome.out \in Nat

\* A positive swap of DAI into gem at a LitePSM.
IsPsmBuy(step) ==
    step.pool \in LitePsms /\ step.amountIn > 0 /\ step.tokenIn = Dai /\ step.tokenOut = Gem

\* The trader's balances with the step's input taken out.
Spent == [balances EXCEPT ![Step.tokenIn] = @ - Step.amountIn]

\* What the step does to the owner's inventory, if it can be done there.
MoveChain ==
    chain' = IF OutcomeOnChain.ok
               THEN [chain EXCEPT ![Owner[Step.pool]] = OutcomeOnChain.next]
               ELSE chain

\* Mutant: the pool keeps the state it was loaded with.
ExecuteStepStale ==
    /\ pc = "run" /\ Len(results) < Len(plan)
    /\ Executable
    /\ balances' = [Spent EXCEPT ![Step.tokenOut] = @ + Outcome.out]
    /\ results' = Append(results, Outcome.out)
    /\ psmBuys' = IF IsPsmBuy(Step) THEN Append(psmBuys, Len(results) + 1) ELSE psmBuys
    /\ MoveChain
    /\ UNCHANGED <<request, plan, pc, pools, evaluation>>

ExecuteStep ==
    /\ pc = "run" /\ Len(results) < Len(plan)
    /\ Executable
    /\ balances' = [Spent EXCEPT ![Step.tokenOut] = @ + Outcome.out]
    /\ pools' = [pools EXCEPT ![Step.pool] = Outcome.next]
    /\ results' = Append(results, Outcome.out)
    /\ psmBuys' = IF IsPsmBuy(Step) THEN Append(psmBuys, Len(results) + 1) ELSE psmBuys
    /\ MoveChain
    /\ UNCHANGED <<request, plan, pc, evaluation>>
-----------------------------------------------------------------------------
\* Mutant: DAI that a later step produces may pass for the refund.
TerminalRefundUnscoped ==
    IF /\ request.allowRefund
       /\ Len(psmBuys) = 1
       /\ plan[psmBuys[1]].pool \in FreePsms
       /\ balances[Dai] \in 1 .. Factor - 1
      THEN balances[Dai] ELSE 0

\* _terminal_psm_dai_refund: opted into, after a single buy at a LitePSM whose
\* fee is zero, less than one unit of gem costs, and with no step after the
\* buy, executed or not, that yields DAI.
TerminalRefund ==
    IF /\ request.allowRefund
       /\ Len(psmBuys) = 1
       /\ plan[psmBuys[1]].pool \in FreePsms
       /\ balances[Dai] \in 1 .. Factor - 1
       /\ \A i \in psmBuys[1] + 1 .. Len(plan) : plan[i].tokenOut # Dai
      THEN balances[Dai] ELSE 0

Endpoints == {request.tokenIn, request.tokenOut}

\* Mutant: leftovers of any token are let pass once a refund is granted.
StrandedUnlessRefund ==
    {t \in Tokens \ Endpoints : balances[t] # 0 /\ TerminalRefund = 0}

Stranded ==
    {t \in Tokens \ Endpoints :
        balances[t] # 0 /\ ~(t = Dai /\ TerminalRefund # 0)}

Settle ==
    /\ pc = "run"
    /\ Len(results) < Len(plan) => ~Executable
    /\ evaluation' =
         [feasible |-> /\ Len(results) = Len(plan)
                       /\ Stranded = {}
                       /\ balances[request.tokenIn] = 0,
          amountOut |-> balances[request.tokenOut],
          residual |-> balances[request.tokenIn],
          refund |-> TerminalRefund]
    /\ pc' = "done"
    /\ UNCHANGED <<request, plan, pools, balances, results, psmBuys, chain>>

Next == Reject \/ Begin \/ ExecuteStep \/ Settle

Spec == Init /\ [][Next]_vars
-----------------------------------------------------------------------------
\* "Shared-capacity effects are explicit" (core/protocols.py): every pool the
\* plan uses is priced on the state its owner would really be in by then, so
\* each reported amount is what the same swaps would yield in that order.
PricedOnChainState ==
    pc \in {"run", "done"} =>
        \A p \in UsedPools \cap PoolIds : pools[p] = chain[Owner[p]]

\* The sum of amounts over S, and what a pool in a state holds of a class.
Total(amounts, S) == MapThenSumSet(LAMBDA x : amounts[x], S)

PoolHolds(p, state, class) == Total([t \in class |-> Inventory(p, state, t)], class)

Held(class) ==
    Total(balances, class) + Total([p \in PoolIds |-> PoolHolds(p, pools[p], class)], PoolIds)

HeldAtStart(class) ==
    (IF request.tokenIn \in class THEN request.amountIn ELSE 0)
      + Total([p \in PoolIds |-> PoolHolds(p, Loaded[Owner[p]], class)], PoolIds)

\* Between the trader and the pools nothing appears or vanishes, in feasible
\* and infeasible evaluations alike: per token, or per group of tokens that a
\* converter exchanges one for one.
TokensConserved ==
    pc \in {"run", "done"} => \A class \in Classes : Held(class) = HeldAtStart(class)

\* A feasible evaluation executed the whole plan and left the trader with the
\* output token, a refund of DAI if there is one, and nothing else.
FeasibleIsFullFill ==
    evaluation.feasible =>
        /\ Len(results) = Len(plan)
        /\ evaluation.residual = 0
        /\ evaluation.amountOut = balances[request.tokenOut]
        /\ \A t \in Tokens \ {request.tokenOut} :
              balances[t] = IF t = Dai THEN evaluation.refund ELSE 0
=============================================================================
