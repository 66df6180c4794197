--------------------------- MODULE EvaluatorProofs ---------------------------
(***************************************************************************)
(* What holds of an evaluation for every adapter (any Swap), every plan,   *)
(* request and capacity layout that EvaluatorAssumption admits.            *)
(***************************************************************************)
EXTENDS Evaluator, FiniteSetTheorems, WellFoundedInduction, TLAPS

\* The adapters of module Venues, for any kinds and pairs of tokens.
CONSTANTS Kind, Pair, ReserveMax, Wad, MaxUint, Halted

V == INSTANCE Venues

\* request and plan never change.
Inputs == request \in Requests /\ plan \in Plans

Shapes ==
    /\ DOMAIN pools = PoolIds
    /\ DOMAIN chain = Owners

\* Nothing is feasible before the evaluation has been settled.
NotYetFeasible == pc # "done" => ~evaluation.feasible

\* A plan that runs has passed the capacity check, which is what keeps the
\* pools of one owner apart.
Unshared == pc \in {"run", "done"} => ~SharedCapacity

AtStart == pc = "check" => \A p \in PoolIds : pools[p] = chain[Owner[p]]

Inv ==
    /\ TypeOK
    /\ Inputs
    /\ Shapes
    /\ NotYetFeasible
    /\ Unshared
    /\ AtStart
    /\ PricedOnChainState
    /\ FeasibleIsFullFill

StepSet == [pool : STRING, tokenIn : Tokens, tokenOut : Tokens, amountIn : Int]

\* The step at hand is a step of the plan.
LEMMA StepTyped ==
    ASSUME TypeOK, Inputs, Len(results) < Len(plan)
    PROVE  /\ Step \in StepSet
           /\ Len(results) + 1 \in 1 .. Len(plan)
           /\ plan \in Seq(StepSet)
           /\ Step.pool \in UsedPools
<1>1. plan \in Seq(StepSet)
  BY EvaluatorAssumption DEF Inputs, StepSet
<1>2. Len(results) \in Nat /\ Len(plan) \in Nat
  BY <1>1 DEF TypeOK
<1>3. Len(results) + 1 \in 1 .. Len(plan)
  BY <1>2
<1>4. Step \in StepSet
  BY <1>1, <1>3 DEF Step
<1>5. Step.pool \in UsedPools
  BY <1>3 DEF Step, UsedPools
<1> QED
  BY <1>1, <1>3, <1>4, <1>5

LEMMA RequestTyped ==
    ASSUME Inputs
    PROVE  /\ request.tokenIn \in Tokens /\ request.tokenOut \in Tokens
           /\ request.amountIn \in Int
  BY EvaluatorAssumption DEF Inputs

\* The refund is all the trader's DAI or nothing.
LEMMA RefundValue ==
    /\ TerminalRefund \in Nat
    /\ TerminalRefund # 0 => TerminalRefund = balances[Dai]
    /\ balances[Dai] = 0 => TerminalRefund = 0
<1>1. Factor \in Nat
  BY EvaluatorAssumption
<1> QED
  BY <1>1 DEF TerminalRefund

LEMMA InitInv == Init => Inv
<1> SUFFICES ASSUME Init PROVE Inv
  OBVIOUS
<1>1. TypeOK
  BY DEF Init, TypeOK, None
<1>2. Inputs /\ Shapes /\ AtStart
  BY EvaluatorAssumption DEF Init, Inputs, Shapes, AtStart
<1>3. NotYetFeasible /\ Unshared /\ PricedOnChainState /\ FeasibleIsFullFill
  BY DEF Init, NotYetFeasible, Unshared, PricedOnChainState, FeasibleIsFullFill, None
<1> QED
  BY <1>1, <1>2, <1>3 DEF Inv

LEMMA RejectInv ==
    ASSUME Inv, Reject PROVE Inv'
<1>1. TypeOK'
  BY RequestTyped DEF Inv, Reject, TypeOK, None
<1>2. (Inputs /\ Shapes)'
  BY DEF Inv, Reject, Inputs, Shapes
<1>3. NotYetFeasible' /\ FeasibleIsFullFill'
  BY DEF Reject, NotYetFeasible, FeasibleIsFullFill, None
<1>4. Unshared' /\ AtStart' /\ PricedOnChainState'
  BY DEF Reject, Unshared, AtStart, PricedOnChainState
<1> QED
  BY <1>1, <1>2, <1>3, <1>4 DEF Inv

LEMMA BeginInv ==
    ASSUME Inv, Begin PROVE Inv'
<1>1. request.amountIn \in Nat
  BY RequestTyped DEF Inv, Begin, ValidRequest
<1>2. TypeOK'
  BY <1>1, RequestTyped DEF Inv, Begin, TypeOK
<1>3. (Inputs /\ Shapes)'
  BY DEF Inv, Begin, Inputs, Shapes
<1>4. NotYetFeasible' /\ FeasibleIsFullFill'
  BY DEF Inv, Begin, NotYetFeasible, FeasibleIsFullFill
<1>5. Unshared'
  BY DEF Begin, Unshared, SharedCapacity, UsedPools
<1>6. AtStart' /\ PricedOnChainState'
  BY DEF Inv, Begin, AtStart, PricedOnChainState, UsedPools
<1> QED
  BY <1>2, <1>3, <1>4, <1>5, <1>6 DEF Inv

\* A step moves one pool and its owner alike; no other pool of the plan draws
\* on that owner.
LEMMA StepPriced ==
    ASSUME Inv, ExecuteStep
    PROVE  PricedOnChainState'
<1>1. /\ Step.pool \in UsedPools \cap PoolIds
      /\ Owner[Step.pool] \in Owners
      /\ Outcome.ok
      /\ pc = "run"
  BY StepTyped, EvaluatorAssumption DEF Inv, ExecuteStep, Executable
<1>2. pools[Step.pool] = chain[Owner[Step.pool]]
  BY <1>1 DEF Inv, PricedOnChainState
<1>3. OutcomeOnChain = Outcome
  BY <1>2 DEF OutcomeOnChain, Outcome
<1>4. chain' = [chain EXCEPT ![Owner[Step.pool]] = Outcome.next]
  BY <1>1, <1>3 DEF ExecuteStep, MoveChain
<1>5. pools' = [pools EXCEPT ![Step.pool] = Outcome.next]
  BY DEF ExecuteStep
<1>6. UsedPools' = UsedPools
  BY DEF ExecuteStep, UsedPools
<1>7. ASSUME NEW p \in UsedPools \cap PoolIds
      PROVE  pools'[p] = chain'[Owner[p]]
  <2>1. CASE p = Step.pool
    BY <1>1, <1>4, <1>5, <2>1 DEF Inv, Shapes
  <2>2. CASE p # Step.pool
    <3>1. CapacityIds[p] \cap CapacityIds[Step.pool] = {}
      BY <1>1, <2>2 DEF Inv, Unshared, SharedCapacity
    <3>2. Owner[p] # Owner[Step.pool]
      BY <1>1, <2>2, <3>1, EvaluatorAssumption
    <3>3. pools'[p] = pools[p]
      BY <1>5, <2>2 DEF Inv, Shapes
    <3>4. Owner[p] \in Owners
      BY EvaluatorAssumption
    <3>5. chain'[Owner[p]] = chain[Owner[p]]
      BY <1>4, <3>2, <3>4 DEF Inv, Shapes
    <3>6. pools[p] = chain[Owner[p]]
      BY <1>1 DEF Inv, PricedOnChainState
    <3> QED
      BY <3>3, <3>5, <3>6
  <2> QED
    BY <2>1, <2>2
<1> QED
  BY <1>6, <1>7 DEF PricedOnChainState

LEMMA ExecuteStepInv ==
    ASSUME Inv, ExecuteStep PROVE Inv'
<1>1. /\ Step \in StepSet
      /\ Len(results) + 1 \in 1 .. Len(plan)
      /\ Outcome.out \in Nat
      /\ Step.amountIn \in Nat
      /\ Step.amountIn <= balances[Step.tokenIn]
  BY StepTyped DEF Inv, ExecuteStep, Executable, StepSet
<1>2. balances' \in [Tokens -> Nat]
  <2>1. Step.tokenIn \in Tokens /\ Step.tokenOut \in Tokens
    BY <1>1 DEF StepSet
  <2>2. Spent \in [Tokens -> Nat]
    BY <1>1, <2>1 DEF Inv, TypeOK, Spent
  <2> QED
    BY <1>1, <2>1, <2>2 DEF ExecuteStep
<1>3. results' \in Seq(Nat) /\ Len(results') = Len(results) + 1 /\ Len(results) \in Nat
  BY <1>1 DEF Inv, TypeOK, ExecuteStep
<1>4. Len(results') <= Len(plan')
  BY <1>1, <1>3 DEF ExecuteStep
<1>5. psmBuys' \in Seq(Nat) /\ \A i \in 1 .. Len(psmBuys') : psmBuys'[i] \in 1 .. Len(results')
  <2>1. CASE IsPsmBuy(Step)
    <3>1. psmBuys' = Append(psmBuys, Len(results) + 1)
      BY <2>1 DEF ExecuteStep
    <3> QED
      BY <1>3, <3>1 DEF Inv, TypeOK
  <2>2. CASE ~IsPsmBuy(Step)
    <3>1. psmBuys' = psmBuys
      BY <2>2 DEF ExecuteStep
    <3> QED
      BY <1>3, <3>1 DEF Inv, TypeOK
  <2> QED
    BY <2>1, <2>2
<1>6. TypeOK'
  BY <1>2, <1>3, <1>4, <1>5 DEF Inv, TypeOK, ExecuteStep
<1>7. (Inputs /\ Shapes)'
  BY DEF Inv, ExecuteStep, MoveChain, Inputs, Shapes
<1>8. NotYetFeasible' /\ FeasibleIsFullFill'
  BY DEF Inv, ExecuteStep, NotYetFeasible, FeasibleIsFullFill
<1>9. Unshared' /\ AtStart'
  BY DEF Inv, ExecuteStep, Unshared, AtStart, SharedCapacity, UsedPools
<1> QED
  BY <1>6, <1>7, <1>8, <1>9, StepPriced DEF Inv

LEMMA SettleInv ==
    ASSUME Inv, Settle PROVE Inv'
<1>1. /\ balances[request.tokenIn] \in Nat /\ balances[request.tokenOut] \in Nat
      /\ request.tokenIn \in Tokens
  BY RequestTyped DEF Inv, TypeOK
<1>2. TypeOK'
  BY <1>1, RefundValue DEF Inv, TypeOK, Settle
<1>3. (Inputs /\ Shapes)'
  BY DEF Inv, Settle, Inputs, Shapes
<1>4. NotYetFeasible' /\ AtStart'
  BY DEF Settle, NotYetFeasible, AtStart
<1>5. Unshared' /\ PricedOnChainState'
  BY DEF Inv, Settle, Unshared, PricedOnChainState, SharedCapacity, UsedPools
<1>6. FeasibleIsFullFill'
  <2> SUFFICES ASSUME evaluation'.feasible
               PROVE  /\ Len(results) = Len(plan)
                      /\ evaluation'.residual = 0
                      /\ evaluation'.amountOut = balances[request.tokenOut]
                      /\ \A t \in Tokens \ {request.tokenOut} :
                            balances[t] = IF t = Dai THEN evaluation'.refund ELSE 0
    BY DEF Settle, FeasibleIsFullFill
  <2>1. /\ Len(results) = Len(plan)
        /\ Stranded = {}
        /\ balances[request.tokenIn] = 0
        /\ evaluation'.residual = 0
        /\ evaluation'.amountOut = balances[request.tokenOut]
        /\ evaluation'.refund = TerminalRefund
    BY DEF Settle
  <2>2. ASSUME NEW t \in Tokens \ {request.tokenOut}
        PROVE  balances[t] = IF t = Dai THEN TerminalRefund ELSE 0
    <3>1. CASE t = request.tokenIn
      BY <2>1, <3>1, RefundValue
    <3>2. CASE t # request.tokenIn
      <4>1. balances[t] = 0 \/ (t = Dai /\ TerminalRefund # 0)
        BY <2>1, <3>2 DEF Stranded, Endpoints
      <4> QED
        BY <4>1, RefundValue
    <3> QED
      BY <3>1, <3>2
  <2> QED
    BY <2>1, <2>2
<1> QED
  BY <1>2, <1>3, <1>4, <1>5, <1>6 DEF Inv

LEMMA StutterInv ==
    ASSUME Inv, UNCHANGED vars PROVE Inv'
<1>1. TypeOK'
  BY DEF Inv, vars, TypeOK
<1>2. (Inputs /\ Shapes)'
  BY DEF Inv, vars, Inputs, Shapes
<1>3. NotYetFeasible' /\ FeasibleIsFullFill'
  BY DEF Inv, vars, NotYetFeasible, FeasibleIsFullFill
<1>4. Unshared' /\ AtStart' /\ PricedOnChainState'
  BY DEF Inv, vars, Unshared, AtStart, PricedOnChainState, SharedCapacity, UsedPools
<1> QED
  BY <1>1, <1>2, <1>3, <1>4 DEF Inv

LEMMA NextInv == Inv /\ [Next]_vars => Inv'
  BY RejectInv, BeginInv, ExecuteStepInv, SettleInv, StutterInv DEF Next

\* Inv is inductive.
THEOREM Inductive == Spec => []Inv
  BY InitInv, NextInv, PTL DEF Spec

\* Balances never go negative, whatever the adapters return.
THEOREM TypeCorrect == Spec => []TypeOK
<1>1. Inv => TypeOK
  BY DEF Inv
<1> QED
  BY <1>1, Inductive, PTL

\* The capacity check suffices: whatever the plan, no pool is priced on a
\* state that another pool of the plan has already changed.
THEOREM PricedAsOnChain == Spec => []PricedOnChainState
<1>1. Inv => PricedOnChainState
  BY DEF Inv
<1> QED
  BY <1>1, Inductive, PTL

\* A feasible evaluation executed the whole plan and left no third token.
THEOREM FeasibleFills == Spec => []FeasibleIsFullFill
<1>1. Inv => FeasibleIsFullFill
  BY DEF Inv
<1> QED
  BY <1>1, Inductive, PTL
-----------------------------------------------------------------------------
(* Sums over finite sets.                                                  *)

\* A set of naturals that is not empty has a least element.
LEMMA LeastExists ==
    ASSUME NEW S \in SUBSET Nat, S # {}
    PROVE  \E b \in S : \A c \in S : b <= c
<1> DEFINE lessThan == {ss \in Nat \X Nat : ss[1] < ss[2]}
<1>1. IsWellFoundedOn(lessThan, Nat)
  BY NatLessThanWellFounded DEF OpToRel
<1>2. PICK b \in S : \A c \in S : ~(<<c, b>> \in lessThan)
  BY <1>1, WFMin
<1>3. ASSUME NEW c \in S PROVE b <= c
  <2>1. c < b => <<c, b>> \in lessThan
    <3>1. <<c, b>> \in Nat \X Nat /\ <<c, b>>[1] = c /\ <<c, b>>[2] = b
      OBVIOUS
    <3> QED
      BY <3>1
  <2> QED
    BY <1>2, <2>1
<1> QED
  BY <1>3

\* A set of numbers that has 0 and every successor has every number.
LEMMA AllNumbers ==
    ASSUME NEW good, 0 \in good, \A n \in Nat : n \in good => n + 1 \in good
    PROVE  Nat \subseteq good
<1> DEFINE bad == Nat \ good
<1>1. ASSUME bad # {} PROVE FALSE
  <2>1. PICK n \in bad : \A m \in bad : n <= m
    BY <1>1, LeastExists
  <2>2. n # 0 /\ n - 1 \in Nat /\ n - 1 \notin bad
    BY <2>1
  <2> QED
    BY <2>1, <2>2
<1> QED
  BY <1>1

\* The element a sum takes next, and one turn of it.
Pick(s) == CHOOSE x \in s : TRUE
SumBody(F, g, s) == IF s = {} THEN 0 ELSE F[Pick(s)] + g[s \ {Pick(s)}]
SumOf(F, S) == CHOOSE g : g = [s \in SUBSET S |-> SumBody(F, g, s)]

LEMMA TotalSum ==
    ASSUME NEW F, NEW S
    PROVE  Total(F, S) = SumOf(F, S)[S]
  BY DEF Total, MapThenSumSet, MapThenFoldSet, SumOf, SumBody, Pick

LEMMA PickIn ==
    ASSUME NEW s, s # {}
    PROVE  Pick(s) \in s
  BY DEF Pick

\* One element less is one less to count.
LEMMA OneLess ==
    ASSUME NEW S, IsFiniteSet(S), NEW x \in S
    PROVE  /\ IsFiniteSet(S \ {x})
           /\ Cardinality(S) \in Nat /\ Cardinality(S \ {x}) \in Nat
           /\ Cardinality(S \ {x}) + 1 = Cardinality(S)
  BY FS_RemoveElement, FS_CardinalityType

\* The recursion of a sum has a solution: it goes through no more elements than there are.
LEMMA SumDefined ==
    ASSUME NEW F, NEW S, IsFiniteSet(S)
    PROVE  \A s \in SUBSET S : SumOf(F, S)[s] = SumBody(F, SumOf(F, S), s)
<1> DEFINE Small(n) == {s \in SUBSET S : Cardinality(s) <= n}
           Solves(n, g) == g = [s \in Small(n) |-> SumBody(F, g, s)]
           good == {n \in Nat : \E g : Solves(n, g)}
<1>1. 0 \in good
  <2> DEFINE g == [s \in Small(0) |-> 0]
  <2>1. \A s \in Small(0) : s = {}
    BY FS_Subset, FS_EmptySet, FS_CardinalityType
  <2>2. \A s \in Small(0) : SumBody(F, g, s) = 0
    BY <2>1 DEF SumBody
  <2>3. Solves(0, g)
    BY <2>2
  <2> QED
    BY <2>3
<1>2. ASSUME NEW n \in Nat, n \in good PROVE n + 1 \in good
  <2>1. PICK g : Solves(n, g)
    BY <1>2
  <2> DEFINE h == [s \in Small(n + 1) |-> SumBody(F, g, s)]
  <2>2. ASSUME NEW s \in Small(n + 1) PROVE SumBody(F, h, s) = SumBody(F, g, s)
    <3>1. CASE s = {}
      BY <3>1 DEF SumBody
    <3>2. CASE s # {}
      <4> DEFINE r == s \ {Pick(s)}
      <4>1. IsFiniteSet(s) /\ Pick(s) \in s
        BY <3>2, FS_Subset, PickIn
      <4>2. r \in Small(n)
        BY <4>1, OneLess
      <4>3. r \in Small(n + 1)
        BY <4>2, FS_Subset, FS_CardinalityType
      <4>4. h[r] = SumBody(F, g, r) /\ g[r] = SumBody(F, g, r)
        BY <2>1, <4>2, <4>3
      <4> HIDE DEF h, r
      <4> QED
        BY <3>2, <4>4 DEF SumBody, r
    <3> QED
      BY <3>1, <3>2
  <2>3. Solves(n + 1, h)
    <3>1. h = [s \in Small(n + 1) |-> SumBody(F, g, s)]
      OBVIOUS
    <3> HIDE DEF h, Small
    <3>2. [s \in Small(n + 1) |-> SumBody(F, g, s)] = [s \in Small(n + 1) |-> SumBody(F, h, s)]
      BY <2>2
    <3> QED
      BY <3>1, <3>2
  <2> HIDE DEF h, Solves
  <2> QED
    BY <2>3
<1>3. Cardinality(S) \in good
  BY <1>1, <1>2, AllNumbers, FS_CardinalityType
<1>4. Small(Cardinality(S)) = SUBSET S
  BY FS_Subset
<1>5. \E g : g = [s \in SUBSET S |-> SumBody(F, g, s)]
  BY <1>3, <1>4
<1> DEFINE sum == SumOf(F, S)
<1>6. sum = [s \in SUBSET S |-> SumBody(F, sum, s)]
  BY <1>5 DEF SumOf
<1> HIDE DEF sum
<1>7. \A s \in SUBSET S : sum[s] = SumBody(F, sum, s)
  BY <1>6
<1> QED
  BY <1>7 DEF sum

LEMMA Smaller ==
    ASSUME NEW S, IsFiniteSet(S), NEW x \in S, NEW n \in Nat, Cardinality(S) <= n + 1
    PROVE  IsFiniteSet(S \ {x}) /\ Cardinality(S \ {x}) <= n
<1>1. /\ IsFiniteSet(S \ {x}) /\ Cardinality(S \ {x}) \in Nat
      /\ Cardinality(S \ {x}) + 1 = Cardinality(S)
  BY OneLess
<1> QED
  BY <1>1

\* A sum over a part is the same recursion.
LEMMA SumAgrees ==
    ASSUME NEW F, NEW S, IsFiniteSet(S), NEW T \in SUBSET S
    PROVE  \A s \in SUBSET T : SumOf(F, T)[s] = SumOf(F, S)[s]
<1> DEFINE g == SumOf(F, T)
           h == SumOf(F, S)
           good == {n \in Nat : \A s \in SUBSET T : Cardinality(s) <= n => g[s] = h[s]}
<1>1. IsFiniteSet(T)
  BY FS_Subset
<1>2. \A s \in SUBSET T : g[s] = SumBody(F, g, s) /\ h[s] = SumBody(F, h, s)
  <2>1. ASSUME NEW s \in SUBSET T PROVE g[s] = SumBody(F, g, s) /\ h[s] = SumBody(F, h, s)
    <3>1. s \in SUBSET S
      OBVIOUS
    <3> QED
      BY <1>1, <3>1, SumDefined
  <2> QED
    BY <2>1
<1> HIDE DEF g, h
<1>3. 0 \in good
  <2>1. ASSUME NEW s \in SUBSET T, Cardinality(s) <= 0 PROVE s = {}
    BY <1>1, <2>1, FS_Subset, FS_EmptySet, FS_CardinalityType
  <2> QED
    BY <1>2, <2>1 DEF SumBody
<1>4. ASSUME NEW n \in Nat, n \in good PROVE n + 1 \in good
  <2>1. ASSUME NEW s \in SUBSET T, Cardinality(s) <= n + 1 PROVE g[s] = h[s]
    <3>1. CASE s = {}
      BY <1>2, <3>1 DEF SumBody
    <3>2. CASE s # {}
      <4>1. IsFiniteSet(s) /\ Pick(s) \in s
        BY <1>1, <3>2, FS_Subset, PickIn
      <4>2. s \ {Pick(s)} \in SUBSET T /\ Cardinality(s \ {Pick(s)}) <= n
        BY <2>1, <4>1, Smaller
      <4>3. g[s \ {Pick(s)}] = h[s \ {Pick(s)}]
        BY <1>4, <4>2
      <4> QED
        BY <1>2, <3>2, <4>3 DEF SumBody
    <3> QED
      BY <3>1, <3>2
  <2> QED
    BY <2>1
<1>5. Nat \subseteq good
  BY <1>3, <1>4, AllNumbers
<1>6. Cardinality(T) \in good /\ \A s \in SUBSET T : Cardinality(s) <= Cardinality(T)
  BY <1>1, <1>5, FS_Subset, FS_CardinalityType
<1> QED
  BY <1>6 DEF g, h

LEMMA TotalEmpty ==
    ASSUME NEW F
    PROVE  Total(F, {}) = 0
<1>1. SumOf(F, {})[{}] = SumBody(F, SumOf(F, {}), {})
  BY SumDefined, FS_EmptySet
<1> QED
  BY <1>1, TotalSum DEF SumBody

LEMMA TotalStep ==
    ASSUME NEW F, NEW S, IsFiniteSet(S), S # {}
    PROVE  Total(F, S) = F[Pick(S)] + Total(F, S \ {Pick(S)})
<1> DEFINE rest == S \ {Pick(S)}
<1>1. SumOf(F, S)[S] = SumBody(F, SumOf(F, S), S)
  BY SumDefined
<1>2. SumOf(F, rest)[rest] = SumOf(F, S)[rest]
  BY SumAgrees
<1> QED
  BY <1>1, <1>2, TotalSum DEF SumBody

\* A sum of integers is one, and the same for amounts that are the same.
LEMMA TotalSame ==
    ASSUME NEW F, NEW G, NEW S, IsFiniteSet(S), \A x \in S : F[x] \in Int /\ F[x] = G[x]
    PROVE  Total(F, S) \in Int /\ Total(F, S) = Total(G, S)
<1> DEFINE Same(T) == Total(F, T) \in Int /\ Total(F, T) = Total(G, T)
           good == {n \in Nat : \A T \in SUBSET S : Cardinality(T) <= n => Same(T)}
<1>1. Same({})
  BY TotalEmpty
<1>2. 0 \in good
  <2>1. ASSUME NEW T \in SUBSET S, Cardinality(T) <= 0 PROVE T = {}
    BY <2>1, FS_Subset, FS_EmptySet, FS_CardinalityType
  <2> QED
    BY <1>1, <2>1
<1>3. ASSUME NEW n \in Nat, n \in good PROVE n + 1 \in good
  <2>1. ASSUME NEW T \in SUBSET S, Cardinality(T) <= n + 1 PROVE Same(T)
    <3>1. CASE T # {}
      <4> DEFINE rest == T \ {Pick(T)}
      <4>1. IsFiniteSet(T) /\ Pick(T) \in T
        BY <3>1, FS_Subset, PickIn
      <4>2. rest \in SUBSET S /\ Cardinality(rest) <= n
        BY <2>1, <4>1, Smaller
      <4>3. Same(rest)
        BY <1>3, <4>2
      <4>4. Total(F, T) = F[Pick(T)] + Total(F, rest) /\ Total(G, T) = G[Pick(T)] + Total(G, rest)
        BY <3>1, <4>1, TotalStep
      <4>5. F[Pick(T)] \in Int /\ F[Pick(T)] = G[Pick(T)]
        BY <4>1
      <4> HIDE DEF rest
      <4> QED
        BY <4>3, <4>4, <4>5
    <3> QED
      BY <1>1, <3>1
  <2> QED
    BY <2>1
<1>4. Cardinality(S) \in good
  BY <1>2, <1>3, AllNumbers, FS_CardinalityType
<1> HIDE DEF Same
<1>5. Same(S)
  BY <1>4, FS_CardinalityType
<1> QED
  BY <1>5 DEF Same

\* Any element may be taken out first.
LEMMA TotalRemove ==
    ASSUME NEW F, NEW S, IsFiniteSet(S), \A x \in S : F[x] \in Int, NEW e \in S
    PROVE  Total(F, S) = F[e] + Total(F, S \ {e})
<1> DEFINE Any(T) == \A x \in T : Total(F, T) = F[x] + Total(F, T \ {x})
           good == {n \in Nat : \A T \in SUBSET S : Cardinality(T) <= n => Any(T)}
<1>1. 0 \in good
  <2>1. ASSUME NEW T \in SUBSET S, Cardinality(T) <= 0 PROVE T = {}
    BY <2>1, FS_Subset, FS_EmptySet, FS_CardinalityType
  <2> QED
    BY <2>1
<1>2. ASSUME NEW n \in Nat, n \in good PROVE n + 1 \in good
  <2>1. ASSUME NEW T \in SUBSET S, Cardinality(T) <= n + 1, NEW x \in T
        PROVE  Total(F, T) = F[x] + Total(F, T \ {x})
    <3> DEFINE c == Pick(T)
    <3>1. IsFiniteSet(T) /\ c \in T /\ T # {}
      BY <2>1, FS_Subset, PickIn
    <3>2. Total(F, T) = F[c] + Total(F, T \ {c})
      BY <3>1, TotalStep
    <3> HIDE DEF c
    <3>3. CASE x = c
      BY <3>2, <3>3
    <3>4. CASE x # c
      <4>1. /\ T \ {c} \in SUBSET S /\ Cardinality(T \ {c}) <= n /\ x \in T \ {c}
            /\ T \ {x} \in SUBSET S /\ Cardinality(T \ {x}) <= n /\ c \in T \ {x}
        BY <2>1, <3>1, <3>4, Smaller
      <4>2. Total(F, T \ {c}) = F[x] + Total(F, (T \ {c}) \ {x})
        BY <1>2, <4>1
      <4>3. Total(F, T \ {x}) = F[c] + Total(F, (T \ {x}) \ {c})
        BY <1>2, <4>1
      <4> DEFINE others == Total(F, (T \ {x}) \ {c})
      <4>4. Total(F, T \ {c}) = F[x] + others /\ Total(F, T \ {x}) = F[c] + others
        <5>1. (T \ {c}) \ {x} = (T \ {x}) \ {c}
          OBVIOUS
        <5> QED
          BY <4>2, <4>3, <5>1
      <4>5. F[x] \in Int /\ F[c] \in Int /\ others \in Int
        <5>1. IsFiniteSet((T \ {x}) \ {c}) /\ \A y \in (T \ {x}) \ {c} : F[y] \in Int
          BY <2>1, <3>1, FS_Subset
        <5> QED
          BY <2>1, <3>1, <5>1, TotalSame
      <4> HIDE DEF others
      <4> QED
        BY <3>2, <4>4, <4>5
    <3> QED
      BY <3>3, <3>4
  <2> QED
    BY <2>1
<1>3. Cardinality(S) \in good
  BY <1>1, <1>2, AllNumbers, FS_CardinalityType
<1> HIDE DEF Any
<1>4. Any(S)
  BY <1>3, FS_CardinalityType
<1> QED
  BY <1>4 DEF Any

\* When one amount changes, the sum changes by as much.
LEMMA TotalChanged ==
    ASSUME NEW F, NEW G, NEW S, IsFiniteSet(S), NEW e \in S,
           \A x \in S : F[x] \in Int /\ G[x] \in Int,
           \A x \in S \ {e} : G[x] = F[x]
    PROVE  /\ Total(F, S) \in Int
           /\ Total(G, S) = Total(F, S) + G[e] - F[e]
<1>1. Total(F, S) = F[e] + Total(F, S \ {e}) /\ Total(G, S) = G[e] + Total(G, S \ {e})
  BY TotalRemove
<1>2. Total(F, S \ {e}) \in Int /\ Total(F, S \ {e}) = Total(G, S \ {e})
  <2>1. IsFiniteSet(S \ {e})
    BY FS_Subset
  <2> QED
    BY <2>1, TotalSame
<1>3. F[e] \in Int /\ G[e] \in Int
  OBVIOUS
<1> QED
  BY <1>1, <1>2, <1>3

LEMMA TotalZero ==
    ASSUME NEW F, NEW S, IsFiniteSet(S), \A x \in S : F[x] = 0
    PROVE  Total(F, S) = 0
<1> DEFINE good == {n \in Nat : \A T \in SUBSET S : Cardinality(T) <= n => Total(F, T) = 0}
<1>1. 0 \in good
  <2>1. ASSUME NEW T \in SUBSET S, Cardinality(T) <= 0 PROVE T = {}
    BY <2>1, FS_Subset, FS_EmptySet, FS_CardinalityType
  <2> QED
    BY <2>1, TotalEmpty
<1>2. ASSUME NEW n \in Nat, n \in good PROVE n + 1 \in good
  <2>1. ASSUME NEW T \in SUBSET S, Cardinality(T) <= n + 1, T # {} PROVE Total(F, T) = 0
    <3>1. IsFiniteSet(T) /\ Pick(T) \in T
      BY <2>1, FS_Subset, PickIn
    <3>2. T \ {Pick(T)} \in SUBSET S /\ Cardinality(T \ {Pick(T)}) <= n
      BY <2>1, <3>1, Smaller
    <3>3. Total(F, T \ {Pick(T)}) = 0
      BY <1>2, <3>2
    <3> QED
      BY <2>1, <3>1, <3>3, TotalStep
  <2> QED
    BY <2>1, TotalEmpty
<1>3. Cardinality(S) \in good
  BY <1>1, <1>2, AllNumbers, FS_CardinalityType
<1> QED
  BY <1>3, FS_CardinalityType
-----------------------------------------------------------------------------
(* What is held between the trader and the pools.                          *)

\* States[p] are states of pool p that a swap takes to each other, and neither adds to what
\* trader and pool have of a class, nor takes from it.
PoolsConserve(States) ==
    \A p \in PoolIds :
        /\ Loaded[Owner[p]] \in States[p]
        /\ \A s \in States[p] :
              /\ \A t \in Tokens : Inventory(p, s, t) \in Int
              /\ \A tokenIn, tokenOut \in Tokens, amount \in Nat :
                    LET outcome == Swap(p, s, tokenIn, tokenOut, amount) IN
                    outcome.ok /\ outcome.out \in Nat =>
                      /\ outcome.next \in States[p]
                      /\ \A class \in Classes :
                            PoolHolds(p, outcome.next, class) =
                              PoolHolds(p, s, class)
                                + (IF tokenIn \in class THEN amount ELSE 0)
                                - (IF tokenOut \in class THEN outcome.out ELSE 0)

HoldInv(States) ==
    /\ \A p \in PoolIds : pools[p] \in States[p]
    /\ pc = "check" => /\ \A t \in Tokens : balances[t] = 0
                       /\ \A p \in PoolIds : pools[p] = Loaded[Owner[p]]
    /\ TokensConserved

LEMMA ClassFinite ==
    ASSUME NEW class \in Classes
    PROVE  class \subseteq Tokens /\ IsFiniteSet(class) /\ IsFiniteSet(PoolIds)
  BY EvaluatorAssumption

LEMMA HoldsTyped ==
    ASSUME NEW States, PoolsConserve(States), NEW class \in Classes, NEW p \in PoolIds,
           NEW s \in States[p]
    PROVE  PoolHolds(p, s, class) \in Int
<1> DEFINE F == [t \in class |-> Inventory(p, s, t)]
<1>1. \A t \in class : F[t] \in Int
  BY ClassFinite DEF PoolsConserve
<1> HIDE DEF F
<1>2. Total(F, class) \in Int
  BY <1>1, ClassFinite, TotalSame
<1> QED
  BY <1>2 DEF PoolHolds, F

\* One balance changes by an amount.
LEMMA BalanceMoves ==
    ASSUME NEW class \in Classes, NEW F \in [Tokens -> Int], NEW G \in [Tokens -> Int],
           NEW t \in Tokens, NEW amount \in Int,
           G[t] = F[t] + amount, \A u \in Tokens \ {t} : G[u] = F[u]
    PROVE  /\ Total(F, class) \in Int
           /\ Total(G, class) = Total(F, class) + (IF t \in class THEN amount ELSE 0)
<1>2. class \subseteq Tokens /\ IsFiniteSet(class)
  BY ClassFinite
<1>3. \A u \in class : F[u] \in Int /\ G[u] \in Int
  BY <1>2
<1>4. CASE t \in class
  <2>1. \A u \in class \ {t} : G[u] = F[u]
    BY <1>2
  <2>2. Total(F, class) \in Int /\ Total(G, class) = Total(F, class) + G[t] - F[t]
    BY <1>2, <1>3, <1>4, <2>1, TotalChanged
  <2> QED
    BY <1>3, <1>4, <2>2
<1>5. CASE t \notin class
  <2>1. \A u \in class : F[u] \in Int /\ F[u] = G[u]
    BY <1>2, <1>3, <1>5
  <2>2. Total(F, class) \in Int /\ Total(F, class) = Total(G, class)
    BY <1>2, <2>1, TotalSame
  <2> QED
    BY <1>5, <2>2
<1> QED
  BY <1>4, <1>5

\* A step leaves every pool in one of its states.
LEMMA StepStaysLoaded ==
    ASSUME NEW States, PoolsConserve(States), Inv, HoldInv(States), ExecuteStep
    PROVE  \A p \in PoolIds : pools'[p] \in States[p]
<1>1. /\ Step.tokenIn \in Tokens /\ Step.tokenOut \in Tokens
      /\ Step.amountIn \in Nat /\ Step.pool \in PoolIds
      /\ Outcome.ok /\ Outcome.out \in Nat
      /\ pools' = [pools EXCEPT ![Step.pool] = Outcome.next]
      /\ DOMAIN pools = PoolIds
  BY StepTyped DEF Inv, Shapes, ExecuteStep, Executable, StepSet
<1>2. pools[Step.pool] \in States[Step.pool] /\ Outcome.next \in States[Step.pool]
  BY <1>1 DEF HoldInv, PoolsConserve, Outcome
<1> QED
  BY <1>1, <1>2 DEF HoldInv

\* What a step takes from the trader, the pool has; what it gives, the pool had.
LEMMA StepConserves ==
    ASSUME NEW States, PoolsConserve(States), Inv, HoldInv(States), ExecuteStep,
           NEW class \in Classes
    PROVE  Held(class)' = Held(class)
<1> DEFINE in == Step.tokenIn
           out == Step.tokenOut
           amount == Step.amountIn
           gained == Outcome.out
           p0 == Step.pool
           paid == IF in \in class THEN amount ELSE 0
           got == IF out \in class THEN gained ELSE 0
<1>1. /\ in \in Tokens /\ out \in Tokens /\ amount \in Nat /\ p0 \in PoolIds
      /\ Outcome.ok /\ gained \in Nat
      /\ balances' = [Spent EXCEPT ![out] = @ + gained]
      /\ pools' = [pools EXCEPT ![p0] = Outcome.next]
      /\ DOMAIN pools = PoolIds
  BY StepTyped DEF Inv, Shapes, ExecuteStep, Executable, StepSet
<1>2. /\ balances \in [Tokens -> Int] /\ Spent \in [Tokens -> Int]
      /\ Spent[in] = balances[in] + (- amount)
      /\ \A u \in Tokens \ {in} : Spent[u] = balances[u]
  <2>1. balances \in [Tokens -> Nat]
    BY DEF Inv, TypeOK
  <2>2. balances[in] \in Nat /\ balances[in] - amount \in Int
        /\ balances[in] - amount = balances[in] + (- amount)
    BY <1>1, <2>1
  <2> QED
    BY <1>1, <2>1, <2>2 DEF Spent
<1>3. /\ pools[p0] \in States[p0]
      /\ Outcome.next \in States[p0]
      /\ PoolHolds(p0, Outcome.next, class) = PoolHolds(p0, pools[p0], class) + paid - got
  BY <1>1 DEF HoldInv, PoolsConserve, Outcome
<1> HIDE DEF in, out, amount, gained, p0
<1>4. /\ Total(balances, class) \in Int
      /\ Total(Spent, class) = Total(balances, class) + (IF in \in class THEN - amount ELSE 0)
  <2>1. - amount \in Int
    BY <1>1
  <2> QED
    BY <1>1, <1>2, <2>1, BalanceMoves
<1>5. Total(balances', class) = Total(Spent, class) + got
  <2> DEFINE after == balances'
             spent == Spent
  <2>1. /\ spent \in [Tokens -> Int]
        /\ after \in [Tokens -> Int]
        /\ after[out] = spent[out] + gained
        /\ \A u \in Tokens \ {out} : after[u] = spent[u]
    BY <1>1, <1>2
  <2>2. gained \in Int /\ out \in Tokens
    BY <1>1
  <2> HIDE DEF after, spent
  <2>3. Total(after, class) = Total(spent, class) + (IF out \in class THEN gained ELSE 0)
    BY <2>1, <2>2, BalanceMoves
  <2> QED
    BY <2>3 DEF after, spent
<1>6. Total(balances', class) = Total(balances, class) - paid + got
  BY <1>1, <1>4, <1>5
<1> DEFINE F == [p \in PoolIds |-> PoolHolds(p, pools[p], class)]
           G == [p \in PoolIds |-> PoolHolds(p, pools'[p], class)]
<1>7. \A p \in PoolIds : pools'[p] \in States[p]
  BY StepStaysLoaded
<1>8. \A p \in PoolIds : F[p] \in Int /\ G[p] \in Int
  BY <1>7, HoldsTyped DEF HoldInv
<1>9. /\ \A p \in PoolIds \ {p0} : G[p] = F[p]
      /\ G[p0] = F[p0] + paid - got
  BY <1>1, <1>3
<1> HIDE DEF F, G
<1>10. Total(F, PoolIds) \in Int /\ Total(G, PoolIds) = Total(F, PoolIds) + G[p0] - F[p0]
  BY <1>1, <1>8, <1>9, ClassFinite, TotalChanged
<1>11. Total(G, PoolIds) = Total(F, PoolIds) + paid - got
  BY <1>1, <1>8, <1>9, <1>10
<1>12. Held(class) = Total(balances, class) + Total(F, PoolIds)
  BY DEF Held, F
<1>13. Held(class)' = Total(balances', class) + Total(G, PoolIds)
  BY DEF Held, G, PoolHolds, Total, MapThenSumSet, MapThenFoldSet
<1> QED
  BY <1>1, <1>4, <1>6, <1>10, <1>11, <1>12, <1>13
-----------------------------------------------------------------------------
(* TokensConserved, for any adapters that conserve.                        *)

\* Before the first step the trader has the request's input, and the pools
\* what was loaded.
LEMMA BeginConserves ==
    ASSUME NEW States, PoolsConserve(States), Inv, HoldInv(States), Begin,
           NEW class \in Classes
    PROVE  Held(class)' = HeldAtStart(class)
<1> DEFINE t == request.tokenIn
           amount == request.amountIn
           after == balances'
           F == [p \in PoolIds |-> PoolHolds(p, Loaded[Owner[p]], class)]
           G == [p \in PoolIds |-> PoolHolds(p, pools'[p], class)]
<1>1. t \in Tokens /\ amount \in Int /\ pc = "check" /\ pools' = pools
      /\ balances \in [Tokens -> Nat] /\ after = [balances EXCEPT ![t] = amount]
  BY RequestTyped DEF Inv, TypeOK, Shapes, Begin
<1>2. \A u \in Tokens : balances[u] = 0
  BY <1>1 DEF HoldInv
<1>3. /\ balances \in [Tokens -> Int] /\ after \in [Tokens -> Int]
      /\ after[t] = balances[t] + amount
      /\ \A u \in Tokens \ {t} : after[u] = balances[u]
  BY <1>1, <1>2
<1>4. \A p \in PoolIds : pools[p] = Loaded[Owner[p]]
  BY <1>1 DEF HoldInv
<1>5. F = G
  BY <1>1, <1>4
<1>6. Total(balances, class) = 0
  BY <1>2, ClassFinite, TotalZero
<1> HIDE DEF t, amount, after, F, G
<1>7. Total(after, class) = (IF t \in class THEN amount ELSE 0)
  <2>1. Total(after, class) = Total(balances, class) + (IF t \in class THEN amount ELSE 0)
    <3>1. t \in Tokens /\ amount \in Int
      BY <1>1
    <3> QED
      BY <1>3, <3>1, BalanceMoves
  <2> QED
    BY <1>1, <1>6, <2>1
<1>8. HeldAtStart(class) = (IF t \in class THEN amount ELSE 0) + Total(F, PoolIds)
  BY DEF HeldAtStart, t, amount, F
<1>9. Held(class)' = Total(after, class) + Total(G, PoolIds)
  BY DEF Held, G, after, PoolHolds, Total, MapThenSumSet, MapThenFoldSet
<1> QED
  BY <1>5, <1>7, <1>8, <1>9

LEMMA HoldInvInit ==
    ASSUME NEW States, PoolsConserve(States)
    PROVE  Init => HoldInv(States)
  BY DEF Init, HoldInv, PoolsConserve, TokensConserved

LEMMA HoldInvNext ==
    ASSUME NEW States, PoolsConserve(States), Inv, HoldInv(States), [Next]_vars
    PROVE  HoldInv(States)'
<1>1. CASE Reject
  <2>1. pools' = pools /\ pc' = "rejected"
    BY <1>1 DEF Reject
  <2> QED
    BY <2>1 DEF HoldInv, TokensConserved
<1>2. CASE Begin
  <2>1. pools' = pools /\ pc' = "run" /\ request' = request
    BY <1>2 DEF Begin
  <2>2. ASSUME NEW class \in Classes PROVE Held(class)' = HeldAtStart(class)'
    <3>1. HeldAtStart(class)' = HeldAtStart(class)
      BY <2>1 DEF HeldAtStart
    <3> QED
      BY <1>2, <3>1, BeginConserves
  <2> QED
    BY <2>1, <2>2 DEF HoldInv, TokensConserved
<1>3. CASE ExecuteStep
  <2>1. pc' = "run" /\ pc = "run" /\ request' = request
    BY <1>3 DEF ExecuteStep
  <2>2. ASSUME NEW class \in Classes PROVE Held(class)' = HeldAtStart(class)'
    <3>1. HeldAtStart(class)' = HeldAtStart(class)
      BY <2>1 DEF HeldAtStart
    <3>2. Held(class) = HeldAtStart(class)
      BY <2>1 DEF HoldInv, TokensConserved
    <3> QED
      BY <1>3, <3>1, <3>2, StepConserves
  <2>3. \A p \in PoolIds : pools'[p] \in States[p]
    BY <1>3, StepStaysLoaded
  <2> QED
    BY <2>1, <2>2, <2>3 DEF HoldInv, TokensConserved
<1>4. CASE Settle \/ UNCHANGED vars
  <2>1. /\ pools' = pools /\ balances' = balances /\ request' = request
        /\ pc' # "check" \/ pc' = pc
        /\ pc' \in {"run", "done"} => pc \in {"run", "done"}
    BY <1>4 DEF Settle, vars
  <2>2. ASSUME NEW class \in Classes
        PROVE  Held(class)' = Held(class) /\ HeldAtStart(class)' = HeldAtStart(class)
    BY <2>1 DEF Held, HeldAtStart, PoolHolds, Total, MapThenSumSet, MapThenFoldSet
  <2> QED
    BY <2>1, <2>2 DEF HoldInv, TokensConserved
<1> QED
  BY <1>1, <1>2, <1>3, <1>4 DEF Next

\* TokensConserved (Evaluator.evaluate): whatever the plan, the request and
\* the adapters, as long as each adapter by itself gives what it takes,
\* nothing appears or vanishes between the trader and the pools.
THEOREM TokensAreConserved ==
    ASSUME NEW CONSTANT States, PoolsConserve(States)
    PROVE  Spec => []TokensConserved
<1>1. Init => HoldInv(States)
  BY HoldInvInit
<1>2. Inv /\ HoldInv(States) /\ [Next]_vars => HoldInv(States)'
  BY HoldInvNext
<1>3. HoldInv(States) => TokensConserved
  BY DEF HoldInv
<1> QED
  BY <1>1, <1>2, <1>3, Inductive, PTL DEF Spec
-----------------------------------------------------------------------------
(* The adapters of module Venues conserve.                                 *)

\* The evaluator's pools are venues, and a class that has one token of a
\* converter has the other.
AreVenues ==
    /\ Wad \in Nat \ {0}
    /\ Kind \in [PoolIds -> {"v2", "psm", "wrapper", "converter"}]
    /\ Pair \in [PoolIds -> Tokens \X Tokens]
    /\ \A p \in PoolIds :
          /\ Pair[p][1] # Pair[p][2]
          /\ Kind[p] = "converter" =>
                \A class \in Classes : Pair[p][1] \in class <=> Pair[p][2] \in class
          /\ \A s, tokenIn, tokenOut, amount :
                /\ Swap(p, s, tokenIn, tokenOut, amount)
                     = V!VenueSwap(p, s, tokenIn, tokenOut, amount)
                /\ \A t : Inventory(p, s, t) = V!VenueInventory(p, s, t)

PsmStates == [tin : V!Psm!Fees, tout : V!Psm!Fees,
              daiBuffer : Int, pocketGem : Int, allowance : Int]

VenueStates ==
    [p \in PoolIds |->
        CASE Kind[p] = "v2" -> [{Pair[p][1], Pair[p][2]} -> Int]
          [] Kind[p] \in {"psm", "wrapper"} -> PsmStates
          [] Kind[p] = "converter" -> {Loaded[Owner[p]]}]

\* The LitePSM: what a sale pays leaves the buffer, what a buy costs
\* enters it.
LEMMA SaleConserves ==
    ASSUME Wad \in Nat \ {0}, NEW s \in PsmStates, NEW amount \in Nat,
           V!Psm!SellGem(s, amount).ok
    PROVE  LET outcome == V!Psm!SellGem(s, amount) IN
           /\ outcome.next \in PsmStates
           /\ outcome.next.pocketGem = s.pocketGem + amount
           /\ outcome.next.daiBuffer = s.daiBuffer - outcome.out
<1> DEFINE dai == V!Psm!SellDai(s, amount)
<1>1. dai \in Int
  <2>1. s.tin \in Nat
    BY DEF V!Psm!SellGem, V!Psm!Unsupported, PsmStates, V!Psm!Fees
  <2>2. amount * Factor \in Nat /\ (amount * Factor) * s.tin \in Nat
    BY <2>1, EvaluatorAssumption
  <2>3. ((amount * Factor) * s.tin) \div Wad \in Int
    BY <2>2
  <2> QED
    BY <2>2, <2>3 DEF V!Psm!SellDai, V!Psm!Fee
<1> HIDE DEF dai
<1>2. /\ V!Psm!SellGem(s, amount).out = dai
      /\ V!Psm!SellGem(s, amount).next =
            [s EXCEPT !.daiBuffer = @ - dai, !.pocketGem = @ + amount]
  BY DEF V!Psm!SellGem, V!Psm!Unsupported, dai
<1> DEFINE next == V!Psm!SellGem(s, amount).next
<1>3. s.daiBuffer - dai \in Int /\ s.pocketGem + amount \in Int
  BY <1>1 DEF PsmStates
<1>4. /\ next \in PsmStates
      /\ next.pocketGem = s.pocketGem + amount /\ next.daiBuffer = s.daiBuffer - dai
  BY <1>2, <1>3 DEF PsmStates
<1> QED
  BY <1>2, <1>4

LEMMA BuyConserves ==
    ASSUME NEW s \in PsmStates, NEW amount \in Nat,
           V!Psm!BuyGem(s, amount).ok, V!Psm!BuyGem(s, amount).out \in Nat
    PROVE  LET outcome == V!Psm!BuyGem(s, amount) IN
           /\ outcome.next \in PsmStates
           /\ outcome.next.pocketGem = s.pocketGem - outcome.out
           /\ outcome.next.daiBuffer = s.daiBuffer + amount
<1> DEFINE gem == CHOOSE g \in V!Psm!Preimage(s, amount) : TRUE
<1> HIDE DEF gem
<1>1. /\ V!Psm!BuyGem(s, amount).out = gem
      /\ V!Psm!BuyGem(s, amount).next = V!Psm!AfterBuy(s, amount, gem)
  BY DEF V!Psm!BuyGem, V!Psm!Unsupported, gem
<1>2. gem \in Nat
  BY <1>1
<1> DEFINE next == V!Psm!BuyGem(s, amount).next
<1>3. /\ s.daiBuffer + amount \in Int /\ s.pocketGem - gem \in Int
      /\ s.allowance - gem \in Int
  BY <1>2 DEF PsmStates
<1>4. /\ next \in PsmStates
      /\ next.pocketGem = s.pocketGem - gem /\ next.daiBuffer = s.daiBuffer + amount
  BY <1>1, <1>3 DEF PsmStates, V!Psm!AfterBuy
<1> QED
  BY <1>1, <1>4

\* One amount of a class changes, or none does.
LEMMA AmountMoves ==
    ASSUME NEW class \in Classes, NEW F, NEW G, NEW t, NEW amount \in Int,
           \A u \in class : F[u] \in Int,
           \A u \in class : G[u] = F[u] + (IF u = t THEN amount ELSE 0)
    PROVE  /\ Total(F, class) \in Int /\ Total(G, class) \in Int
           /\ Total(G, class) = Total(F, class) + (IF t \in class THEN amount ELSE 0)
<1>1. IsFiniteSet(class)
  BY ClassFinite
<1>2. \A u \in class : G[u] \in Int
  OBVIOUS
<1>3. CASE t \in class
  <2>1. (\A u \in class \ {t} : G[u] = F[u]) /\ G[t] = F[t] + amount
    BY <1>3
  <2>2. Total(F, class) \in Int /\ Total(G, class) = Total(F, class) + G[t] - F[t]
    BY <1>1, <1>2, <1>3, <2>1, TotalChanged
  <2>3. F[t] \in Int
    BY <1>3
  <2> QED
    BY <1>3, <2>1, <2>2, <2>3
<1>4. CASE t \notin class
  <2>1. \A u \in class : F[u] \in Int /\ F[u] = G[u]
    BY <1>4
  <2>2. Total(F, class) \in Int /\ Total(F, class) = Total(G, class)
    BY <1>1, <2>1, TotalSame
  <2> QED
    BY <1>4, <2>2
<1> QED
  BY <1>3, <1>4

\* From one state of a pool to the next a of x came in and b of y went out.
Moved(p, s, next, x, y, a, b) ==
    /\ a \in Int /\ b \in Int
    /\ \A t \in Tokens :
          /\ Inventory(p, s, t) \in Int
          /\ Inventory(p, next, t) =
                Inventory(p, s, t) + (IF t = x THEN a ELSE 0) - (IF t = y THEN b ELSE 0)

\* Inventories that move token by token move as a class.
LEMMA ClassMoves ==
    ASSUME NEW class \in Classes, NEW p \in PoolIds, NEW s, NEW next, NEW x, NEW y,
           NEW a, NEW b, Moved(p, s, next, x, y, a, b)
    PROVE  PoolHolds(p, next, class) =
             PoolHolds(p, s, class) + (IF x \in class THEN a ELSE 0)
                                    - (IF y \in class THEN b ELSE 0)
<1> DEFINE F == [t \in class |-> Inventory(p, s, t)]
           H == [t \in class |-> F[t] + (IF t = x THEN a ELSE 0)]
           G == [t \in class |-> Inventory(p, next, t)]
<1>0. /\ a \in Int /\ b \in Int
      /\ \A t \in class :
            /\ Inventory(p, s, t) \in Int
            /\ Inventory(p, next, t) =
                  Inventory(p, s, t) + (IF t = x THEN a ELSE 0) - (IF t = y THEN b ELSE 0)
  BY ClassFinite DEF Moved
<1>1. \A t \in class : F[t] \in Int
  BY <1>0
<1>2. \A t \in class : H[t] = F[t] + (IF t = x THEN a ELSE 0)
  OBVIOUS
<1>3. \A t \in class : H[t] \in Int /\ G[t] = H[t] + (IF t = y THEN - b ELSE 0)
  BY <1>0, <1>1
<1>4. - b \in Int
  BY <1>0
<1>5. Total(F, class) = PoolHolds(p, s, class) /\ Total(G, class) = PoolHolds(p, next, class)
  BY DEF PoolHolds
<1> HIDE DEF F, G, H
<1>6. /\ Total(F, class) \in Int /\ Total(H, class) \in Int
      /\ Total(H, class) = Total(F, class) + (IF x \in class THEN a ELSE 0)
  BY <1>0, <1>1, <1>2, AmountMoves
<1>7. Total(G, class) = Total(H, class) + (IF y \in class THEN - b ELSE 0)
  BY <1>3, <1>4, AmountMoves
<1>8. Total(G, class) = Total(H, class) - (IF y \in class THEN b ELSE 0)
  <2>1. \A n, m \in Int : n + (- m) = n - m /\ n + 0 = n - 0
    OBVIOUS
  <2> QED
    BY <1>0, <1>6, <1>7, <2>1
<1>9. Total(G, class) = Total(F, class) + (IF x \in class THEN a ELSE 0)
                                         - (IF y \in class THEN b ELSE 0)
  BY <1>0, <1>6, <1>8
<1> QED
  BY <1>5, <1>9

LEMMA HoldsInt ==
    ASSUME NEW class \in Classes, NEW p \in PoolIds, NEW s,
           \A t \in class : Inventory(p, s, t) \in Int
    PROVE  PoolHolds(p, s, class) \in Int
<1> DEFINE F == [t \in class |-> Inventory(p, s, t)]
<1>1. \A t \in class : F[t] \in Int
  OBVIOUS
<1> HIDE DEF F
<1>2. Total(F, class) \in Int
  BY <1>1, ClassFinite, TotalSame
<1> QED
  BY <1>2 DEF PoolHolds, F

\* A swap at a venue, its own tokens in either direction.
LEMMA VenueConserves ==
    ASSUME AreVenues, NEW p \in PoolIds, NEW s \in VenueStates[p], NEW x \in Tokens,
           NEW y \in Tokens, NEW amount \in Nat,
           Swap(p, s, x, y, amount).ok, Swap(p, s, x, y, amount).out \in Nat
    PROVE  LET outcome == Swap(p, s, x, y, amount) IN
           /\ outcome.next \in VenueStates[p]
           /\ \A class \in Classes :
                 PoolHolds(p, outcome.next, class) =
                   PoolHolds(p, s, class) + (IF x \in class THEN amount ELSE 0)
                                          - (IF y \in class THEN outcome.out ELSE 0)
<1> DEFINE outcome == Swap(p, s, x, y, amount)
           out == outcome.out
           next == outcome.next
           t1 == Pair[p][1]
           t2 == Pair[p][2]
<1>1. outcome = V!VenueSwap(p, s, x, y, amount)
  BY DEF AreVenues
<1>2. x # y /\ {x, y} = {t1, t2} /\ t1 # t2 /\ outcome.ok /\ out \in Nat
  <2>1. t1 # t2 /\ outcome.ok /\ out \in Nat
    BY DEF AreVenues
  <2>2. ~(x # y /\ {x, y} = {t1, t2}) => outcome = [ok |-> FALSE]
    BY <1>1 DEF V!VenueSwap
  <2> QED
    BY <2>1, <2>2
<1>3. \A r, t : Inventory(p, r, t) = V!VenueInventory(p, r, t)
  BY DEF AreVenues
<1>4. Kind[p] \in {"v2", "psm", "wrapper", "converter"}
  BY DEF AreVenues
<1> HIDE DEF outcome, t1, t2
<1>5. CASE Kind[p] = "v2"
  <2>1. s \in [{x, y} -> Int] /\ VenueStates[p] = [{x, y} -> Int]
    BY <1>2, <1>5 DEF VenueStates, t1, t2
  <2>2. outcome = V!SwapReserves(s, x, y, amount)
    BY <1>1, <1>2, <1>5 DEF V!VenueSwap, t1, t2
  <2>3. next \in [{x, y} -> Int] /\ next[x] = s[x] + amount /\ next[y] = s[y] - out
    <3> DEFINE paid == V!GetAmountOut(amount, s[x], s[y])
    <3> HIDE DEF paid
    <3>1. CASE amount = 0
      <4>1. next = s /\ out = 0
        BY <2>2, <3>1 DEF V!SwapReserves
      <4> QED
        BY <2>1, <3>1, <4>1
    <3>2. CASE amount # 0
      <4>1. out = paid /\ next = [s EXCEPT ![x] = @ + amount, ![y] = @ - paid]
        BY <1>2, <2>2, <3>2 DEF V!SwapReserves, paid
      <4> HIDE DEF out, next
      <4> QED
        BY <1>2, <2>1, <4>1
    <3> QED
      BY <3>1, <3>2
  <2>4. ASSUME NEW r, NEW t
        PROVE  Inventory(p, r, t) = IF t \in {x, y} THEN r[t] ELSE 0
    <3>1. Inventory(p, r, t) = V!VenueInventory(p, r, t)
      BY <1>3
    <3>2. V!VenueInventory(p, r, t) = IF t \notin {t1, t2} THEN 0 ELSE r[t]
      BY <1>5 DEF V!VenueInventory, t1, t2
    <3> QED
      BY <1>2, <3>1, <3>2
  <2>5. \A t \in Tokens :
           /\ Inventory(p, s, t) \in Int
           /\ Inventory(p, next, t) =
                 Inventory(p, s, t) + (IF t = x THEN amount ELSE 0)
                                    - (IF t = y THEN out ELSE 0)
    BY <1>2, <2>1, <2>3, <2>4
  <2>6. amount \in Int /\ out \in Int
    BY <1>2
  <2> HIDE DEF out, next
  <2>7. Moved(p, s, next, x, y, amount, out)
    BY <2>5, <2>6 DEF Moved
  <2>8. ASSUME NEW class \in Classes
        PROVE  PoolHolds(p, next, class) =
                 PoolHolds(p, s, class) + (IF x \in class THEN amount ELSE 0)
                                        - (IF y \in class THEN out ELSE 0)
    BY <2>7, ClassMoves
  <2> QED
    BY <2>1, <2>3, <2>8 DEF outcome, out, next
<1>6. CASE Kind[p] \in {"psm", "wrapper"}
  <2>1. s \in PsmStates /\ VenueStates[p] = PsmStates
    BY <1>6 DEF VenueStates
  <2>2. ASSUME NEW r, NEW t
        PROVE  Inventory(p, r, t) = IF t = t2 THEN r.pocketGem
                                    ELSE IF t = t1 THEN r.daiBuffer ELSE 0
    <3>1. Inventory(p, r, t) = V!VenueInventory(p, r, t)
      BY <1>3
    <3> QED
      BY <1>6, <3>1 DEF V!VenueInventory, t1, t2
  <2>3. /\ next \in PsmStates
        /\ x = t1 /\ y = t2 =>
              next.pocketGem = s.pocketGem - out /\ next.daiBuffer = s.daiBuffer + amount
        /\ x = t2 /\ y = t1 =>
              next.pocketGem = s.pocketGem + amount /\ next.daiBuffer = s.daiBuffer - out
    <3>1. CASE x = t1 /\ y = t2
      <4>1. outcome = V!Psm!BuyGem(s, amount)
        BY <1>1, <1>2, <1>6, <3>1 DEF V!VenueSwap, V!SwapPsm, AreVenues, t1, t2
      <4> QED
        BY <1>2, <2>1, <3>1, <4>1, BuyConserves
    <3>2. CASE x = t2 /\ y = t1
      <4>1. outcome = V!Psm!SellGem(s, amount)
        BY <1>1, <1>2, <1>6, <3>2 DEF V!VenueSwap, V!SwapPsm, AreVenues, t1, t2
      <4> QED
        BY <1>2, <2>1, <3>2, <4>1, SaleConserves DEF AreVenues
    <3> QED
      BY <1>2, <3>1, <3>2
  <2> HIDE DEF out, next
  <2>4. s.pocketGem \in Int /\ s.daiBuffer \in Int
    BY <2>1 DEF PsmStates
  <2>5. \A t \in Tokens :
           /\ Inventory(p, s, t) \in Int
           /\ Inventory(p, next, t) =
                 Inventory(p, s, t) + (IF t = x THEN amount ELSE 0)
                                    - (IF t = y THEN out ELSE 0)
    <3>1. CASE x = t1 /\ y = t2
      BY <1>2, <2>2, <2>3, <2>4, <3>1
    <3>2. CASE x = t2 /\ y = t1
      BY <1>2, <2>2, <2>3, <2>4, <3>2
    <3> QED
      BY <1>2, <3>1, <3>2
  <2>6. amount \in Int /\ out \in Int
    BY <1>2
  <2>7. Moved(p, s, next, x, y, amount, out)
    BY <2>5, <2>6 DEF Moved
  <2>8. ASSUME NEW class \in Classes
        PROVE  PoolHolds(p, next, class) =
                 PoolHolds(p, s, class) + (IF x \in class THEN amount ELSE 0)
                                        - (IF y \in class THEN out ELSE 0)
    BY <2>7, ClassMoves
  <2> QED
    BY <2>1, <2>3, <2>8 DEF outcome, out, next
<1>7. CASE Kind[p] = "converter"
  <2>1. outcome = V!Convert(s, amount)
    BY <1>1, <1>2, <1>7 DEF V!VenueSwap, t1, t2
  <2>2. next = s /\ out = amount
    BY <2>1 DEF V!Convert
  <2>3. ASSUME NEW class \in Classes
        PROVE  /\ x \in class <=> y \in class
               /\ PoolHolds(p, s, class) \in Int
    <3>1. x \in class <=> y \in class
      BY <1>2, <1>7 DEF AreVenues, t1, t2
    <3>2. \A t \in class : Inventory(p, s, t) \in Int
      BY <1>3, <1>7 DEF V!VenueInventory
    <3>3. PoolHolds(p, s, class) \in Int
      BY <3>2, HoldsInt
    <3> QED
      BY <3>1, <3>3
  <2> HIDE DEF out, next
  <2>4. ASSUME NEW class \in Classes
        PROVE  PoolHolds(p, next, class) =
                 PoolHolds(p, s, class) + (IF x \in class THEN amount ELSE 0)
                                        - (IF y \in class THEN out ELSE 0)
    BY <2>2, <2>3
  <2> QED
    BY <2>2, <2>4 DEF outcome, out, next
<1> QED
  BY <1>4, <1>5, <1>6, <1>7

LEMMA VenuesConserve ==
    ASSUME AreVenues, \A p \in PoolIds : Loaded[Owner[p]] \in VenueStates[p]
    PROVE  PoolsConserve(VenueStates)
<1>1. ASSUME NEW p \in PoolIds, NEW s \in VenueStates[p], NEW t \in Tokens
      PROVE  Inventory(p, s, t) \in Int
  <2>1. Inventory(p, s, t) = V!VenueInventory(p, s, t)
    BY DEF AreVenues
  <2>2. CASE Kind[p] = "v2"
    <3>1. s \in [{Pair[p][1], Pair[p][2]} -> Int]
      BY <2>2 DEF VenueStates
    <3> QED
      BY <2>1, <2>2, <3>1 DEF V!VenueInventory
  <2>3. CASE Kind[p] \in {"psm", "wrapper"}
    <3>1. s.pocketGem \in Int /\ s.daiBuffer \in Int
      BY <2>3 DEF VenueStates, PsmStates
    <3> QED
      BY <2>1, <2>3, <3>1 DEF V!VenueInventory
  <2>4. CASE Kind[p] = "converter"
    BY <2>1, <2>4 DEF V!VenueInventory
  <2> QED
    BY <2>2, <2>3, <2>4 DEF AreVenues
<1>2. ASSUME NEW p \in PoolIds, NEW s \in VenueStates[p],
             NEW x \in Tokens, NEW y \in Tokens, NEW amount \in Nat
      PROVE  LET outcome == Swap(p, s, x, y, amount) IN
             outcome.ok /\ outcome.out \in Nat =>
               /\ outcome.next \in VenueStates[p]
               /\ \A class \in Classes :
                     PoolHolds(p, outcome.next, class) =
                       PoolHolds(p, s, class)
                         + (IF x \in class THEN amount ELSE 0)
                         - (IF y \in class THEN outcome.out ELSE 0)
  BY VenueConserves
<1> QED
  BY <1>1, <1>2 DEF PoolsConserve

\* TokensConserved, with nothing left to assume of an adapter: V2 pairs, the
\* LitePSM with its fees, the USDS wrapper and the converter, in any number.
THEOREM VenueTokensAreConserved ==
    ASSUME AreVenues, \A p \in PoolIds : Loaded[Owner[p]] \in VenueStates[p]
    PROVE  Spec => []TokensConserved
  BY VenuesConserve, TokensAreConserved
=============================================================================
