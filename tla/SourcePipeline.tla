---------------------------- MODULE SourcePipeline ----------------------------
(***************************************************************************)
(* source_expansion_pipeline.py: at each pin every size is quoted with the *)
(* sources there were and with all qualified ones, the plans of the former *)
(* being candidates of the latter; what is worse than before must not be   *)
(* published.                                                              *)
(*                                                                         *)
(* A plan is [pools, out, full]: what evaluating it gives, the same in each *)
(* universe that has its pools; not full, it leaves some of the input.     *)
(* The solvers are heuristics: they propose any plans of the universe.     *)
(***************************************************************************)
EXTENDS Naturals, FiniteSets

CONSTANTS Plans,           \* for a request
          Before, All,     \* pools of the two universes
          PinBlocks, Sizes,
          Missing          \* pins whose evidence may be incomplete

PipelineAssumption ==
    /\ Before \subseteq All /\ PinBlocks \subseteq Nat /\ IsFiniteSet(PinBlocks)
    /\ \A p \in Plans : p.pools \subseteq All /\ p.out \in Nat /\ p.full \in BOOLEAN
    /\ Missing \subseteq PinBlocks

VARIABLES phase,        \* "idle", "before", "combined", "compare", "publish" or an end
          pin,          \* the block, and
          size,         \*   how many sizes are quoted
          before, combined,   \* the best plans, by size
          compared      \* the pins of before_after_comparison.json

pipelineVars == <<phase, pin, size, before, combined, compared>>

NoPlan == [pools |-> {}, out |-> 0, full |-> FALSE]
NoPlans == [s \in Sizes |-> NoPlan]
LowestPin(s) == CHOOSE b \in s : \A c \in s : b <= c

Init ==
    /\ phase = "idle" /\ pin = LowestPin(PinBlocks) /\ size = Sizes
    /\ before = NoPlans /\ combined = NoPlans /\ compared = {}
-----------------------------------------------------------------------------
Pools == IF phase = "before" THEN Before ELSE All
Solved == SUBSET {p \in Plans : p.pools \subseteq Pools}

\* Mutant: the plan found before is not a candidate.
CandidatesFound(found, s) == found

Candidates(found, s) ==
    found \cup (IF phase = "combined" /\ before[s] # NoPlan THEN {before[s]} ELSE {})

\* solve_best_candidate: of the candidates that spend all the input.
Best(candidates, p) ==
    LET full == {c \in candidates : c.full} IN
    IF full = {} THEN p = NoPlan ELSE p \in full /\ \A c \in full : c.out <= p.out

Begin ==
    /\ phase = "idle" /\ phase' = "before"
    /\ UNCHANGED <<pin, size, before, combined, compared>>

\* check_offline_data_availability
Refuse ==
    /\ phase \in {"before", "combined"} /\ size = Sizes /\ pin \in Missing
    /\ phase' = "refused"
    /\ UNCHANGED <<pin, size, before, combined, compared>>

\* evaluate_universe, a size at a time.
Quote(s) ==
    /\ phase \in {"before", "combined"} /\ s \in size
    /\ \E found \in Solved : \E p \in Plans \cup {NoPlan} :
          /\ Best(Candidates(found, s), p)
          /\ IF phase = "before" THEN before' = [before EXCEPT ![s] = p] /\ UNCHANGED combined
                                 ELSE combined' = [combined EXCEPT ![s] = p] /\ UNCHANGED before
    /\ size' = size \ {s}
    /\ UNCHANGED <<phase, pin, compared>>

Quoted ==
    /\ phase \in {"before", "combined"} /\ size = {}
    /\ phase' = IF phase = "before" THEN "combined" ELSE "compare"
    /\ size' = IF phase = "before" THEN Sizes ELSE size
    /\ UNCHANGED <<pin, before, combined, compared>>

\* run_pipeline: the floor; a size without a quote ends the run as well, by the
\* residual that is not there or by the division of delta_bps.
Compare ==
    /\ phase = "compare"
    /\ IF \E s \in Sizes : combined[s].out < before[s].out
       THEN phase' = "regressed" /\ UNCHANGED <<pin, size, before, combined, compared>>
       ELSE IF \E s \in Sizes : NoPlan \in {combined[s], before[s]} \/ before[s].out = 0
       THEN phase' = "raised" /\ UNCHANGED <<pin, size, before, combined, compared>>
       ELSE /\ compared' = compared \cup {pin}
            /\ before' = NoPlans /\ combined' = NoPlans /\ size' = Sizes
            /\ IF compared' = PinBlocks
               THEN phase' = "publish" /\ UNCHANGED pin
               ELSE phase' = "before" /\ pin' = LowestPin(PinBlocks \ compared')

\* The coverage of the families and the comparisons, in two files.
Publish ==
    /\ phase = "publish" /\ phase' = "success"
    /\ UNCHANGED <<pin, size, before, combined, compared>>

PipelineStep == Quoted \/ Compare \/ Publish \/ \E s \in Sizes : Quote(s)

Next == PipelineStep \/ Begin \/ Refuse

Fairness == WF_pipelineVars(PipelineStep)
Spec == Init /\ [][Next]_pipelineVars /\ Fairness
-----------------------------------------------------------------------------
\* With more sources a quote is never worse, whatever the solvers miss: the
\* assertion "Candidate floor regressed" does not fail (run_pipeline).
NeverRegresses == phase # "regressed"
=============================================================================
