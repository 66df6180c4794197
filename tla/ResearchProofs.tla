---------------------------- MODULE ResearchProofs ----------------------------
(***************************************************************************)
(* The research scripts: what more sources do to a quote, what a collected *)
(* window keeps, what is exported and published, what a target time and a  *)
(* reference are made of, which crashes are selected, which swaps counted. *)
(*                                                                         *)
(* Each script has its variables to itself, so an invariant of one is kept *)
(* by the steps of the others; one section proves the invariants of one.   *)
(***************************************************************************)
EXTENDS MCResearch, Sequences, TLAPS, FiniteSetTheorems, WellFoundedInduction

\* A step of one script leaves what the others have alone.
LEMMA OwnSteps ==
    ASSUME [Next]_vars
    PROVE  /\ Expansion!Next \/ UNCHANGED expansionVars
           /\ Event!Next \/ UNCHANGED eventVars
           /\ Sweep!Next \/ UNCHANGED sweepVars
           /\ Swaps!Next \/ UNCHANGED swapVars
           /\ Prices!Next \/ UNCHANGED priceVars
           /\ Selection!Next \/ UNCHANGED selectionVars
           /\ Pipeline!Next \/ UNCHANGED pipelineVars
           /\ References!Next \/ UNCHANGED referenceVars
<1>1. CASE Next
  BY <1>1 DEF Next
<1>2. CASE UNCHANGED vars
  BY <1>2 DEF vars
<1> QED
  BY <1>1, <1>2

\* A set of naturals that is not empty has a least element.
LEMMA LeastExists ==
    ASSUME NEW S \in SUBSET Nat, S # {}
    PROVE  \E b \in S : \A c \in S : b <= c
<1> DEFINE lessThan == {ss \in Nat \X Nat : ss[1] < ss[2]}
<1>1. IsWellFoundedOn(lessThan, Nat)
  BY NatLessThanWellFounded DEF OpToRel
<1>2. PICK b \in S : \A c \in S : ~(<<c, b>> \in lessThan)
  BY <1>1, WFMin
<1>3. ASSUME NEW c \in S PROVE b <= c
  <2>1. c < b => <<c, b>> \in lessThan
    <3>1. <<c, b>> \in Nat \X Nat /\ <<c, b>>[1] = c /\ <<c, b>>[2] = b
      OBVIOUS
    <3> QED
      BY <3>1
  <2> QED
    BY <1>2, <2>1
<1> QED
  BY <1>3
-----------------------------------------------------------------------------
(***************************************************************************)
(* The pipeline (source_expansion_pipeline.py).                            *)
(***************************************************************************)

\* A quote of the former sources is a plan that spends all the input, or none.
Quotes == Plans \cup {Pipeline!NoPlan}

Whole(plan) == plan = Pipeline!NoPlan \/ plan.full

\* What has been quoted with all sources is no worse than before.
FloorHolds ==
    phase \in {"combined", "compare"} =>
        \A s \in Sizes \ size : combined[s].out >= before[s].out

PipelineInv ==
    /\ before \in [Sizes -> Quotes] /\ combined \in [Sizes -> Quotes]
    /\ \A s \in Sizes : Whole(before[s])
    /\ phase = "compare" => size = {}
    /\ FloorHolds
    /\ phase # "regressed"

LEMMA QuoteOut == ASSUME NEW q \in Quotes PROVE q.out \in Nat
  BY ResearchAssumption DEF Pipeline!PipelineAssumption, Quotes, Pipeline!NoPlan

\* Of the candidates the best is no worse than any that spends all the input.
LEMMA BestOfCandidates ==
    ASSUME PipelineInv, phase \in {"before", "combined"}, NEW s \in Sizes,
           NEW found \in Pipeline!Solved, NEW q \in Quotes,
           Pipeline!Best(Pipeline!Candidates(found, s), q)
    PROVE  /\ Whole(q)
           /\ phase = "combined" => q.out >= before[s].out
<1> DEFINE candidates == Pipeline!Candidates(found, s)
           full == {c \in candidates : c.full}
<1>1. IF full = {} THEN q = Pipeline!NoPlan ELSE q \in full /\ \A c \in full : c.out <= q.out
  BY DEF Pipeline!Best
<1>2. Whole(q)
  BY <1>1 DEF Whole
<1>3. before[s] \in Quotes /\ Whole(before[s])
  BY DEF PipelineInv
<1>4. CASE phase = "combined" /\ before[s] # Pipeline!NoPlan
  <2>1. before[s] \in candidates
    BY <1>4 DEF Pipeline!Candidates
  <2>2. before[s] \in full
    BY <1>3, <1>4, <2>1 DEF Whole
  <2>3. before[s].out <= q.out
    BY <1>1, <2>2
  <2> QED
    BY <1>2, <1>3, <2>3, QuoteOut
<1>5. CASE before[s] = Pipeline!NoPlan
  <2>1. before[s].out = 0 /\ q.out \in Nat
    BY <1>5, QuoteOut DEF Pipeline!NoPlan
  <2> QED
    BY <1>2, <2>1
<1> QED
  BY <1>2, <1>4, <1>5

LEMMA PipelineInit == Init => PipelineInv
  BY DEF Init, Pipeline!Init, PipelineInv, FloorHolds, Quotes, Whole, Pipeline!NoPlans

LEMMA QuoteKeeps ==
    ASSUME PipelineInv, NEW s \in Sizes, Pipeline!Quote(s) PROVE PipelineInv'
<1>1. PICK found \in Pipeline!Solved, q \in Quotes :
         /\ Pipeline!Best(Pipeline!Candidates(found, s), q)
         /\ IF phase = "before" THEN before' = [before EXCEPT ![s] = q] /\ UNCHANGED combined
                                ELSE combined' = [combined EXCEPT ![s] = q] /\ UNCHANGED before
  BY DEF Pipeline!Quote, Quotes
<1>2. phase \in {"before", "combined"} /\ size' = size \ {s} /\ UNCHANGED phase
  BY DEF Pipeline!Quote
<1>3. Whole(q) /\ (phase = "combined" => q.out >= before[s].out)
  BY <1>1, <1>2, BestOfCandidates
<1>4. CASE phase = "before"
  BY <1>1, <1>2, <1>3, <1>4 DEF PipelineInv, FloorHolds
<1>5. CASE phase = "combined"
  <2>1. combined' = [combined EXCEPT ![s] = q] /\ UNCHANGED before
    BY <1>1, <1>5
  <2>2. ASSUME NEW r \in Sizes \ size' PROVE combined'[r].out >= before'[r].out
    BY <1>2, <1>3, <1>5, <2>1, <2>2 DEF PipelineInv, FloorHolds
  <2> QED
    BY <1>2, <1>5, <2>1, <2>2 DEF PipelineInv, FloorHolds
<1> QED
  BY <1>2, <1>4, <1>5

LEMMA PipelineKept == PipelineInv /\ [Next]_vars => PipelineInv'
<1> SUFFICES ASSUME PipelineInv, [Next]_vars PROVE PipelineInv'
  OBVIOUS
<1>1. ASSUME NEW s \in Sizes, Pipeline!Quote(s) PROVE PipelineInv'
  BY <1>1, QuoteKeeps
<1>2. CASE Pipeline!Quoted
  <2>1. phase = "before" => phase' = "combined" /\ size' = Sizes
    BY <1>2 DEF Pipeline!Quoted
  <2>2. phase = "combined" => phase' = "compare" /\ size' = size
    BY <1>2 DEF Pipeline!Quoted
  <2>3. size = {} /\ UNCHANGED <<before, combined>> /\ phase \in {"before", "combined"}
    BY <1>2 DEF Pipeline!Quoted
  <2> QED
    BY <2>1, <2>2, <2>3 DEF PipelineInv, FloorHolds
<1>3. CASE Pipeline!Compare
  <2>1. \A s \in Sizes : combined[s].out >= before[s].out
    BY <1>3 DEF PipelineInv, FloorHolds, Pipeline!Compare
  <2>2. ~ \E s \in Sizes : combined[s].out < before[s].out
    BY <2>1, QuoteOut DEF PipelineInv
  <2>3. CASE phase' = "raised" /\ UNCHANGED <<before, combined>>
    BY <2>3 DEF PipelineInv, FloorHolds
  <2>4. CASE /\ before' = Pipeline!NoPlans /\ combined' = Pipeline!NoPlans
             /\ phase' \in {"publish", "before"}
    BY <2>4 DEF PipelineInv, FloorHolds, Pipeline!NoPlans, Whole, Quotes
  <2> QED
    BY <1>3, <2>2, <2>3, <2>4 DEF Pipeline!Compare
<1>4. CASE Pipeline!Publish \/ Pipeline!Begin \/ Pipeline!Refuse
  BY <1>4 DEF Pipeline!Publish, Pipeline!Begin, Pipeline!Refuse, PipelineInv, FloorHolds
<1>5. CASE UNCHANGED pipelineVars
  BY <1>5 DEF pipelineVars, PipelineInv, FloorHolds
<1> QED
  BY <1>1, <1>2, <1>3, <1>4, <1>5, OwnSteps DEF Pipeline!Next, Pipeline!PipelineStep

\* With more sources a quote is never worse, whatever the solvers propose and
\* whatever pins, sizes and plans there are: the assertion "Candidate floor
\* regressed" of run_pipeline does not fail.
THEOREM FloorNeverRegresses == Spec => []NeverRegresses
<1>1. PipelineInv => NeverRegresses
  BY DEF PipelineInv, NeverRegresses, Pipeline!NeverRegresses
<1> QED
  BY <1>1, PipelineInit, PipelineKept, PTL DEF Spec
-----------------------------------------------------------------------------
(***************************************************************************)
(* The window's collection (october_expansion_collect.py).                 *)
(***************************************************************************)

\* A block is safe when it is collected and no process is about to write to it.
\* This every step preserves; that it is collected alone need not last.
Safe(b) == Expansion!IsCollected(b) /\ \A q \in Collectors : ~Expansion!InHand(q, b)

\* Who has a block to seed is at one of its places, who collects is not.
PinsHeld ==
    \A p \in Collectors :
        /\ proc[p].pins \subseteq DOMAIN Evidence
        /\ proc[p].at \in {"seed", "header"} => proc[p].pins # {}
        /\ proc[p].at \in {"survey", "lock", "collect", "validate"} => proc[p].pins = {}

\* Who collects holds the RPC lock.
LockHeld ==
    \A p \in Collectors :
        proc[p].at \in {"collect", "calls", "records"} /\ proc[p].pins = {} => flock = p

\* What the manifest says is safe, ...
ManifestSafe == manifest = "complete" => \A b \in Window \ exposed : Safe(b)

\* ... and so are the blocks that have been looked at for the next one.
ValidatedSafe ==
    \A p \in Collectors : proc[p].at = "validate" =>
        \A b \in Window \ (proc[p].left \cup proc[p].pending \cup proc[p].exposed) : Safe(b)

ExpansionInv ==
    /\ stored \in [Window -> SUBSET Reads] /\ torn \in [Window -> SUBSET {"header", "calls"}]
    /\ proc \in [Collectors -> Expansion!Processes]
    /\ PinsHeld /\ LockHeld /\ ManifestSafe /\ ValidatedSafe

LEMMA ExpansionFacts ==
    /\ Window \subseteq Nat /\ None \notin Collectors
    /\ \A b \in DOMAIN Evidence : b \in Window /\ Evidence[b] \subseteq Reads
    /\ Expansion!Rest \in Expansion!Processes
    /\ [Expansion!Rest EXCEPT !.at = "raised"] \in Expansion!Processes
    /\ [Expansion!Rest EXCEPT !.at = "returned"] \in Expansion!Processes
<1>1. Expansion!ExpansionAssumption
  BY ResearchAssumption
<1> QED
  BY <1>1 DEF Expansion!ExpansionAssumption, Expansion!Rest, Expansion!Processes, Expansion!Quiet

LEMMA ProcTyped ==
    ASSUME ExpansionInv, NEW p \in Collectors
    PROVE  /\ proc[p] \in Expansion!Processes
           /\ proc[p].pins \in SUBSET Window /\ proc[p].left \in SUBSET Window
           /\ proc[p].pending \in SUBSET Window /\ proc[p].exposed \in SUBSET Window
           /\ proc[p].rows \in SUBSET Reads /\ proc[p].mixed \in BOOLEAN
<1>1. proc[p] \in Expansion!Processes
  BY DEF ExpansionInv
<1> QED
  BY <1>1 DEF Expansion!Processes

LEMMA LowestIn ==
    ASSUME NEW S \in SUBSET Window, S # {}
    PROVE  Expansion!Lowest(S) \in S
<1>1. \E b \in S : \A c \in S : b <= c
  BY LeastExists, ExpansionFacts
<1> QED
  BY <1>1 DEF Expansion!Lowest

\* One process takes a turn: of the others at most the temporary is spoilt.
Alike(q) ==
    /\ proc'[q].at = proc[q].at /\ proc'[q].pins = proc[q].pins
    /\ proc'[q].left = proc[q].left /\ proc'[q].pending = proc[q].pending
    /\ proc'[q].exposed = proc[q].exposed
Turn(p, next) ==
    /\ proc' \in [Collectors -> Expansion!Processes]
    /\ proc'[p] = next /\ next \in Expansion!Processes
    /\ \A q \in Collectors \ {p} : Alike(q)

\* Where it may be afterwards.
Stands(p, next) ==
    /\ next.pins \subseteq DOMAIN Evidence
    /\ next.at \in {"seed", "header"} => next.pins # {}
    /\ next.at \in {"survey", "lock", "collect", "validate"} => next.pins = {}
    /\ next.at \in {"collect", "calls", "records"} /\ next.pins = {} => flock' = p
    /\ \A q \in Collectors \ {p} : flock = q => flock' = q

\* What it leaves alone of a block.
FilesKeep(b) == (b \in listed => b \in listed') /\ stored'[b] = stored[b] /\ torn'[b] = torn[b]
RecordsUnspoilt(p, b) ==
    \A q \in Collectors \ {p} :
        proc[q].at = "records" /\ Expansion!Block(q) = b => proc'[q].mixed = proc[q].mixed
Untouched(p, b) == FilesKeep(b) /\ RecordsUnspoilt(p, b)

StatusHolds ==
    \/ UNCHANGED <<manifest, exposed>>
    \/ manifest' = "complete" => \A b \in Window \ exposed' : Safe(b)
NextValidated(next) ==
    next.at = "validate" =>
        \A b \in Window \ (next.left \cup next.pending \cup next.exposed) : Safe(b)

LEMMA SafeStays ==
    ASSUME NEW p \in Collectors, NEW next, Turn(p, next), NEW b \in Window, Safe(b),
           Untouched(p, b), ~Expansion!InHand(p, b)'
    PROVE  Safe(b)'
<1>1. Expansion!IsCollected(b)'
  BY DEF Safe, Expansion!IsCollected, Untouched, FilesKeep
<1>2. ASSUME NEW q \in Collectors \ {p} PROVE ~Expansion!InHand(q, b)'
  <2>1. Alike(q) /\ ~Expansion!InHand(q, b)
    BY DEF Turn, Safe
  <2>2. Expansion!Block(q)' = Expansion!Block(q) /\ (Expansion!Seeding(q)' <=> Expansion!Seeding(q))
    BY <2>1 DEF Alike, Expansion!Block, Expansion!Seeding
  <2>3. proc[q].at = "records" /\ Expansion!Block(q) = b => proc'[q].mixed = proc[q].mixed
    BY DEF Untouched, RecordsUnspoilt
  <2> QED
    BY <2>1, <2>2, <2>3 DEF Alike, Expansion!InHand, Expansion!At
<1> QED
  BY <1>1, <1>2 DEF Safe

\* A turn that leaves alone what is safe preserves the invariant.
LEMMA TurnKeeps ==
    ASSUME ExpansionInv, NEW p \in Collectors, NEW next, Turn(p, next), Stands(p, next),
           stored' \in [Window -> SUBSET Reads], torn' \in [Window -> SUBSET {"header", "calls"}],
           \A b \in Window : Safe(b) => Untouched(p, b) /\ ~Expansion!InHand(p, b)',
           StatusHolds, NextValidated(next)
    PROVE  ExpansionInv'
<1>1. ASSUME NEW b \in Window, Safe(b) PROVE Safe(b)'
  BY <1>1, SafeStays
<1>2. PinsHeld' /\ LockHeld'
  BY DEF ExpansionInv, PinsHeld, LockHeld, Stands, Turn, Alike
<1>3. ManifestSafe'
  BY <1>1 DEF ExpansionInv, ManifestSafe, StatusHolds
<1>4. ASSUME NEW q \in Collectors, proc'[q].at = "validate",
             NEW b \in Window \ (proc'[q].left \cup proc'[q].pending \cup proc'[q].exposed)
      PROVE  Safe(b)'
  <2>1. CASE q = p
    BY <1>1, <1>4, <2>1 DEF NextValidated, Turn
  <2>2. CASE q # p
    BY <1>1, <1>4, <2>2 DEF ExpansionInv, ValidatedSafe, Turn, Alike
  <2> QED
    BY <2>1, <2>2
<1> QED
  BY <1>2, <1>3, <1>4 DEF ExpansionInv, ValidatedSafe, Turn

LEMMA OneTurn ==
    ASSUME ExpansionInv, NEW p \in Collectors, NEW next \in Expansion!Processes,
           proc' = [proc EXCEPT ![p] = next]
    PROVE  /\ Turn(p, next)
           /\ \A b \in Window : RecordsUnspoilt(p, b)
  BY DEF ExpansionInv, Turn, Alike, RecordsUnspoilt

\* Who writes nothing, and has not settled to write a block that is safe.
LEMMA LookingKeeps ==
    ASSUME ExpansionInv, NEW p \in Collectors, NEW next \in Expansion!Processes,
           proc' = [proc EXCEPT ![p] = next], UNCHANGED <<stored, torn, listed>>,
           Stands(p, next), next.at \notin {"header", "calls", "records"},
           next.at = "seed" => ~Expansion!IsCollected(Expansion!Lowest(next.pins)),
           StatusHolds, NextValidated(next)
    PROVE  ExpansionInv'
<1>1. Turn(p, next) /\ \A b \in Window : RecordsUnspoilt(p, b)
  BY OneTurn
<1>2. ASSUME NEW b \in Window, Safe(b) PROVE Untouched(p, b) /\ ~Expansion!InHand(p, b)'
  <2>1. Untouched(p, b)
    BY <1>1 DEF Untouched, FilesKeep
  <2>2. ASSUME Expansion!InHand(p, b)' PROVE FALSE
    <3>1. next.at = "seed" /\ Expansion!Block(p)' = b
      BY <1>1, <2>2 DEF Expansion!InHand, Expansion!At, Turn
    <3>2. Expansion!Block(p)' = Expansion!Lowest(next.pins)
      BY <1>1, <3>1 DEF Expansion!Block, Expansion!Seeding, Turn, Stands
    <3> QED
      BY <1>2, <3>1, <3>2 DEF Safe
  <2> QED
    BY <2>1, <2>2
<1>3. stored' \in [Window -> SUBSET Reads] /\ torn' \in [Window -> SUBSET {"header", "calls"}]
  BY DEF ExpansionInv
<1> QED
  BY <1>1, <1>2, <1>3, TurnKeeps

\* Who ends lets go of the lock.
LEMMA EndingKeeps ==
    ASSUME ExpansionInv, NEW p \in Collectors,
           NEW next \in {Expansion!Rest, [Expansion!Rest EXCEPT !.at = "raised"]},
           proc' = [proc EXCEPT ![p] = next], flock' = IF flock = p THEN None ELSE flock,
           stored' \in [Window -> SUBSET Reads], torn' \in [Window -> SUBSET {"header", "calls"}],
           \A b \in Window : Safe(b) => FilesKeep(b), UNCHANGED <<manifest, exposed>>
    PROVE  ExpansionInv'
<1>1. next \in Expansion!Processes /\ next.at \in {"idle", "raised"} /\ next.pins = {}
  <2>1. next \in Expansion!Processes
    BY ExpansionFacts
  <2> QED
    BY <2>1 DEF Expansion!Rest
<1>2. Turn(p, next) /\ \A b \in Window : RecordsUnspoilt(p, b)
  BY <1>1, OneTurn
<1>3. Stands(p, next)
  BY <1>1 DEF Stands
<1>4. StatusHolds /\ NextValidated(next)
  BY <1>1 DEF StatusHolds, NextValidated
<1>5. ASSUME NEW b \in Window, Safe(b) PROVE Untouched(p, b) /\ ~Expansion!InHand(p, b)'
  BY <1>1, <1>2, <1>5 DEF Untouched, Turn, Expansion!InHand
<1> QED
  BY <1>2, <1>3, <1>4, <1>5, TurnKeeps

\* An exception, with the files as they were.
LEMMA RaiseKeeps ==
    ASSUME ExpansionInv, NEW p \in Collectors, Expansion!Raise(p),
           UNCHANGED <<stored, torn, listed, manifest, exposed>>
    PROVE  ExpansionInv'
<1>1. stored' \in [Window -> SUBSET Reads] /\ torn' \in [Window -> SUBSET {"header", "calls"}]
  BY DEF ExpansionInv
<1>2. \A b \in Window : FilesKeep(b)
  BY DEF FilesKeep
<1> QED
  BY <1>1, <1>2, EndingKeeps DEF Expansion!Raise

LEMMA StartCollectKeeps ==
    ASSUME ExpansionInv, NEW p \in Collectors, NEW limit \in MaxBlocks, NEW seedOnly \in BOOLEAN,
           Expansion!Start(p, limit, seedOnly)
    PROVE  ExpansionInv'
<1> DEFINE next == [Expansion!Rest EXCEPT !.at = "pin", !.pins = Expansion!Pins,
                                          !.limit = limit, !.seedOnly = seedOnly]
<1>1. proc' = [proc EXCEPT ![p] = next] /\ UNCHANGED <<stored, torn, listed, manifest, exposed, flock>>
  BY DEF Expansion!Start, Expansion!Files, Expansion!Snapshots, Expansion!Status
<1>2. next \in Expansion!Processes /\ next.at = "pin" /\ next.pins = DOMAIN Evidence
  BY ExpansionFacts DEF Expansion!Rest, Expansion!Processes, Expansion!Pins
<1> HIDE DEF next
<1>3. Stands(p, next) /\ StatusHolds /\ NextValidated(next)
  BY <1>1, <1>2 DEF Stands, StatusHolds, NextValidated
<1> QED
  BY <1>1, <1>2, <1>3, LookingKeeps

LEMMA LookAtPinKeeps ==
    ASSUME ExpansionInv, NEW p \in Collectors, Expansion!LookAtPin(p) PROVE ExpansionInv'
<1> DEFINE b == Expansion!Block(p)
<1>1. /\ proc[p].at = "pin" /\ proc[p].pins # {}
      /\ UNCHANGED <<stored, torn, listed, manifest, exposed>>
      /\ \/ Expansion!Raise(p)
         \/ /\ UNCHANGED flock
            /\ IF Expansion!IsCollected(b) \/ Evidence[b] = {}
                 THEN proc' = [proc EXCEPT ![p].pins = @ \ {b}]
                 ELSE proc' = [proc EXCEPT ![p].at = "seed"]
  BY DEF Expansion!LookAtPin, Expansion!At, Expansion!Seeding, Expansion!Files,
         Expansion!Snapshots, Expansion!Status, Expansion!Go
<1>2. CASE Expansion!Raise(p)
  BY <1>1, <1>2, RaiseKeeps
<1>3. CASE UNCHANGED flock /\ proc' = [proc EXCEPT ![p].pins = @ \ {b}]
  <2> DEFINE next == [proc[p] EXCEPT !.pins = proc[p].pins \ {b}]
  <2>1. proc' = [proc EXCEPT ![p] = next]
    BY <1>3 DEF ExpansionInv
  <2>2. next \in Expansion!Processes /\ next.at = "pin" /\ next.pins \subseteq proc[p].pins
    BY <1>1, ProcTyped DEF Expansion!Processes
  <2> HIDE DEF next
  <2>3. Stands(p, next) /\ StatusHolds /\ NextValidated(next)
    BY <1>1, <1>3, <2>2 DEF Stands, StatusHolds, NextValidated, ExpansionInv, PinsHeld
  <2> QED
    BY <1>1, <2>1, <2>2, <2>3, LookingKeeps
<1>4. CASE UNCHANGED flock /\ ~Expansion!IsCollected(b) /\ proc' = [proc EXCEPT ![p].at = "seed"]
  <2> DEFINE next == [proc[p] EXCEPT !.at = "seed"]
  <2>1. proc' = [proc EXCEPT ![p] = next]
    BY <1>4 DEF ExpansionInv
  <2>2. next \in Expansion!Processes /\ next.at = "seed" /\ next.pins = proc[p].pins
    BY <1>1, ProcTyped DEF Expansion!Processes
  <2> HIDE DEF next
  <2>3. Stands(p, next) /\ StatusHolds /\ NextValidated(next)
    BY <1>1, <1>4, <2>2 DEF Stands, StatusHolds, NextValidated, ExpansionInv, PinsHeld
  <2>4. Expansion!Lowest(next.pins) = b
    BY <1>1, <2>2 DEF Expansion!Block, Expansion!Seeding
  <2> QED
    BY <1>1, <1>4, <2>1, <2>2, <2>3, <2>4, LookingKeeps
<1> QED
  BY <1>1, <1>2, <1>3, <1>4

\* The process has this block in hand, so that it is not safe.
LEMMA OwnBlock ==
    ASSUME NEW p \in Collectors, NEW b, Safe(b),
           proc[p].at \in {"seed", "header", "calls"}
    PROVE  b # Expansion!Block(p)
  BY DEF Safe, Expansion!InHand, Expansion!At

LEMMA TruncateHeaderKeeps ==
    ASSUME ExpansionInv, NEW p \in Collectors, Expansion!TruncateHeader(p) PROVE ExpansionInv'
<1> DEFINE c == Expansion!Block(p)
           next == [proc[p] EXCEPT !.at = "header"]
<1>1. /\ proc[p].at = "seed" /\ torn' = [torn EXCEPT ![c] = torn[c] \cup {"header"}]
      /\ UNCHANGED <<stored, listed, manifest, exposed, flock>>
  BY DEF Expansion!TruncateHeader, Expansion!At, Expansion!Status
<1>2. proc' = [proc EXCEPT ![p] = next]
  BY DEF Expansion!TruncateHeader, Expansion!Go, ExpansionInv
<1>3. /\ next \in Expansion!Processes /\ next.at = "header"
      /\ next.pins = proc[p].pins /\ next.pending = proc[p].pending
  BY ProcTyped DEF Expansion!Processes
<1> HIDE DEF next
<1>4. Turn(p, next) /\ \A b \in Window : RecordsUnspoilt(p, b)
  BY <1>2, <1>3, OneTurn
<1>5. Stands(p, next) /\ StatusHolds /\ NextValidated(next)
  BY <1>1, <1>3 DEF Stands, StatusHolds, NextValidated, ExpansionInv, PinsHeld
<1>6. /\ stored' \in [Window -> SUBSET Reads] /\ torn' \in [Window -> SUBSET {"header", "calls"}]
      /\ \A b \in Window : b # c => torn'[b] = torn[b]
  BY <1>1 DEF ExpansionInv
<1>7. Expansion!Block(p)' = c
  BY <1>3, <1>4 DEF Turn, Expansion!Block, Expansion!Seeding
<1> HIDE DEF c
<1>8. ASSUME NEW b \in Window, Safe(b) PROVE Untouched(p, b) /\ ~Expansion!InHand(p, b)'
  <2>1. b # c
    BY <1>1, <1>8, OwnBlock DEF c
  <2> QED
    BY <1>1, <1>4, <1>6, <1>7, <2>1 DEF Untouched, FilesKeep, Expansion!InHand
<1> QED
  BY <1>4, <1>5, <1>6, <1>8, TurnKeeps

\* A temporary is begun: who has the same open has a mixture in it from now on.
Opened(p, where, writes) ==
    [proc[p] EXCEPT !.at = where, !.rows = writes, !.mixed = (Expansion!Rivals(p, where) # {})]

LEMMA Begun ==
    ASSUME ExpansionInv, NEW p \in Collectors, NEW where \in {"calls", "records"},
           NEW writes \in SUBSET Reads, Expansion!Begin(p, where, writes),
           NEW next, next = Opened(p, where, writes)
    PROVE  /\ Turn(p, next) /\ next.at = where /\ next.pins = proc[p].pins
           /\ next.pending = proc[p].pending
           /\ next.mixed = (Expansion!Rivals(p, where) # {})
           /\ Expansion!Block(p)' = Expansion!Block(p)
           /\ \A b \in Window : b # Expansion!Block(p) \/ where = "calls" => RecordsUnspoilt(p, b)
<1>1. proc[p] \in Expansion!Processes /\ (Expansion!Rivals(p, where) # {}) \in BOOLEAN
  BY ProcTyped
<1>2. next \in Expansion!Processes /\ next.at = where /\ next.pins = proc[p].pins
      /\ next.pending = proc[p].pending /\ next.mixed = (Expansion!Rivals(p, where) # {})
  BY <1>1 DEF Expansion!Processes, Opened
<1>3. proc'[p] = next
  BY DEF Expansion!Begin, Opened
<1>4. ASSUME NEW q \in Collectors \ {p}
      PROVE  /\ Alike(q) /\ proc'[q] \in Expansion!Processes
             /\ q \notin Expansion!Rivals(p, where) => proc'[q].mixed = proc[q].mixed
  <2>1. proc'[q] = [proc[q] EXCEPT !.mixed = proc[q].mixed \/ q \in Expansion!Rivals(p, where)]
    BY DEF Expansion!Begin
  <2>2. proc[q] \in Expansion!Processes /\ proc[q].mixed \in BOOLEAN
    BY ProcTyped
  <2>3. (proc[q].mixed \/ q \in Expansion!Rivals(p, where)) \in BOOLEAN
    OBVIOUS
  <2>4. Alike(q) /\ proc'[q] \in Expansion!Processes
    BY <2>1, <2>2, <2>3 DEF Alike, Expansion!Processes
  <2>5. q \notin Expansion!Rivals(p, where) => proc'[q].mixed = proc[q].mixed
    BY <2>1, <2>2 DEF Expansion!Processes
  <2> QED
    BY <2>4, <2>5
<1>5. proc' \in [Collectors -> Expansion!Processes]
  <2>1. proc' = [q \in Collectors |-> proc'[q]]
    BY DEF Expansion!Begin
  <2>2. \A q \in Collectors : proc'[q] \in Expansion!Processes
    BY <1>2, <1>3, <1>4
  <2> QED
    BY <2>1, <2>2
<1>6. Turn(p, next)
  BY <1>2, <1>3, <1>4, <1>5 DEF Turn
<1>7. Expansion!Block(p)' = Expansion!Block(p)
  BY <1>2, <1>3 DEF Expansion!Block, Expansion!Seeding
<1>8. ASSUME NEW b \in Window, b # Expansion!Block(p) \/ where = "calls"
      PROVE  RecordsUnspoilt(p, b)
  BY <1>4, <1>8 DEF RecordsUnspoilt, Expansion!Rivals, Expansion!At
<1> QED
  BY <1>2, <1>6, <1>7, <1>8

LEMMA WriteHeaderKeeps ==
    ASSUME ExpansionInv, NEW p \in Collectors, Expansion!WriteHeader(p) PROVE ExpansionInv'
<1> DEFINE c == Expansion!Block(p)
           next == Opened(p, "calls", Evidence[c])
<1>1. /\ proc[p].at = "header" /\ torn' = [torn EXCEPT ![c] = torn[c] \ {"header"}]
      /\ UNCHANGED <<stored, listed, manifest, exposed, flock>>
      /\ Expansion!Begin(p, "calls", Evidence[c])
  BY DEF Expansion!WriteHeader, Expansion!At, Expansion!Status
<1>2. Evidence[c] \in SUBSET Reads /\ proc[p].pins # {} /\ proc[p].pins \subseteq DOMAIN Evidence
  <2>1. proc[p].pins # {} /\ proc[p].pins \subseteq DOMAIN Evidence
    BY <1>1 DEF ExpansionInv, PinsHeld
  <2>2. c \in proc[p].pins
    BY <2>1, ProcTyped, LowestIn DEF Expansion!Block, Expansion!Seeding
  <2> QED
    BY <2>1, <2>2, ExpansionFacts
<1>3. /\ Turn(p, next) /\ next.at = "calls" /\ next.pins = proc[p].pins
      /\ Expansion!Block(p)' = c /\ \A b \in Window : RecordsUnspoilt(p, b)
  BY <1>1, <1>2, Begun
<1> HIDE DEF next
<1>4. Stands(p, next) /\ StatusHolds /\ NextValidated(next)
  BY <1>1, <1>2, <1>3 DEF Stands, StatusHolds, NextValidated
<1>5. /\ stored' \in [Window -> SUBSET Reads] /\ torn' \in [Window -> SUBSET {"header", "calls"}]
      /\ \A b \in Window : b # c => torn'[b] = torn[b]
  BY <1>1 DEF ExpansionInv
<1>6. ASSUME NEW b \in Window, Safe(b) PROVE Untouched(p, b) /\ ~Expansion!InHand(p, b)'
  <2>1. b # c
    BY <1>1, <1>6, OwnBlock
  <2> QED
    BY <1>1, <1>3, <1>5, <2>1 DEF Untouched, FilesKeep, Expansion!InHand
<1> QED
  BY <1>3, <1>4, <1>5, <1>6, TurnKeeps

LEMMA SeededKeeps ==
    ASSUME ExpansionInv, NEW p \in Collectors, Expansion!Seeded(p) PROVE ExpansionInv'
<1> DEFINE next == IF proc[p].seedOnly THEN [proc[p] EXCEPT !.at = "returned"]
                   ELSE [proc[p] EXCEPT !.at = "survey", !.left = Window]
<1>1. /\ proc[p].pins = {} /\ UNCHANGED <<stored, torn, listed, manifest, exposed, flock>>
  BY DEF Expansion!Seeded, Expansion!Seeding, Expansion!Files, Expansion!Snapshots,
         Expansion!Status
<1>2. proc' = [proc EXCEPT ![p] = next]
  BY DEF Expansion!Seeded, Expansion!Go, ExpansionInv
<1>3. next \in Expansion!Processes /\ next.at \in {"returned", "survey"} /\ next.pins = {}
  BY <1>1, ProcTyped DEF Expansion!Processes, Expansion!Quiet
<1> HIDE DEF next
<1>4. Stands(p, next) /\ StatusHolds /\ NextValidated(next)
  BY <1>1, <1>3 DEF Stands, StatusHolds, NextValidated
<1> QED
  BY <1>1, <1>2, <1>3, <1>4, LookingKeeps

\* What is published is of the block in hand alone.
LEMMA SnapshotWritten ==
    ASSUME ExpansionInv, NEW p \in Collectors,
           \/ Expansion!Replaced(p)
           \/ Expansion!Spoilt(p)
           \/ UNCHANGED <<stored, torn>>
    PROVE  /\ stored' \in [Window -> SUBSET Reads] /\ torn' \in [Window -> SUBSET {"header", "calls"}]
           /\ \A b \in Window \ {Expansion!Block(p)} : stored'[b] = stored[b] /\ torn'[b] = torn[b]
<1> DEFINE c == Expansion!Block(p)
<1>1. CASE Expansion!Replaced(p)
  <2>1. /\ stored' = [stored EXCEPT ![c] = proc[p].rows] /\ proc[p].rows \in SUBSET Reads
        /\ \/ torn' = [torn EXCEPT ![c] = torn[c] \ {"calls"}]
           \/ torn' = [torn EXCEPT ![c] = {}]
    BY <1>1, ProcTyped DEF Expansion!Replaced
  <2> HIDE DEF c
  <2>2. stored' \in [Window -> SUBSET Reads] /\ torn' \in [Window -> SUBSET {"header", "calls"}]
    BY <2>1 DEF ExpansionInv
  <2>3. \A b \in Window \ {c} : stored'[b] = stored[b] /\ torn'[b] = torn[b]
    BY <2>1 DEF ExpansionInv
  <2> QED
    BY <2>2, <2>3 DEF c
<1>2. CASE Expansion!Spoilt(p)
  <2>1. UNCHANGED stored /\ torn' = [torn EXCEPT ![c] = torn[c] \cup {"calls"}]
    BY <1>2 DEF Expansion!Spoilt
  <2> HIDE DEF c
  <2>2. stored' \in [Window -> SUBSET Reads] /\ torn' \in [Window -> SUBSET {"header", "calls"}]
    BY <2>1 DEF ExpansionInv
  <2>3. \A b \in Window \ {c} : stored'[b] = stored[b] /\ torn'[b] = torn[b]
    BY <2>1 DEF ExpansionInv
  <2> QED
    BY <2>2, <2>3 DEF c
<1>3. CASE UNCHANGED <<stored, torn>>
  BY <1>3 DEF ExpansionInv
<1> QED
  BY <1>1, <1>2, <1>3

LEMMA PublishCallsKeeps ==
    ASSUME ExpansionInv, NEW p \in Collectors, Expansion!PublishCalls(p) PROVE ExpansionInv'
<1> DEFINE c == Expansion!Block(p)
           next == Opened(p, "records", {})
<1>1. /\ proc[p].at = "calls" /\ UNCHANGED <<listed, manifest, exposed>>
      /\ \/ Expansion!Replaced(p)
         \/ Expansion!Spoilt(p)
         \/ UNCHANGED <<stored, torn>>
      /\ \/ Expansion!Raise(p)
         \/ Expansion!Begin(p, "records", {}) /\ UNCHANGED flock
  BY DEF Expansion!PublishCalls, Expansion!At, Expansion!Status, Expansion!Snapshots
<1>2. /\ stored' \in [Window -> SUBSET Reads] /\ torn' \in [Window -> SUBSET {"header", "calls"}]
      /\ \A b \in Window \ {c} : stored'[b] = stored[b] /\ torn'[b] = torn[b]
  BY <1>1, SnapshotWritten
<1>3. ASSUME NEW b \in Window, Safe(b) PROVE b # c /\ FilesKeep(b)
  <2>1. b # c
    BY <1>1, <1>3, OwnBlock
  <2> QED
    BY <1>1, <1>2, <2>1 DEF FilesKeep
<1>4. CASE Expansion!Raise(p)
  BY <1>1, <1>2, <1>3, <1>4, EndingKeeps DEF Expansion!Raise
<1>5. CASE Expansion!Begin(p, "records", {}) /\ UNCHANGED flock
  <2>1. /\ Turn(p, next) /\ next.at = "records" /\ next.pins = proc[p].pins
        /\ Expansion!Block(p)' = c /\ \A b \in Window : b # c => RecordsUnspoilt(p, b)
    BY <1>5, Begun
  <2> HIDE DEF next, c
  <2>2. Stands(p, next) /\ StatusHolds /\ NextValidated(next)
    BY <1>1, <1>5, <2>1 DEF Stands, StatusHolds, NextValidated, ExpansionInv, PinsHeld, LockHeld
  <2>3. ASSUME NEW b \in Window, Safe(b) PROVE Untouched(p, b) /\ ~Expansion!InHand(p, b)'
    BY <1>3, <2>1, <2>3 DEF Untouched, Expansion!InHand
  <2> QED
    BY <1>2, <2>1, <2>2, <2>3, TurnKeeps
<1> QED
  BY <1>1, <1>4, <1>5

LEMMA WriteRecordsKeeps ==
    ASSUME ExpansionInv, NEW p \in Collectors, Expansion!WriteRecords(p) PROVE ExpansionInv'
<1> DEFINE c == Expansion!Block(p)
           next == [proc[p] EXCEPT !.mixed = FALSE,
                        !.at = IF Expansion!Seeding(p) THEN "pin" ELSE "collect",
                        !.pins = proc[p].pins \ {c}, !.pending = proc[p].pending \ {c}]
<1>1. /\ proc[p].at = "records" /\ UNCHANGED <<stored, torn, manifest, exposed>>
      /\ \/ /\ listed' = listed \cup {c} \/ (proc[p].mixed /\ listed' = listed \ {c})
            /\ proc' = [proc EXCEPT ![p] = next] /\ UNCHANGED flock
         \/ /\ listed' = listed \cup {c} /\ Expansion!Raise(p)
         \/ /\ proc[p].mixed /\ listed' \in {listed, listed \cup {c}, listed \ {c}}
            /\ Expansion!Raise(p)
  BY DEF Expansion!WriteRecords, Expansion!At, Expansion!Status, Expansion!Snapshots
<1>2. ASSUME NEW b \in Window, Safe(b) PROVE FilesKeep(b)
  <2>1. proc[p].mixed => b # c
    BY <1>1, <1>2 DEF Safe, Expansion!InHand, Expansion!At
  <2> HIDE DEF c
  <2>2. b \in listed => b \in listed'
    BY <1>1, <2>1
  <2> QED
    BY <1>1, <2>2 DEF FilesKeep
<1>3. stored' \in [Window -> SUBSET Reads] /\ torn' \in [Window -> SUBSET {"header", "calls"}]
  BY <1>1 DEF ExpansionInv
<1>4. CASE Expansion!Raise(p)
  BY <1>1, <1>2, <1>3, <1>4, EndingKeeps DEF Expansion!Raise
<1>5. CASE proc' = [proc EXCEPT ![p] = next] /\ UNCHANGED flock
  <2>1. /\ next \in Expansion!Processes /\ next.pins = proc[p].pins \ {c}
        /\ next.at = IF proc[p].pins # {} THEN "pin" ELSE "collect"
    BY ProcTyped DEF Expansion!Processes, Expansion!Seeding
  <2> HIDE DEF next, c
  <2>2. Turn(p, next) /\ \A b \in Window : RecordsUnspoilt(p, b)
    BY <1>5, <2>1, OneTurn
  <2>3. Stands(p, next) /\ StatusHolds /\ NextValidated(next)
    BY <1>1, <1>5, <2>1 DEF Stands, StatusHolds, NextValidated, ExpansionInv, PinsHeld, LockHeld
  <2>4. ASSUME NEW b \in Window, Safe(b) PROVE Untouched(p, b) /\ ~Expansion!InHand(p, b)'
    BY <1>2, <2>1, <2>2, <2>4 DEF Untouched, Expansion!InHand, Expansion!At, Turn
  <2> QED
    BY <1>3, <2>2, <2>3, <2>4, TurnKeeps
<1> QED
  BY <1>1, <1>4, <1>5

LEMMA LookAtBlockKeeps ==
    ASSUME ExpansionInv, NEW p \in Collectors, Expansion!LookAtBlock(p) PROVE ExpansionInv'
<1> DEFINE b == Expansion!Lowest(proc[p].left)
           pending == IF Expansion!IsCollected(b) THEN proc[p].pending
                      ELSE proc[p].pending \cup {b}
           seen == IF proc[p].at = "validate" /\ \E q \in Collectors : Expansion!InHand(q, b)
                   THEN proc[p].exposed \cup {b} ELSE proc[p].exposed
           next == [proc[p] EXCEPT !.left = proc[p].left \ {b}, !.pending = pending,
                                   !.exposed = seen]
<1>1. /\ proc[p].at \in {"survey", "validate"} /\ proc[p].left # {}
      /\ UNCHANGED <<stored, torn, listed, manifest, exposed>>
      /\ \/ Expansion!Raise(p)
         \/ proc' = [proc EXCEPT ![p] = next] /\ UNCHANGED flock
  BY DEF Expansion!LookAtBlock, Expansion!At, Expansion!Files, Expansion!Snapshots,
         Expansion!Status
<1>2. CASE Expansion!Raise(p)
  BY <1>1, <1>2, RaiseKeeps
<1>3. CASE proc' = [proc EXCEPT ![p] = next] /\ UNCHANGED flock
  <2>1. b \in Window
    BY <1>1, ProcTyped, LowestIn
  <2>2. pending \in SUBSET Window /\ seen \in SUBSET Window
    BY <2>1, ProcTyped
  <2>3. b \in pending \/ b \in seen \/ proc[p].at # "validate" \/ Safe(b)
    BY DEF Safe
  <2>4. proc[p].pending \subseteq pending /\ proc[p].exposed \subseteq seen
    OBVIOUS
  <2> HIDE DEF pending, seen, b
  <2>5. /\ next \in Expansion!Processes /\ next.at = proc[p].at /\ next.pins = proc[p].pins
        /\ next.left = proc[p].left \ {b} /\ next.pending = pending /\ next.exposed = seen
    BY <2>2, ProcTyped DEF Expansion!Processes
  <2> HIDE DEF next
  <2>6. Stands(p, next) /\ StatusHolds
    BY <1>1, <1>3, <2>5 DEF Stands, StatusHolds, ExpansionInv, PinsHeld
  <2>7. NextValidated(next)
    BY <2>3, <2>4, <2>5 DEF NextValidated, ExpansionInv, ValidatedSafe
  <2> QED
    BY <1>1, <1>3, <2>5, <2>6, <2>7, LookingKeeps
<1> QED
  BY <1>1, <1>2, <1>3

LEMMA SurveyedKeeps ==
    ASSUME ExpansionInv, NEW p \in Collectors, Expansion!Surveyed(p) PROVE ExpansionInv'
<1> DEFINE missing == proc[p].pending
           scheduled == IF proc[p].limit = 0 THEN missing
                    ELSE Expansion!FirstOf(missing, proc[p].limit)
           next == IF missing = {} THEN [proc[p] EXCEPT !.at = "validate", !.left = Window]
                   ELSE [proc[p] EXCEPT !.at = "lock", !.pending = scheduled]
<1>1. /\ proc[p].at = "survey" /\ UNCHANGED <<stored, torn, listed, manifest, exposed, flock>>
  BY DEF Expansion!Surveyed, Expansion!At, Expansion!Files, Expansion!Snapshots,
         Expansion!Status
<1>2. proc' = [proc EXCEPT ![p] = next]
  BY DEF Expansion!Surveyed, ExpansionInv
<1>3. scheduled \in SUBSET Window
  BY ProcTyped DEF Expansion!FirstOf
<1> HIDE DEF scheduled
<1>4. /\ next \in Expansion!Processes /\ next.at \in {"validate", "lock"}
      /\ next.pins = proc[p].pins
      /\ next.at = "validate" => next.left = Window
  BY <1>3, ProcTyped DEF Expansion!Processes
<1> HIDE DEF next
<1>5. Stands(p, next) /\ StatusHolds /\ NextValidated(next)
  BY <1>1, <1>4 DEF Stands, StatusHolds, NextValidated, ExpansionInv, PinsHeld
<1> QED
  BY <1>1, <1>2, <1>4, <1>5, LookingKeeps

LEMMA RpcLockKeeps ==
    ASSUME ExpansionInv, NEW p \in Collectors, Expansion!RpcLock(p) PROVE ExpansionInv'
<1> DEFINE next == [proc[p] EXCEPT !.at = "collect"]
<1>1. /\ proc[p].at = "lock" /\ flock = None /\ flock' = p
      /\ UNCHANGED <<stored, torn, listed, manifest, exposed>>
  BY DEF Expansion!RpcLock, Expansion!At, Expansion!Files, Expansion!Snapshots, Expansion!Status
<1>2. proc' = [proc EXCEPT ![p] = next]
  BY DEF Expansion!RpcLock, Expansion!Go, ExpansionInv
<1>3. next \in Expansion!Processes /\ next.at = "collect" /\ next.pins = proc[p].pins
  BY ProcTyped DEF Expansion!Processes
<1> HIDE DEF next
<1>4. Stands(p, next) /\ StatusHolds /\ NextValidated(next)
  BY <1>1, <1>3, ExpansionFacts
     DEF Stands, StatusHolds, NextValidated, ExpansionInv, PinsHeld
<1> QED
  BY <1>1, <1>2, <1>3, <1>4, LookingKeeps

\* Who holds the lock begins: with the calls, or with the records alone if all reads
\* are there.  Only then can the block be safe, and nobody else is at its records.
LEMMA BeginKeeps ==
    ASSUME ExpansionInv, NEW p \in Collectors, proc[p].at = "collect",
           UNCHANGED <<stored, torn, listed, manifest, exposed, flock>>,
           NEW where \in {"calls", "records"}, NEW writes \in SUBSET Reads,
           Expansion!Begin(p, where, writes),
           where = "calls" => stored[Expansion!Block(p)] # Reads
    PROVE  ExpansionInv'
<1> DEFINE c == Expansion!Block(p)
           next == Opened(p, where, writes)
<1>1. flock = p /\ proc[p].pins = {}
  BY DEF ExpansionInv, PinsHeld, LockHeld
<1>2. /\ Turn(p, next) /\ next.at = where /\ next.pins = proc[p].pins
      /\ next.mixed = (Expansion!Rivals(p, where) # {}) /\ Expansion!Block(p)' = c
      /\ \A b \in Window : b # c \/ where = "calls" => RecordsUnspoilt(p, b)
  BY Begun
<1> HIDE DEF next
<1>3. Stands(p, next) /\ StatusHolds /\ NextValidated(next)
  BY <1>1, <1>2 DEF Stands, StatusHolds, NextValidated
<1>4. stored' \in [Window -> SUBSET Reads] /\ torn' \in [Window -> SUBSET {"header", "calls"}]
  BY DEF ExpansionInv
<1>5. ASSUME NEW b \in Window, Safe(b) PROVE Untouched(p, b) /\ ~Expansion!InHand(p, b)'
  <2>1. FilesKeep(b)
    BY DEF FilesKeep
  <2>2. CASE b # c
    <3>1. RecordsUnspoilt(p, b)
      BY <1>2, <2>2
    <3>2. ~Expansion!InHand(p, b)'
      BY <1>2, <2>2 DEF Expansion!InHand
    <3> QED
      BY <2>1, <3>1, <3>2 DEF Untouched
  <2>3. CASE b = c
    <3>1. where = "records"
      BY <1>5, <2>3 DEF Safe, Expansion!IsCollected
    <3>2. ASSUME NEW q \in Collectors \ {p}, proc[q].at = "records", Expansion!Block(q) = b
          PROVE  FALSE
      <4>1. ~Expansion!Seeding(q)
        BY <1>5, <3>2 DEF Safe, Expansion!InHand, Expansion!At
      <4>2. flock = q
        BY <3>2, <4>1 DEF ExpansionInv, LockHeld, Expansion!Seeding
      <4> QED
        BY <1>1, <4>2
    <3>3. RecordsUnspoilt(p, b) /\ Expansion!Rivals(p, where) = {}
      BY <2>3, <3>1, <3>2 DEF RecordsUnspoilt, Expansion!Rivals, Expansion!At
    <3>4. proc'[p].at = "records" /\ proc'[p].pins = {} /\ ~proc'[p].mixed
      BY <1>1, <1>2, <3>1, <3>3 DEF Turn
    <3>5. ~Expansion!InHand(p, b)'
      BY <3>4 DEF Expansion!InHand, Expansion!Seeding, Expansion!At
    <3> QED
      BY <2>1, <3>3, <3>5 DEF Untouched
  <2> QED
    BY <2>2, <2>3
<1> QED
  BY <1>2, <1>3, <1>4, <1>5, TurnKeeps

LEMMA LoadKeeps ==
    ASSUME ExpansionInv, NEW p \in Collectors, Expansion!Load(p) PROVE ExpansionInv'
<1> DEFINE c == Expansion!Block(p)
<1>1. /\ proc[p].at = "collect" /\ proc[p].pending # {}
      /\ UNCHANGED <<stored, torn, listed, manifest, exposed>>
      /\ \/ Expansion!Raise(p)
         \/ stored[c] = Reads /\ Expansion!Begin(p, "records", {}) /\ UNCHANGED flock
         \/ stored[c] # Reads /\ Expansion!Begin(p, "calls", Reads) /\ UNCHANGED flock
         \/ /\ stored[c] # Reads /\ UNCHANGED flock
            /\ \E more \in SUBSET Reads \ {Reads} : Expansion!Begin(p, "calls", stored[c] \cup more)
  BY DEF Expansion!Load, Expansion!At, Expansion!Files, Expansion!Snapshots, Expansion!Status
<1>2. stored[c] \in SUBSET Reads
  <2>1. proc[p].pins = {}
    BY <1>1 DEF ExpansionInv, PinsHeld
  <2>2. c \in proc[p].pending
    BY <1>1, <2>1, ProcTyped, LowestIn DEF Expansion!Block, Expansion!Seeding
  <2> QED
    BY <2>2, ProcTyped DEF ExpansionInv
<1>3. CASE Expansion!Raise(p)
  BY <1>1, <1>3, RaiseKeeps
<1>4. CASE Expansion!Begin(p, "records", {}) /\ UNCHANGED flock
  BY <1>1, <1>4, BeginKeeps
<1>5. CASE stored[c] # Reads /\ Expansion!Begin(p, "calls", Reads) /\ UNCHANGED flock
  BY <1>1, <1>5, BeginKeeps
<1>6. ASSUME NEW more \in SUBSET Reads, stored[c] # Reads, UNCHANGED flock,
             Expansion!Begin(p, "calls", stored[c] \cup more)
      PROVE  ExpansionInv'
  <2> DEFINE writes == stored[c] \cup more
  <2>1. writes \in SUBSET Reads
    BY <1>2
  <2>2. Expansion!Begin(p, "calls", writes)
    BY <1>6
  <2> HIDE DEF writes
  <2> QED
    BY <1>1, <1>6, <2>1, <2>2, BeginKeeps
<1> QED
  BY <1>1, <1>3, <1>4, <1>5, <1>6

LEMMA ReleaseKeeps ==
    ASSUME ExpansionInv, NEW p \in Collectors, Expansion!Release(p) PROVE ExpansionInv'
<1> DEFINE next == [proc[p] EXCEPT !.at = "validate", !.left = Window]
<1>1. /\ proc[p].at = "collect" /\ flock' = None
      /\ UNCHANGED <<stored, torn, listed, manifest, exposed>>
  BY DEF Expansion!Release, Expansion!At, Expansion!Files, Expansion!Snapshots, Expansion!Status
<1>2. proc' = [proc EXCEPT ![p] = next]
  BY DEF Expansion!Release, ExpansionInv
<1>3. /\ next \in Expansion!Processes /\ next.at = "validate" /\ next.pins = proc[p].pins
      /\ next.left = Window
  BY ProcTyped DEF Expansion!Processes
<1> HIDE DEF next
<1>4. flock = p /\ proc[p].pins = {}
  BY <1>1 DEF ExpansionInv, PinsHeld, LockHeld
<1>5. Stands(p, next) /\ StatusHolds /\ NextValidated(next)
  BY <1>1, <1>3, <1>4 DEF Stands, StatusHolds, NextValidated
<1> QED
  BY <1>1, <1>2, <1>3, <1>5, LookingKeeps

LEMMA ValidateKeeps ==
    ASSUME ExpansionInv, NEW p \in Collectors, Expansion!Validate(p) PROVE ExpansionInv'
<1> DEFINE next == [Expansion!Rest EXCEPT !.at = "returned"]
<1>1. /\ proc[p].at = "validate" /\ proc[p].left = {} /\ UNCHANGED <<stored, torn, listed>>
      /\ \/ Expansion!Raise(p) /\ UNCHANGED <<manifest, exposed>>
         \/ /\ manifest' = IF proc[p].pending = {} THEN "complete" ELSE "partial"
            /\ exposed' = proc[p].exposed
            /\ proc' = [proc EXCEPT ![p] = next] /\ UNCHANGED flock
  BY DEF Expansion!Validate, Expansion!At, Expansion!Snapshots, Expansion!Status
<1>2. CASE Expansion!Raise(p) /\ UNCHANGED <<manifest, exposed>>
  BY <1>1, <1>2, RaiseKeeps
<1>3. CASE /\ manifest' = IF proc[p].pending = {} THEN "complete" ELSE "partial"
           /\ exposed' = proc[p].exposed
           /\ proc' = [proc EXCEPT ![p] = next] /\ UNCHANGED flock
  <2>1. next \in Expansion!Processes /\ next.at = "returned" /\ next.pins = {}
    <3>1. next \in Expansion!Processes
      BY ExpansionFacts
    <3> QED
      BY <3>1 DEF Expansion!Rest
  <2> HIDE DEF next
  <2>2. StatusHolds
    BY <1>1, <1>3 DEF StatusHolds, ExpansionInv, ValidatedSafe
  <2>3. Stands(p, next) /\ NextValidated(next)
    BY <1>3, <2>1 DEF Stands, NextValidated
  <2> QED
    BY <1>1, <1>3, <2>1, <2>2, <2>3, LookingKeeps
<1> QED
  BY <1>1, <1>2, <1>3

LEMMA CrashKeeps ==
    ASSUME ExpansionInv, NEW p \in Collectors, Expansion!Crash(p) PROVE ExpansionInv'
<1>1. /\ UNCHANGED <<stored, torn, listed, manifest, exposed>>
      /\ proc' = [proc EXCEPT ![p] = Expansion!Rest]
      /\ flock' = IF flock = p THEN None ELSE flock
  BY DEF Expansion!Crash, Expansion!Files, Expansion!Snapshots, Expansion!Status
<1>2. stored' \in [Window -> SUBSET Reads] /\ torn' \in [Window -> SUBSET {"header", "calls"}]
  BY <1>1 DEF ExpansionInv
<1>3. \A b \in Window : FilesKeep(b)
  BY <1>1 DEF FilesKeep
<1> QED
  BY <1>1, <1>2, <1>3, EndingKeeps

LEMMA ExpansionKept == ExpansionInv /\ [Next]_vars => ExpansionInv'
<1> SUFFICES ASSUME ExpansionInv, [Next]_vars PROVE ExpansionInv'
  OBVIOUS
<1>1. CASE UNCHANGED expansionVars
  BY <1>1 DEF expansionVars, ExpansionInv, PinsHeld, LockHeld, ManifestSafe, ValidatedSafe, Safe,
              Expansion!IsCollected, Expansion!InHand, Expansion!Block, Expansion!Seeding,
              Expansion!At
<1>2. ASSUME NEW p \in Collectors, Expansion!ProcessStep(p) PROVE ExpansionInv'
  BY <1>2, LookAtPinKeeps, TruncateHeaderKeeps, WriteHeaderKeeps, SeededKeeps,
     PublishCallsKeeps, WriteRecordsKeeps, LookAtBlockKeeps, SurveyedKeeps, RpcLockKeeps,
     LoadKeeps, ReleaseKeeps, ValidateKeeps DEF Expansion!ProcessStep
<1>3. ASSUME NEW p \in Collectors, Expansion!Crash(p) PROVE ExpansionInv'
  BY <1>3, CrashKeeps
<1>4. ASSUME NEW p \in Collectors, NEW limit \in MaxBlocks, NEW seedOnly \in BOOLEAN,
             Expansion!Start(p, limit, seedOnly)
      PROVE  ExpansionInv'
  BY <1>4, StartCollectKeeps
<1> QED
  BY <1>1, <1>2, <1>3, <1>4, OwnSteps DEF Expansion!Next

LEMMA ExpansionInit == Init => ExpansionInv
<1> SUFFICES ASSUME Init PROVE ExpansionInv
  OBVIOUS
<1>1. /\ stored = [b \in Window |-> {}] /\ torn = [b \in Window |-> {}] /\ manifest = "none"
      /\ proc = [p \in Collectors |-> Expansion!Rest]
  BY DEF Init, Expansion!Init
<1>2. proc \in [Collectors -> Expansion!Processes]
  BY <1>1, ExpansionFacts
<1>3. \A p \in Collectors : proc[p].at = "idle" /\ proc[p].pins = {}
  BY <1>1 DEF Expansion!Rest
<1> QED
  BY <1>1, <1>2, <1>3 DEF ExpansionInv, PinsHeld, LockHeld, ManifestSafe, ValidatedSafe

\* A manifest that says "complete" is true and stays true, but for the blocks that
\* another process had in hand when they were looked at: whatever evidence there is
\* of a pin, the whole of it or a part, however many processes seed and collect, and
\* wherever they are killed.
THEOREM CompleteManifests == Spec => []CompleteManifestTrue
<1>1. ExpansionInv => CompleteManifestTrue
  BY DEF ExpansionInv, ManifestSafe, Safe, CompleteManifestTrue, Expansion!CompleteManifestTrue
<1> QED
  BY <1>1, ExpansionInit, ExpansionKept, PTL DEF Spec
-----------------------------------------------------------------------------
(***************************************************************************)
(* The prices of a window (october_source_prices.py).                      *)
(***************************************************************************)

\* The run prices the window, after the wait for its workers.
Pricing == pricer[Main].at \in {"block", "report", "write", "export"}

\* What workers of earlier runs have before them then is contested.
MainAlone == Pricing => \A p \in Pricers \ {Main} : pricer[p].todo \subseteq contested

\* Who is at work has the edition on disk, in the code it runs, in the fingerprint
\* of its reports and in those it will write back, but at blocks it had before it
\* when the code was edited; the window's process has it always.
Loaded(m) ==
    /\ m.at # "idle" => m.edition # 0 /\ \A b \in m.todo \ edited : m.edition = code
    /\ m.at \in {"report", "write"} => Prices!First(m.todo) \in edited \/ m.label = code
    /\ m.at = "write" =>
          /\ m.existing.edition = m.label
          /\ Prices!First(m.todo) \in edited \/ m.existing.makers \subseteq {code}
LoadedMain(m) ==
    /\ m.at # "idle" => m.edition = code
    /\ m.at \in {"report", "write"} => m.label = code
EditionsCurrent == LoadedMain(pricer[Main]) /\ \A p \in Pricers : Loaded(pricer[p])

\* Elsewhere the reports were made by the edition the file says.
MakersTrue == \A b \in PriceBlocks \ edited : reports[b].makers \subseteq {reports[b].edition}

\* Who makes a report has a block in hand.
BlocksInHand == \A p \in Pricers : pricer[p].at \in {"report", "write"} => pricer[p].todo # {}

\* A row of the window is in memory and its artifacts are on disk.
RowBacked(b) ==
    /\ pricer[Main].rows[b] = code
    /\ b \notin contested \cap edited => direct[b] = code /\ reports[b].edition = code
    /\ b \notin contested => reports[b].keys = Keys

\* Of the block in hand, so are the direct quotes and the reports no longer wanted.
RowInHand ==
    LET b == Prices!First(pricer[Main].todo) IN
    /\ pricer[Main].todo # {}
    /\ pricer[Main].rows[b] = code
    /\ b \notin contested \cap edited => direct[b] = code
    /\ \A k \in Keys \ pricer[Main].wanted :
          /\ b \notin contested \cap edited => reports[b].edition = code
          /\ b \notin contested => k \in reports[b].keys

\* What will be written back holds what is on disk.
ReportInHand ==
    Prices!First(pricer[Main].todo) \notin contested =>
        \A k \in Keys \ pricer[Main].wanted : k \in pricer[Main].existing.keys

WindowPriced ==
    /\ pricer[Main].at = "wait" => pricer[Main].todo = PriceBlocks
    /\ pricer[Main].at \in {"block", "report", "write"} =>
          \A b \in PriceBlocks \ pricer[Main].todo : RowBacked(b)
    /\ pricer[Main].at \in {"report", "write"} => RowInHand
    /\ pricer[Main].at = "write" => ReportInHand

PricesInv ==
    /\ Prices!PricesTypeOK /\ MainAlone /\ EditionsCurrent /\ MakersTrue
    /\ BlocksInHand /\ WindowPriced /\ ExportBacked

LEMMA PricesFacts ==
    /\ Main \in Pricers /\ PriceBlocks \subseteq Nat /\ Keys # {} /\ Keys \subseteq Nat
    /\ MaxCode \in Nat \ {0}
    /\ 1 \in 1 .. MaxCode /\ 0 \in 0 .. MaxCode /\ 1 .. MaxCode \subseteq 0 .. MaxCode
<1>1. /\ Main \in Pricers /\ PriceBlocks \subseteq Nat /\ Keys # {} /\ Keys \subseteq Nat
      /\ MaxCode \in Nat \ {0}
  BY ResearchAssumption DEF Prices!PricesAssumption
<1> QED
  BY <1>1

LEMMA FirstBlock ==
    ASSUME NEW S \in SUBSET Nat, S # {} PROVE Prices!First(S) \in S
  BY LeastExists DEF Prices!First

LEMMA IdleTyped ==
    /\ Prices!NoPage \in [PriceBlocks -> 0 .. MaxCode]
    /\ Prices!Idle \in Prices!Pricers1 /\ Prices!Idle.at = "idle" /\ Prices!Idle.todo = {}
<1>1. Prices!NoPage \in [PriceBlocks -> 0 .. MaxCode]
  BY PricesFacts DEF Prices!NoPage
<1>2. Prices!NoReports \in Prices!ReportFiles
  BY PricesFacts DEF Prices!NoReports, Prices!ReportFiles
<1> QED
  BY <1>1, <1>2, PricesFacts DEF Prices!Idle, Prices!Pricers1

LEMMA PricesInit == Init => PricesInv
<1> SUFFICES ASSUME Init PROVE PricesInv
  OBVIOUS
<1>1. Prices!Init
  BY DEF Init
<1>2. Prices!NoReports \in Prices!ReportFiles
  BY PricesFacts DEF Prices!NoReports, Prices!ReportFiles
<1>3. Prices!PricesTypeOK
  BY <1>1, <1>2, IdleTyped, PricesFacts DEF Prices!Init, Prices!PricesTypeOK
<1>4. \A p \in Pricers : pricer[p].at = "idle"
  BY <1>1 DEF Prices!Init, Prices!Idle
<1>5. MakersTrue
  BY <1>1 DEF MakersTrue, Prices!Init, Prices!NoReports
<1>6. EditionsCurrent
  BY <1>4, PricesFacts DEF EditionsCurrent, Loaded, LoadedMain
<1> QED
  BY <1>3, <1>4, <1>5, <1>6, PricesFacts
     DEF PricesInv, MainAlone, Pricing, BlocksInHand, WindowPriced,
         ExportBacked, Prices!ExportBacked, Prices!In

LEMMA PricerTyped ==
    ASSUME PricesInv, NEW p \in Pricers
    PROVE  /\ pricer[p] \in Prices!Pricers1
           /\ pricer[p].edition \in 0 .. MaxCode /\ pricer[p].label \in 0 .. MaxCode
           /\ pricer[p].todo \in SUBSET PriceBlocks
           /\ pricer[p].wanted \in SUBSET Keys /\ pricer[p].key \in SUBSET Keys
           /\ pricer[p].existing \in Prices!ReportFiles
           /\ pricer[p].rows \in [PriceBlocks -> 0 .. MaxCode]
  BY DEF PricesInv, Prices!PricesTypeOK, Prices!Pricers1

LEMMA FilesTyped ==
    ASSUME PricesInv
    PROVE  /\ direct \in [PriceBlocks -> 0 .. MaxCode]
           /\ reports \in [PriceBlocks -> Prices!ReportFiles]
           /\ {prices, exported} \subseteq [PriceBlocks -> 0 .. MaxCode]
           /\ pricer \in [Pricers -> Prices!Pricers1]
           /\ code \in 1 .. MaxCode
           /\ crew \subseteq Pricers \ {Main}
           /\ contested \subseteq PriceBlocks /\ edited \subseteq PriceBlocks
  BY DEF PricesInv, Prices!PricesTypeOK, Prices!Others

\* p may have written of blocks before it, and what it wrote is of this edition if
\* they were not before it when the code was edited.
Wrote(p) ==
    \A b \in PriceBlocks :
        /\ direct'[b] = direct[b] \/ (b \in pricer[p].todo /\ (b \in edited \/ direct'[b] = code))
        /\ reports'[b] = reports[b]
              \/ (b \in pricer[p].todo /\ (b \in edited \/ reports'[b].edition = code))

\* What another process writes leaves what the window's process has priced.
LEMMA OthersWrite ==
    ASSUME PricesInv, NEW p \in Pricers \ {Main}, Wrote(p),
           MakersTrue', pricer'[Main] = pricer[Main], UNCHANGED <<code, contested, edited, prices>>
    PROVE  WindowPriced' /\ ExportBacked'
<1>1. Pricing => \A b \in pricer[p].todo : b \in contested
  BY DEF PricesInv, MainAlone
<1>2. ASSUME NEW b \in PriceBlocks, Pricing, RowBacked(b) PROVE RowBacked(b)'
  BY <1>1, <1>2 DEF RowBacked, Wrote
<1>3. ASSUME Pricing, pricer[Main].at \in {"report", "write"}, RowInHand PROVE RowInHand'
  <2> DEFINE b == Prices!First(pricer[Main].todo)
  <2>1. b \in PriceBlocks /\ b' = b
    <3>1. pricer[Main].todo \in SUBSET PriceBlocks /\ pricer[Main].todo # {}
      BY <1>3, PricerTyped, PricesFacts DEF RowInHand
    <3>2. pricer[Main].todo \in SUBSET Nat
      BY <3>1, PricesFacts
    <3> QED
      BY <3>1, <3>2, FirstBlock
  <2>2. direct'[b] = direct[b] \/ (b \in contested /\ (b \in edited \/ direct'[b] = code))
    BY <1>1, <1>3, <2>1 DEF Wrote
  <2>3. \/ reports'[b] = reports[b]
        \/ b \in contested /\ (b \in edited \/ reports'[b].edition = code)
    BY <1>1, <1>3, <2>1 DEF Wrote
  <2> HIDE DEF b
  <2>4. /\ pricer[Main].todo # {} /\ pricer[Main].rows[b] = code
        /\ b \notin contested \cap edited => direct[b] = code
        /\ \A k \in Keys \ pricer[Main].wanted :
              /\ b \notin contested \cap edited => reports[b].edition = code
              /\ b \notin contested => k \in reports[b].keys
    BY <1>3 DEF RowInHand, b
  <2>5. /\ pricer'[Main].todo # {} /\ pricer'[Main].rows[b] = code
        /\ b \notin contested' \cap edited' => direct'[b] = code
        /\ \A k \in Keys \ pricer'[Main].wanted :
              /\ b \notin contested' \cap edited' => reports'[b].edition = code
              /\ b \notin contested' => k \in reports'[b].keys
    BY <2>2, <2>3, <2>4
  <2> QED
    BY <2>1, <2>5 DEF RowInHand, b
<1>4. WindowPriced'
  BY <1>2, <1>3 DEF PricesInv, WindowPriced, Pricing, ReportInHand
<1>5. ExportBacked'
  <2>1. SUFFICES ASSUME pricer[Main].at = "export", NEW b \in PriceBlocks
                 PROVE  /\ prices[b] = pricer[Main].edition
                        /\ b \notin contested \cap edited =>
                              direct'[b] = prices[b] /\ reports'[b].edition = prices[b]
                        /\ b \notin contested => reports'[b].keys = Keys
                        /\ b \notin edited => reports'[b].makers \subseteq {prices[b]}
    BY DEF ExportBacked, Prices!ExportBacked, Prices!In
  <2>2. /\ prices[b] = pricer[Main].edition
        /\ b \notin contested \cap edited =>
              direct[b] = prices[b] /\ reports[b].edition = prices[b]
        /\ b \notin contested => reports[b].keys = Keys
    BY <2>1 DEF PricesInv, ExportBacked, Prices!ExportBacked, Prices!In
  <2>3. pricer[Main].edition = code
    BY <2>1 DEF PricesInv, EditionsCurrent, LoadedMain
  <2>4. \A c \in pricer[p].todo : c \in contested
    <3>1. Pricing
      BY <2>1 DEF Pricing
    <3> QED
      BY <1>1, <3>1
  <2>5. /\ direct'[b] = direct[b] \/ (b \in contested /\ (b \in edited \/ direct'[b] = code))
        /\ reports'[b] = reports[b]
              \/ (b \in contested /\ (b \in edited \/ reports'[b].edition = code))
    BY <2>4 DEF Wrote
  <2>6. b \notin contested \cap edited =>
           direct'[b] = prices[b] /\ reports'[b].edition = prices[b]
    BY <2>2, <2>3, <2>5
  <2>7. b \notin edited => reports'[b].makers \subseteq {reports'[b].edition}
    BY DEF MakersTrue
  <2> QED
    BY <2>2, <2>5, <2>6, <2>7
<1> QED
  BY <1>4, <1>5

\* A step of one process that keeps its edition: what is left is the types, and
\* for the window's process what it has priced.
LEMMA PricerMoves ==
    ASSUME PricesInv, NEW p \in Pricers, pricer[p].at # "idle", UNCHANGED <<code, contested, edited>>,
           NEW next \in Prices!Pricers1, Loaded(next), p = Main => LoadedMain(next), MakersTrue',
           next.at \in {"report", "write"} => next.todo # {},
           next.todo \subseteq pricer[p].todo,
           pricer' = [pricer EXCEPT ![p] = next],
           direct' \in [PriceBlocks -> 0 .. MaxCode],
           reports' \in [PriceBlocks -> Prices!ReportFiles],
           {prices', exported'} \subseteq [PriceBlocks -> 0 .. MaxCode],
           crew' \subseteq Pricers \ {Main},
           p = Main => (next.at = "idle" \/ Pricing) /\ WindowPriced' /\ ExportBacked',
           p # Main => Wrote(p) /\ UNCHANGED prices
    PROVE  PricesInv'
<1>1. pricer'[p] = next /\ \A q \in Pricers \ {p} : pricer'[q] = pricer[q]
  BY FilesTyped
<1>2. pricer' \in [Pricers -> Prices!Pricers1]
  BY FilesTyped
<1>3. Prices!PricesTypeOK'
  BY <1>2 DEF PricesInv, Prices!PricesTypeOK, Prices!Others
<1>4. MainAlone'
  <2>1. Pricing' => Pricing
    BY <1>1, PricesFacts DEF Pricing
  <2>2. \A q \in Pricers : pricer'[q].todo \subseteq pricer[q].todo
    BY <1>1
  <2> QED
    BY <2>1, <2>2 DEF PricesInv, MainAlone
<1>5. EditionsCurrent' /\ BlocksInHand'
  <2>1. LoadedMain(pricer[Main])'
    BY <1>1, PricesFacts DEF PricesInv, EditionsCurrent, LoadedMain
  <2>2. ASSUME NEW q \in Pricers PROVE Loaded(pricer[q])'
    <3>1. Loaded(pricer'[q])
      BY <1>1 DEF PricesInv, EditionsCurrent
    <3> QED
      BY <3>1 DEF Loaded
  <2> QED
    BY <1>1, <2>1, <2>2 DEF PricesInv, EditionsCurrent, BlocksInHand
<1>6. WindowPriced' /\ ExportBacked'
  BY <1>1, OthersWrite, PricesFacts
<1> QED
  BY <1>3, <1>4, <1>5, <1>6 DEF PricesInv

\* The block whose direct quotes were made now has them on disk and in memory.
LEMMA PriceDirectKeeps ==
    ASSUME PricesInv, NEW p \in Pricers, Prices!PriceDirect(p) PROVE PricesInv'
<1> DEFINE m == pricer[p]
           b == Prices!First(m.todo)
           next == [m EXCEPT !.at = "report", !.wanted = Keys, !.label = code,
                             !.rows = [m.rows EXCEPT ![b] = m.edition]]
<1>1. m \in Prices!Pricers1 /\ m.todo # {} /\ m.at = "block" /\ b \in PriceBlocks /\ b \in m.todo
  <2>1. m.todo \in SUBSET PriceBlocks /\ m.todo \in SUBSET Nat /\ m.todo # {} /\ m.at = "block"
    BY PricerTyped, PricesFacts DEF Prices!PriceDirect, Prices!In
  <2> QED
    BY <2>1, PricerTyped, FirstBlock
<1>2. /\ Prices!Direct(p, b) = m.edition /\ m.edition \in 0 .. MaxCode
      /\ m.edition # 0 /\ \A c \in m.todo \ edited : m.edition = code
      /\ p = Main => m.edition = code
  BY <1>1, PricerTyped DEF Prices!Direct, PricesInv, EditionsCurrent, Loaded, LoadedMain
<1>3. /\ direct' = [direct EXCEPT ![b] = m.edition]
      /\ UNCHANGED <<code, reports, prices, exported, crew, contested, edited>>
  BY <1>2 DEF Prices!PriceDirect, Prices!Run
<1>4. pricer' = [pricer EXCEPT ![p] = next]
  <2>1. pricer' = [pricer EXCEPT ![p].at = "report", ![p].wanted = Keys,
                                 ![p].label = code, ![p].rows[b] = m.edition]
    BY <1>2 DEF Prices!PriceDirect
  <2> QED
    BY <1>1, <2>1, FilesTyped DEF Prices!Pricers1
<1>5. /\ next \in Prices!Pricers1 /\ next.at = "report" /\ next.wanted = Keys
      /\ next.edition = m.edition /\ next.todo = m.todo /\ next.label = code
      /\ next.rows = [m.rows EXCEPT ![b] = m.edition]
      /\ m.rows \in [PriceBlocks -> 0 .. MaxCode]
  <2>1. code \in 0 .. MaxCode
    BY FilesTyped, PricesFacts
  <2> QED
    BY <1>1, <1>2, <2>1 DEF Prices!Pricers1
<1>6. direct' \in [PriceBlocks -> 0 .. MaxCode]
  BY <1>2, <1>3, FilesTyped
<1> HIDE DEF next
<1>7. ASSUME p = Main PROVE Pricing /\ WindowPriced' /\ ExportBacked'
  <2>1. m.edition = code /\ \A c \in PriceBlocks \ m.todo : RowBacked(c)
    BY <1>1, <1>2, <1>7 DEF PricesInv, WindowPriced
  <2>2. pricer'[Main] = next
    BY <1>4, <1>7, FilesTyped
  <2>3. ASSUME NEW c \in PriceBlocks \ m.todo PROVE RowBacked(c)'
    BY <1>1, <1>3, <1>5, <1>7, <2>1, <2>2, FilesTyped DEF RowBacked
  <2>4. RowInHand'
    BY <1>1, <1>3, <1>5, <2>1, <2>2, FilesTyped DEF RowInHand
  <2> QED
    BY <1>1, <1>5, <1>7, <2>2, <2>3, <2>4
       DEF Pricing, WindowPriced, ExportBacked, Prices!ExportBacked, Prices!In
<1>8. Wrote(p) /\ MakersTrue'
  BY <1>1, <1>2, <1>3, FilesTyped DEF Wrote, MakersTrue, PricesInv
<1>9. Loaded(next) /\ (p = Main => LoadedMain(next))
  BY <1>2, <1>5 DEF Loaded, LoadedMain
<1> QED
  BY <1>1, <1>3, <1>4, <1>5, <1>6, <1>7, <1>8, <1>9, FilesTyped, PricerMoves

\* Keys are taken in their order; of an older file none counts.
LEMMA ReadReportsKeeps ==
    ASSUME PricesInv, NEW p \in Pricers, Prices!ReadReports(p) PROVE PricesInv'
<1> DEFINE m == pricer[p]
           b == Prices!First(m.todo)
           cached == IF reports[b].edition = m.label THEN reports[b]
                     ELSE [Prices!NoReports EXCEPT !.edition = m.label]
           k == Prices!First(m.wanted)
<1>1. /\ m \in Prices!Pricers1 /\ m.at = "report" /\ m.todo # {}
      /\ Loaded(m) /\ (p = Main => LoadedMain(m) /\ m.label = code)
      /\ k \in m.wanted /\ m.wanted \in SUBSET Keys
  <2>1. m.wanted \in SUBSET Keys /\ m.wanted # {} /\ m.wanted \in SUBSET Nat
    BY PricerTyped, PricesFacts DEF Prices!ReadReports
  <2>2. k \in m.wanted
    BY <2>1, FirstBlock
  <2> QED
    BY <2>1, <2>2, PricerTyped
       DEF Prices!ReadReports, Prices!In, PricesInv, BlocksInHand, EditionsCurrent, LoadedMain
<1>2. pricer' = IF k \in cached.keys
                THEN [pricer EXCEPT ![p].wanted = m.wanted \ {k}]
                ELSE [pricer EXCEPT ![p].at = "write", ![p].key = {k}, ![p].existing = cached]
  BY FilesTyped DEF Prices!ReadReports
<1>3. UNCHANGED <<code, direct, reports, prices, exported, crew, contested, edited>>
  BY DEF Prices!ReadReports, Prices!Files, Prices!Run
<1> HIDE DEF k
<1>4. Wrote(p) /\ MakersTrue'
  BY <1>3 DEF Wrote, MakersTrue, PricesInv
<1>5. ASSUME p = Main
      PROVE  Pricing /\ RowInHand /\ \A c \in PriceBlocks \ m.todo : RowBacked(c)
  BY <1>1, <1>5 DEF PricesInv, Pricing, WindowPriced
<1>6. CASE k \in cached.keys
  <2> DEFINE next == [m EXCEPT !.wanted = m.wanted \ {k}]
  <2>1. pricer' = [pricer EXCEPT ![p] = next]
    BY <1>1, <1>2, <1>6, FilesTyped DEF Prices!Pricers1
  <2>2. /\ next \in Prices!Pricers1 /\ next.at = "report" /\ next.wanted = m.wanted \ {k}
        /\ next.edition = m.edition /\ next.todo = m.todo /\ next.rows = m.rows
        /\ next.label = m.label
    BY <1>1 DEF Prices!Pricers1
  <2>3. reports[b].edition = m.label /\ k \in reports[b].keys
    BY <1>6 DEF Prices!NoReports
  <2> HIDE DEF next
  <2>4. ASSUME p = Main PROVE WindowPriced' /\ ExportBacked'
    <3>1. pricer'[Main] = next
      BY <2>1, <2>4, FilesTyped
    <3>2. RowInHand'
      BY <1>1, <1>3, <1>5, <2>2, <2>3, <2>4, <3>1 DEF RowInHand
    <3>3. \A c \in PriceBlocks \ m.todo : RowBacked(c)'
      BY <1>3, <1>5, <2>2, <2>4, <3>1 DEF RowBacked
    <3> QED
      BY <2>2, <3>1, <3>2, <3>3, <2>4 DEF WindowPriced, ExportBacked, Prices!ExportBacked, Prices!In
  <2>5. Loaded(next) /\ (p = Main => LoadedMain(next))
    BY <1>1, <2>2 DEF Loaded, LoadedMain
  <2> QED
    BY <1>1, <1>3, <1>4, <1>5, <2>1, <2>2, <2>4, <2>5, FilesTyped, PricerMoves
<1>7. CASE k \notin cached.keys
  <2> DEFINE next == [m EXCEPT !.at = "write", !.key = {k}, !.existing = cached]
  <2>0. b \in PriceBlocks
    <3>1. m.todo \in SUBSET PriceBlocks
      BY PricerTyped
    <3> QED
      BY <1>1, <3>1, FirstBlock, PricesFacts
  <2>1. /\ cached \in Prices!ReportFiles /\ cached.edition = m.label
        /\ b \in edited \/ cached.makers \subseteq {m.label}
    <3>1. CASE reports[b].edition = m.label
      BY <2>0, <3>1, FilesTyped DEF PricesInv, MakersTrue
    <3>2. CASE reports[b].edition # m.label
      <4>1. m.label \in 0 .. MaxCode
        BY PricerTyped
      <4> QED
        BY <3>2, <4>1 DEF Prices!NoReports, Prices!ReportFiles
    <3> QED
      BY <3>1, <3>2
  <2>2. pricer' = [pricer EXCEPT ![p] = next]
    BY <1>1, <1>2, <1>7, FilesTyped DEF Prices!Pricers1
  <2> HIDE DEF cached
  <2>3. /\ next \in Prices!Pricers1 /\ next.at = "write" /\ next.wanted = m.wanted
        /\ next.edition = m.edition /\ next.todo = m.todo /\ next.rows = m.rows
        /\ next.existing = cached /\ next.label = m.label
    BY <1>1, <2>1 DEF Prices!Pricers1
  <2> HIDE DEF next
  <2>4. ASSUME p = Main PROVE WindowPriced' /\ ExportBacked'
    <3>1. pricer'[Main] = next
      BY <2>2, <2>4, FilesTyped
    <3>2. RowInHand'
      BY <1>3, <1>5, <2>3, <2>4, <3>1 DEF RowInHand
    <3>3. ReportInHand'
      <4>1. pricer[Main].todo = m.todo /\ m.label = code /\ RowInHand
        BY <1>1, <1>5, <2>4
      <4>2. b \notin contested => \A l \in Keys \ m.wanted : l \in cached.keys
        BY <2>4, <4>1 DEF RowInHand, cached
      <4> QED
        BY <1>3, <2>3, <2>4, <3>1, <4>2 DEF ReportInHand
    <3>4. \A c \in PriceBlocks \ m.todo : RowBacked(c)'
      BY <1>3, <1>5, <2>3, <2>4, <3>1 DEF RowBacked
    <3> QED
      BY <2>3, <3>1, <3>2, <3>3, <3>4, <2>4
         DEF WindowPriced, ExportBacked, Prices!ExportBacked, Prices!In
  <2>5. Loaded(next) /\ (p = Main => LoadedMain(next))
    BY <1>1, <2>1, <2>3 DEF Loaded, LoadedMain
  <2> QED
    BY <1>1, <1>3, <1>4, <1>5, <2>2, <2>3, <2>4, <2>5, FilesTyped, PricerMoves
<1> QED
  BY <1>6, <1>7

LEMMA WriteReportKeeps ==
    ASSUME PricesInv, NEW p \in Pricers, Prices!WriteReport(p) PROVE PricesInv'
<1> DEFINE m == pricer[p]
           b == Prices!First(m.todo)
           file == [m.existing EXCEPT !.keys = m.existing.keys \cup m.key,
                                      !.makers = m.existing.makers \cup {m.edition}]
           next == [m EXCEPT !.at = "report", !.wanted = m.wanted \ m.key]
<1>1. /\ m \in Prices!Pricers1 /\ m.at = "write" /\ m.todo # {} /\ b \in m.todo
      /\ b \in PriceBlocks /\ Loaded(m) /\ (p = Main => LoadedMain(m))
  <2>1. /\ m.todo \in SUBSET PriceBlocks /\ m.todo \in SUBSET Nat /\ m.at = "write" /\ m.todo # {}
        /\ Loaded(m) /\ (p = Main => LoadedMain(m))
    BY PricerTyped, PricesFacts
       DEF Prices!WriteReport, Prices!In, PricesInv, BlocksInHand, EditionsCurrent
  <2> QED
    BY <2>1, PricerTyped, FirstBlock
<1>2. /\ file \in Prices!ReportFiles
      /\ file.edition = m.existing.edition /\ file.keys = m.existing.keys \cup m.key
      /\ file.makers = m.existing.makers \cup {m.edition}
  <2>1. m.edition \in 1 .. MaxCode
    BY <1>1, PricerTyped DEF Loaded
  <2> QED
    BY <2>1, PricerTyped DEF Prices!ReportFiles
<1>3. /\ UNCHANGED <<code, direct, prices, exported, crew, contested, edited>>
      /\ reports' = [reports EXCEPT ![b] = file]
  BY PricerTyped DEF Prices!WriteReport, Prices!Run, Prices!ReportFiles
<1>4. pricer' = [pricer EXCEPT ![p] = next]
  BY <1>1, FilesTyped DEF Prices!WriteReport, Prices!Pricers1
<1>5. /\ next \in Prices!Pricers1 /\ next.at = "report" /\ next.wanted = m.wanted \ m.key
      /\ next.edition = m.edition /\ next.todo = m.todo /\ next.rows = m.rows
      /\ next.label = m.label
  BY <1>1 DEF Prices!Pricers1
<1> HIDE DEF next, file
<1>6. /\ reports' \in [PriceBlocks -> Prices!ReportFiles]
      /\ reports'[b] = file /\ \A c \in PriceBlocks \ {b} : reports'[c] = reports[c]
  BY <1>1, <1>2, <1>3, FilesTyped
<1>7. ASSUME p = Main PROVE Pricing /\ WindowPriced' /\ ExportBacked'
  <2>1. Pricing /\ RowInHand /\ ReportInHand /\ \A c \in PriceBlocks \ m.todo : RowBacked(c)
    BY <1>1, <1>7 DEF PricesInv, WindowPriced, Pricing
  <2>2. pricer'[Main] = next
    BY <1>4, <1>7, FilesTyped
  <2>3. RowInHand'
    <3>1. m.existing.edition = code
      BY <1>1, <1>7 DEF Loaded, LoadedMain
    <3> QED
      BY <1>1, <1>2, <1>3, <1>5, <1>6, <1>7, <2>1, <2>2, <3>1 DEF RowInHand, ReportInHand
  <2>4. \A c \in PriceBlocks \ m.todo : RowBacked(c)'
    BY <1>1, <1>3, <1>5, <1>6, <1>7, <2>1, <2>2 DEF RowBacked
  <2> QED
    BY <1>5, <1>7, <2>1, <2>2, <2>3, <2>4
       DEF WindowPriced, ExportBacked, Prices!ExportBacked, Prices!In
<1>8. b \in edited \/ (file.edition = code /\ file.makers \subseteq {code})
  BY <1>1, <1>2 DEF Loaded
<1>9. Wrote(p) /\ MakersTrue'
  <2>1. Wrote(p)
    BY <1>1, <1>3, <1>6, <1>8 DEF Wrote
  <2>2. MakersTrue'
    BY <1>3, <1>6, <1>8 DEF PricesInv, MakersTrue
  <2> QED
    BY <2>1, <2>2
<1>10. Loaded(next) /\ (p = Main => LoadedMain(next))
  BY <1>1, <1>5 DEF Loaded, LoadedMain
<1> QED
  BY <1>1, <1>3, <1>4, <1>5, <1>6, <1>7, <1>9, <1>10, FilesTyped, PricerMoves

\* With no report left to make the row is backed.
LEMMA RowDoneKeeps ==
    ASSUME PricesInv, NEW p \in Pricers, Prices!RowDone(p) PROVE PricesInv'
<1> DEFINE m == pricer[p]
           b == Prices!First(m.todo)
           next == [m EXCEPT !.at = "block", !.todo = m.todo \ {b}]
<1>1. /\ m \in Prices!Pricers1 /\ m.at = "report" /\ m.wanted = {} /\ m.todo # {}
      /\ b \in m.todo /\ b \in PriceBlocks
  <2>1. /\ m.todo \in SUBSET PriceBlocks /\ m.todo \in SUBSET Nat /\ m.at = "report"
        /\ m.wanted = {} /\ m.todo # {}
    BY PricerTyped, PricesFacts DEF Prices!RowDone, Prices!In, PricesInv, BlocksInHand
  <2> QED
    BY <2>1, PricerTyped, FirstBlock
<1>2. UNCHANGED <<code, direct, reports, prices, exported, crew, contested, edited>>
  BY DEF Prices!RowDone, Prices!Files, Prices!Run
<1>3. pricer' = [pricer EXCEPT ![p] = next]
  BY <1>1, FilesTyped DEF Prices!RowDone, Prices!Pricers1
<1>4. /\ next \in Prices!Pricers1 /\ next.at = "block" /\ next.edition = m.edition
      /\ next.todo = m.todo \ {b} /\ next.rows = m.rows
  BY <1>1 DEF Prices!Pricers1
<1> HIDE DEF next
<1>5. ASSUME p = Main PROVE Pricing /\ WindowPriced' /\ ExportBacked'
  <2>1. Pricing /\ RowInHand /\ \A c \in PriceBlocks \ m.todo : RowBacked(c)
    BY <1>1, <1>5 DEF PricesInv, WindowPriced, Pricing
  <2>2. pricer'[Main] = next
    BY <1>3, <1>5, FilesTyped
  <2>3. RowBacked(b)
    <3>1. reports[b] \in Prices!ReportFiles
      BY <1>1, FilesTyped
    <3>2. \A k \in Keys :
             /\ b \notin contested \cap edited => reports[b].edition = code
             /\ b \notin contested => k \in reports[b].keys
      BY <1>1, <1>5, <2>1 DEF RowInHand
    <3>3. /\ b \notin contested \cap edited => reports[b].edition = code
          /\ b \notin contested => reports[b].keys = Keys
      BY <3>1, <3>2, PricesFacts DEF Prices!ReportFiles
    <3> QED
      BY <1>5, <2>1, <3>3 DEF RowBacked, RowInHand
  <2>4. \A c \in PriceBlocks \ next.todo : RowBacked(c)
    BY <1>4, <2>1, <2>3
  <2>5. \A c \in PriceBlocks \ next.todo : RowBacked(c)'
    BY <1>2, <1>4, <1>5, <2>2, <2>4 DEF RowBacked
  <2> QED
    BY <1>4, <1>5, <2>1, <2>2, <2>5 DEF WindowPriced, ExportBacked, Prices!ExportBacked, Prices!In
<1>6. Wrote(p) /\ MakersTrue' /\ next.todo \subseteq m.todo
  BY <1>2, <1>4 DEF Wrote, MakersTrue, PricesInv
<1>7. Loaded(next) /\ (p = Main => LoadedMain(next))
  BY <1>1, <1>4 DEF PricesInv, EditionsCurrent, Loaded, LoadedMain
<1> QED
  BY <1>1, <1>2, <1>3, <1>4, <1>5, <1>6, <1>7, FilesTyped, PricerMoves

LEMMA AllRowsKeeps ==
    ASSUME PricesInv, NEW p \in Pricers, Prices!AllRows(p) PROVE PricesInv'
<1> DEFINE m == pricer[p]
           next == [m EXCEPT !.at = "export"]
<1>1. m \in Prices!Pricers1 /\ m.at = "block" /\ m.todo = {}
  BY PricerTyped DEF Prices!AllRows, Prices!In
<1>2. /\ UNCHANGED <<code, direct, reports, exported, contested, edited>>
      /\ crew' \subseteq Pricers \ {Main} /\ MakersTrue'
  BY FilesTyped DEF Prices!AllRows, PricesInv, MakersTrue
<1>3. CASE p = Main
  <2>1. pricer' = [pricer EXCEPT ![p] = next] /\ prices' = m.rows
    BY <1>1, <1>3, FilesTyped DEF Prices!AllRows, Prices!Pricers1
  <2>2. /\ next \in Prices!Pricers1 /\ next.at = "export" /\ next.edition = m.edition
        /\ m.rows \in [PriceBlocks -> 0 .. MaxCode] /\ next.todo = m.todo
    BY <1>1 DEF Prices!Pricers1
  <2>3. m.edition = code /\ \A c \in PriceBlocks : RowBacked(c)
    BY <1>1, <1>3 DEF PricesInv, EditionsCurrent, LoadedMain, WindowPriced
  <2> HIDE DEF next
  <2>4. pricer'[Main] = next
    BY <1>3, <2>1, FilesTyped
  <2>5. Pricing /\ WindowPriced' /\ ExportBacked'
    <3>1. \A b \in PriceBlocks \ edited : reports[b].makers \subseteq {reports[b].edition}
      BY DEF PricesInv, MakersTrue
    <3>2. Pricing /\ WindowPriced'
      BY <1>1, <1>3, <2>2, <2>4 DEF Pricing, WindowPriced
    <3>3. \A b \in PriceBlocks :
             /\ prices'[b] = next.edition
             /\ b \notin contested \cap edited =>
                   direct[b] = prices'[b] /\ reports[b].edition = prices'[b]
             /\ b \notin contested => reports[b].keys = Keys
             /\ b \notin edited => reports[b].makers \subseteq {prices'[b]}
      BY <1>3, <2>1, <2>2, <2>3, <3>1 DEF RowBacked
    <3> QED
      BY <1>2, <2>4, <3>2, <3>3 DEF ExportBacked, Prices!ExportBacked, Prices!In
  <2>6. {prices', exported'} \subseteq [PriceBlocks -> 0 .. MaxCode]
    BY <1>2, <2>1, <2>2, FilesTyped
  <2>7. Loaded(next) /\ LoadedMain(next)
    <3>1. code # 0
      BY FilesTyped, PricesFacts
    <3> QED
      BY <2>2, <2>3, <3>1 DEF Loaded, LoadedMain
  <2> QED
    BY <1>1, <1>2, <1>3, <2>1, <2>2, <2>5, <2>6, <2>7, FilesTyped, PricerMoves
<1>4. CASE p # Main
  <2>1. pricer' = [pricer EXCEPT ![p] = Prices!Idle] /\ UNCHANGED prices
    BY <1>4 DEF Prices!AllRows
  <2>2. Wrote(p)
    BY <1>2 DEF Wrote
  <2>3. Loaded(Prices!Idle)
    BY IdleTyped DEF Loaded
  <2> QED
    BY <1>1, <1>2, <1>4, <2>1, <2>2, <2>3, IdleTyped, FilesTyped, PricerMoves
<1> QED
  BY <1>3, <1>4

\* A process that ends, one way or the other, claims nothing any more.
LEMMA ProcessEnds ==
    ASSUME PricesInv, NEW p \in Pricers, pricer[p].at # "idle",
           pricer' = [pricer EXCEPT ![p] = Prices!Idle], crew' \subseteq Pricers \ {Main},
           UNCHANGED <<code, direct, reports, prices, contested, edited>>,
           exported' \in [PriceBlocks -> 0 .. MaxCode]
    PROVE  PricesInv'
<1>1. Wrote(p) /\ MakersTrue' /\ Loaded(Prices!Idle) /\ LoadedMain(Prices!Idle)
  BY IdleTyped DEF Wrote, PricesInv, MakersTrue, Loaded, LoadedMain
<1>2. ASSUME p = Main PROVE WindowPriced' /\ ExportBacked'
  <2>1. pricer'[Main].at = "idle"
    BY <1>2, IdleTyped, FilesTyped
  <2> QED
    BY <2>1 DEF WindowPriced, ExportBacked, Prices!ExportBacked, Prices!In
<1>3. {prices', exported'} \subseteq [PriceBlocks -> 0 .. MaxCode]
  BY FilesTyped
<1> QED
  BY <1>1, <1>2, <1>3, IdleTyped, FilesTyped, PricerMoves

LEMMA EndsKeep ==
    ASSUME PricesInv,
           Prices!Export \/ Prices!WaitRaises \/ \E p \in Pricers : Prices!Dead(p)
    PROVE  PricesInv'
<1>1. CASE Prices!Export
  <2>1. /\ pricer[Main].at # "idle" /\ pricer' = [pricer EXCEPT ![Main] = Prices!Idle]
        /\ exported' = prices /\ UNCHANGED <<code, direct, reports, prices, crew, contested, edited>>
    BY <1>1 DEF Prices!Export, Prices!In, Prices!Run
  <2> QED
    BY <2>1, FilesTyped, PricesFacts, ProcessEnds
<1>2. CASE Prices!WaitRaises
  <2>1. /\ pricer[Main].at # "idle" /\ pricer' = [pricer EXCEPT ![Main] = Prices!Idle]
        /\ UNCHANGED <<code, direct, reports, prices, exported, contested, edited>> /\ crew' = {}
    BY <1>2 DEF Prices!WaitRaises, Prices!In, Prices!Files
  <2> QED
    BY <2>1, FilesTyped, PricesFacts, ProcessEnds
<1>3. ASSUME NEW p \in Pricers, Prices!Dead(p) PROVE PricesInv'
  <2>1. /\ pricer[p].at # "idle" /\ pricer' = [pricer EXCEPT ![p] = Prices!Idle]
        /\ UNCHANGED <<code, direct, reports, prices, exported, contested, edited>>
        /\ crew' \subseteq Pricers \ {Main}
    BY <1>3, FilesTyped DEF Prices!Dead, Prices!In, Prices!Files
  <2> QED
    BY <2>1, FilesTyped, ProcessEnds
<1> QED
  BY <1>1, <1>2, <1>3

\* The window's process begins to price: all blocks are before it, and what others
\* have before them is contested.
LEMMA PricingBegins ==
    ASSUME PricesInv, NEW next \in Prices!Pricers1, next.at = "block", next.edition = code,
           next.todo = PriceBlocks, pricer' = [pricer EXCEPT ![Main] = next],
           contested' = Prices!Elsewhere,
           UNCHANGED <<code, direct, reports, prices, exported, crew, edited>>
    PROVE  PricesInv'
<1>1. /\ pricer' \in [Pricers -> Prices!Pricers1] /\ pricer'[Main] = next
      /\ \A p \in Pricers \ {Main} : pricer'[p] = pricer[p]
  BY FilesTyped, PricesFacts
<1>2. /\ contested' \subseteq PriceBlocks
      /\ \A p \in Pricers \ {Main} : pricer[p].todo \subseteq contested'
  BY PricerTyped DEF Prices!Elsewhere, Prices!Others
<1>3. Prices!PricesTypeOK'
  BY <1>1, <1>2 DEF PricesInv, Prices!PricesTypeOK
<1>4. MainAlone'
  BY <1>1, <1>2 DEF MainAlone
<1>5. EditionsCurrent' /\ BlocksInHand' /\ MakersTrue'
  <2>0. code # 0
    BY FilesTyped, PricesFacts
  <2>1. LoadedMain(next) /\ Loaded(next)
    BY <2>0 DEF LoadedMain, Loaded
  <2>2. \A p \in Pricers : Loaded(pricer'[p])
    BY <1>1, <2>1 DEF PricesInv, EditionsCurrent
  <2>3. EditionsCurrent'
    BY <1>1, <2>1, <2>2 DEF EditionsCurrent, Loaded, LoadedMain
  <2> QED
    BY <1>1, <2>3 DEF PricesInv, BlocksInHand, MakersTrue
<1>6. WindowPriced' /\ ExportBacked'
  BY <1>1 DEF WindowPriced, ExportBacked, Prices!ExportBacked, Prices!In
<1> QED
  BY <1>3, <1>4, <1>5, <1>6 DEF PricesInv

LEMMA WaitedKeeps == ASSUME PricesInv, Prices!Waited PROVE PricesInv'
<1> DEFINE next == [pricer[Main] EXCEPT !.at = "block"]
<1>1. pricer[Main] \in Prices!Pricers1 /\ pricer[Main].at = "wait"
  BY PricerTyped, PricesFacts DEF Prices!Waited, Prices!In
<1>2. /\ UNCHANGED <<code, direct, reports, prices, exported, crew, edited>>
      /\ contested' = Prices!Elsewhere /\ pricer' = [pricer EXCEPT ![Main] = next]
  BY DEF Prices!Waited, Prices!Files
<1>3. pricer[Main].edition = code /\ pricer[Main].todo = PriceBlocks
  BY <1>1 DEF PricesInv, EditionsCurrent, LoadedMain, WindowPriced
<1>4. /\ next \in Prices!Pricers1 /\ next.at = "block" /\ next.edition = code
      /\ next.todo = PriceBlocks
  BY <1>1, <1>3 DEF Prices!Pricers1
<1> HIDE DEF next
<1> QED
  BY <1>2, <1>4, PricingBegins

LEMMA LaunchAloneKeeps == ASSUME PricesInv, Prices!LaunchAlone PROVE PricesInv'
<1> DEFINE next == [Prices!Idle EXCEPT !.at = "block", !.edition = code, !.todo = PriceBlocks]
<1>1. /\ UNCHANGED <<code, direct, reports, prices, exported, crew, edited>>
      /\ contested' = Prices!Elsewhere /\ pricer' = [pricer EXCEPT ![Main] = next]
  BY DEF Prices!LaunchAlone, Prices!Files
<1>2. code \in 0 .. MaxCode
  BY FilesTyped, PricesFacts
<1>3. next \in Prices!Pricers1 /\ next.at = "block" /\ next.edition = code /\ next.todo = PriceBlocks
  BY <1>2, IdleTyped DEF Prices!Pricers1
<1> HIDE DEF next
<1> QED
  BY <1>1, <1>3, PricingBegins

LEMMA LaunchKeeps ==
    ASSUME PricesInv, NEW chunk \in [Prices!Others -> SUBSET PriceBlocks], Prices!Launch(chunk)
    PROVE  PricesInv'
<1> DEFINE team == {p \in Prices!Others : chunk[p] # {}}
           hand(p) == IF p = Main THEN PriceBlocks ELSE chunk[p]
           next(p) == [Prices!Idle EXCEPT !.at = IF p = Main THEN "wait" ELSE "block",
                                          !.edition = code, !.todo = hand(p)]
<1>1. /\ UNCHANGED <<code, direct, reports, prices, exported, contested, edited>>
      /\ crew' = team /\ team \subseteq Pricers \ {Main}
  BY DEF Prices!Launch, Prices!Files, Prices!Others
<1>2. pricer' = [p \in Pricers |-> IF p = Main \/ p \in team THEN next(p) ELSE pricer[p]]
  BY <1>1 DEF Prices!Launch
<1>3. ASSUME NEW p \in Pricers, p = Main \/ p \in team
      PROVE  /\ pricer'[p] \in Prices!Pricers1 /\ pricer'[p].edition = code
             /\ pricer'[p].at = IF p = Main THEN "wait" ELSE "block"
             /\ p = Main => pricer'[p].todo = PriceBlocks
  <2>1. pricer'[p] = next(p)
    BY <1>2, <1>3
  <2>2. code \in 0 .. MaxCode
    BY FilesTyped, PricesFacts
  <2>3. hand(p) \in SUBSET PriceBlocks
    BY <1>3
  <2> QED
    BY <2>1, <2>2, <2>3, IdleTyped DEF Prices!Pricers1
<1>4. ASSUME NEW p \in Pricers, ~(p = Main \/ p \in team) PROVE pricer'[p] = pricer[p]
  BY <1>2, <1>4
<1> HIDE DEF next, hand
<1>5. pricer' \in [Pricers -> Prices!Pricers1]
  BY <1>2, <1>3, <1>4, FilesTyped
<1>6. Prices!PricesTypeOK'
  BY <1>1, <1>5 DEF PricesInv, Prices!PricesTypeOK, Prices!Others
<1>7. pricer'[Main].at = "wait" /\ pricer'[Main].todo = PriceBlocks
  BY <1>3, PricesFacts
<1>8. MainAlone' /\ WindowPriced' /\ ExportBacked'
  BY <1>7 DEF MainAlone, Pricing, WindowPriced, ExportBacked, Prices!ExportBacked, Prices!In
<1>9. EditionsCurrent' /\ BlocksInHand' /\ MakersTrue'
  <2>1. ASSUME NEW p \in Pricers PROVE Loaded(pricer'[p])
    <3>1. CASE p = Main \/ p \in team
      <4>1. code # 0
        BY FilesTyped, PricesFacts
      <4> QED
        BY <1>3, <3>1, <4>1 DEF Loaded
    <3>2. CASE ~(p = Main \/ p \in team)
      BY <1>4, <3>2 DEF PricesInv, EditionsCurrent
    <3> QED
      BY <3>1, <3>2
  <2>2. LoadedMain(pricer'[Main])
    BY <1>3, PricesFacts DEF LoadedMain
  <2>3. EditionsCurrent'
    BY <1>1, <2>1, <2>2 DEF EditionsCurrent, Loaded, LoadedMain
  <2> QED
    BY <1>1, <1>3, <1>4, <2>3 DEF PricesInv, BlocksInHand, MakersTrue
<1> QED
  BY <1>6, <1>8, <1>9 DEF PricesInv

\* What a worker has before it is edited from now on; the window's process has nothing.
LEMMA EditKeeps == ASSUME PricesInv, Prices!Edit PROVE PricesInv'
<1>1. /\ pricer[Main].at = "idle" /\ code' \in 1 .. MaxCode
      /\ edited' = edited \cup Prices!Elsewhere
      /\ UNCHANGED <<direct, reports, prices, exported, pricer, crew, contested>>
  BY DEF Prices!Edit, Prices!In
<1>2. /\ edited' \subseteq PriceBlocks
      /\ \A p \in Pricers \ {Main} : pricer[p].todo \subseteq edited'
  BY <1>1, PricerTyped, FilesTyped DEF Prices!Elsewhere, Prices!Others
<1>3. Prices!PricesTypeOK'
  BY <1>1, <1>2 DEF PricesInv, Prices!PricesTypeOK
<1>4. ASSUME NEW p \in Pricers PROVE Loaded(pricer[p])'
  <2>1. CASE p = Main
    BY <1>1, <2>1 DEF Loaded
  <2>2. CASE p # Main
    <3>1. pricer[p].todo \subseteq edited' /\ pricer[p].todo \in SUBSET Nat
      BY <1>2, <2>2, PricerTyped, PricesFacts
    <3>2. pricer[p].at \in {"report", "write"} => Prices!First(pricer[p].todo) \in edited'
      BY <3>1, FirstBlock DEF PricesInv, BlocksInHand
    <3>3. /\ pricer[p].at = "write" => pricer[p].existing.edition = pricer[p].label
          /\ pricer[p].at # "idle" => pricer[p].edition # 0
      BY DEF PricesInv, EditionsCurrent, Loaded
    <3> QED
      BY <1>1, <3>1, <3>2, <3>3 DEF Loaded
  <2> QED
    BY <2>1, <2>2
<1>5. EditionsCurrent' /\ MakersTrue'
  BY <1>1, <1>4 DEF PricesInv, EditionsCurrent, LoadedMain, MakersTrue
<1> QED
  BY <1>1, <1>3, <1>5
     DEF PricesInv, MainAlone, Pricing, BlocksInHand, WindowPriced,
         ExportBacked, Prices!ExportBacked, Prices!In

LEMMA PricesKept == PricesInv /\ [Next]_vars => PricesInv'
<1> SUFFICES ASSUME PricesInv, [Next]_vars PROVE PricesInv'
  OBVIOUS
<1>1. ASSUME NEW p \in Pricers, Prices!PricerStep(p) \/ Prices!Dead(p) PROVE PricesInv'
  BY <1>1, PriceDirectKeeps, ReadReportsKeeps, WriteReportKeeps, RowDoneKeeps, AllRowsKeeps,
     EndsKeep DEF Prices!PricerStep
<1>2. ASSUME NEW chunk \in [Prices!Others -> SUBSET PriceBlocks], Prices!Launch(chunk)
      PROVE  PricesInv'
  BY <1>2, LaunchKeeps
<1>3. CASE Prices!Waited \/ Prices!WaitRaises \/ Prices!Export \/ Prices!LaunchAlone
  BY <1>3, WaitedKeeps, EndsKeep, LaunchAloneKeeps
<1>4. CASE Prices!Edit
  BY <1>4, EditKeeps
<1>5. CASE UNCHANGED priceVars
  BY <1>5 DEF priceVars, PricesInv, Prices!PricesTypeOK, MainAlone, Pricing, EditionsCurrent,
              Loaded, LoadedMain, MakersTrue, BlocksInHand, WindowPriced, RowBacked, RowInHand, ReportInHand, ExportBacked,
              Prices!ExportBacked, Prices!In
<1> QED
  BY <1>1, <1>2, <1>3, <1>4, <1>5, OwnSteps DEF Prices!Next

\* What is exported was priced by one edition and its artifacts are those it was
\* made of, for any number of blocks, processes, failures, runs and edits, though a
\* run that ends over one worker's failure leaves the others at work and the code
\* may be edited over them.  The window's process looks at every artifact again when
\* its own workers are through; of a block no worker of an earlier run had before it
\* then, the artifact of reports is complete too, and of one that none had before it
\* when the code was edited, no report was made by another edition (main, _read_raw,
\* _aggregate_report).
THEOREM ExportsAreBacked == Spec => []ExportBacked
<1>1. PricesInv => ExportBacked
  BY DEF PricesInv
<1> QED
  BY <1>1, PricesInit, PricesKept, PTL DEF Spec
-----------------------------------------------------------------------------
(***************************************************************************)
(* One event (five_crash_liquidity.py).                                    *)
(***************************************************************************)
EventTyped ==
    /\ discovery \in 1 .. MaxEdition /\ inventory \in Event!Inventories
    /\ raw \in [Event!Blocks -> Event!Inventories]
    /\ aggregates \in [Event!Blocks -> Event!Inventories]
    /\ checkpoint \in [Event!Blocks -> Event!Inventories]
    /\ run \in Event!Runs /\ work \in [Event!Blocks -> Event!Works]

\* The stages of a run in which blocks are completed.
Filing == {"pool", "drain", "publish", "index"}

\* Nothing prepares the inventories while rows are made of them.
RowsCurrent == run.at \in Filing \cup {"resume"} => run.fingerprint = inventory

\* What a worker has is made of the inventories there are; what it is through with
\* is on disk.
WorkCurrent ==
    /\ run.at \notin Filing \cup {"check"} => \A b \in Event!Blocks : work[b].at = "none"
    /\ \A b \in Event!Blocks :
          /\ work[b].at # "none" => work[b].made = inventory
          /\ work[b].at \in {"routed", "done"} => raw[b] = inventory
          /\ work[b].at = "done" => aggregates[b] = inventory

\* Workers are at blocks that are pending; the others are left alone.
WorkPending ==
    run.at \in Filing =>
        /\ run.pending \subseteq run.wanted
        /\ \A b \in Event!Blocks : work[b].at \in {"direct", "routed", "failed"} => b \in run.pending
        /\ run.at \in {"publish", "index"} => run.pending = {}

\* A block that is completed has its row, its record and its artifacts.
BlocksCompleted ==
    run.at \in Filing =>
        /\ \A b \in run.wanted \ run.pending :
              /\ run.completed[b] = run.fingerprint /\ checkpoint[b] = run.fingerprint
              /\ raw[b] = run.fingerprint /\ aggregates[b] = run.fingerprint
        /\ \A b \in Event!Blocks :
              b \notin run.wanted \ run.pending => run.completed[b] = Event!NoInventory

RowsPublished == run.at = "index" => sources = run.completed

EventInv ==
    /\ EventTyped /\ RowsCurrent /\ WorkCurrent /\ WorkPending /\ BlocksCompleted
    /\ RowsPublished

LEMMA NoInventoryTyped ==
    /\ Event!NoInventory \in Event!Inventories
    /\ \A e \in 1 .. MaxEdition : e \in 0 .. MaxEdition
    /\ 1 \in 1 .. MaxEdition /\ 1 \in 1 .. NumFiles + 1 /\ 1 \in Event!Blocks
<1>1. {NumBlocks, NumFiles, MaxEdition} \subseteq Nat \ {0}
  BY ResearchAssumption DEF Event!CrashEventAssumption
<1> QED
  BY <1>1 DEF Event!NoInventory, Event!Inventories, Event!Blocks

LEMMA NoRunTyped ==
    /\ Event!NoRun \in Event!Runs /\ Event!NoRun.at = "idle"
    /\ \A spot \in Event!Quiet \cup {"prepare"} :
          /\ [Event!NoRun EXCEPT !.at = spot] \in Event!Runs
          /\ [Event!NoRun EXCEPT !.at = spot].at = spot
    /\ \A spot \in {"prepare", "resume"}, wanted \in SUBSET Event!Blocks,
          fingerprint \in Event!Inventories :
          [Event!NoRun EXCEPT !.at = spot, !.wanted = wanted, !.fingerprint = fingerprint]
             \in Event!Runs
<1>1. [b \in Event!Blocks |-> Event!NoInventory] \in [Event!Blocks -> Event!Inventories]
  BY NoInventoryTyped
<1>2. Event!NoRun \in Event!Runs /\ Event!NoRun.at = "idle"
  BY <1>1, NoInventoryTyped DEF Event!NoRun, Event!Runs, Event!Quiet
<1>3. ASSUME NEW spot \in Event!Quiet \cup {"prepare"}
      PROVE  /\ [Event!NoRun EXCEPT !.at = spot] \in Event!Runs
             /\ [Event!NoRun EXCEPT !.at = spot].at = spot
  BY <1>2 DEF Event!Runs
<1>4. ASSUME NEW spot \in {"prepare", "resume"}, NEW wanted \in SUBSET Event!Blocks,
             NEW fingerprint \in Event!Inventories
      PROVE  [Event!NoRun EXCEPT !.at = spot, !.wanted = wanted, !.fingerprint = fingerprint]
                \in Event!Runs
  BY <1>2 DEF Event!Runs
<1> QED
  BY <1>2, <1>3, <1>4

LEMMA NoWorkTyped ==
    /\ Event!NoWork \in [Event!Blocks -> Event!Works]
    /\ \A b \in Event!Blocks : Event!NoWork[b].at = "none"
  BY NoInventoryTyped DEF Event!NoWork, Event!Works

LEMMA EventInit == Init => EventInv
<1> SUFFICES ASSUME Init PROVE EventInv
  OBVIOUS
<1>1. Event!Init
  BY DEF Init
<1>2. Event!NoRun.at = "idle" /\ Event!NoRun \in Event!Runs
  BY NoRunTyped
<1>3. /\ run = Event!NoRun /\ work = Event!NoWork /\ discovery = 1
      /\ inventory = Event!NoInventory /\ raw = [b \in Event!Blocks |-> Event!NoInventory]
      /\ aggregates = raw /\ checkpoint = raw
  BY <1>1 DEF Event!Init
<1>4. EventTyped
  BY <1>2, <1>3, NoWorkTyped, NoInventoryTyped DEF EventTyped
<1> QED
  BY <1>2, <1>3, <1>4, NoWorkTyped
     DEF EventInv, RowsCurrent, WorkCurrent, WorkPending, BlocksCompleted, RowsPublished, Filing

\* A run that begins or is over has no workers and claims nothing.
LEMMA RunReset ==
    ASSUME EventInv, run' \in Event!Runs, run'.at \in Event!Quiet \cup {"prepare", "resume"},
           run'.at = "resume" => run'.fingerprint = inventory',
           work' \in [Event!Blocks -> Event!Works],
           \A b \in Event!Blocks : work'[b].at = "none",
           UNCHANGED <<discovery, raw, aggregates, checkpoint>>,
           inventory' \in Event!Inventories
    PROVE  EventInv'
<1>1. EventTyped'
  BY DEF EventInv, EventTyped
<1>2. run'.at \notin Filing /\ (run'.at = "resume" => run'.fingerprint = inventory')
  BY DEF Filing, Event!Quiet
<1> QED
  BY <1>1, <1>2
     DEF EventInv, RowsCurrent, WorkCurrent, WorkPending, BlocksCompleted, RowsPublished, Filing

LEMMA StartDenseKeeps ==
    ASSUME EventInv, NEW wanted \in SUBSET Event!Blocks, Event!StartDense(wanted) PROVE EventInv'
<1> DEFINE spot == IF Event!Prepared THEN "resume" ELSE "prepare"
           fingerprint == IF Event!Prepared THEN inventory ELSE Event!NoInventory
           next == [Event!NoRun EXCEPT !.at = spot, !.wanted = wanted,
                                       !.fingerprint = fingerprint]
<1>1. /\ run' = next /\ run.at \in Event!Quiet
      /\ UNCHANGED <<discovery, inventory, raw, aggregates, checkpoint, work>>
  BY DEF Event!StartDense, Event!Products
<1>2. spot \in {"prepare", "resume"} /\ fingerprint \in Event!Inventories
      /\ (spot = "resume" => fingerprint = inventory)
  BY NoInventoryTyped DEF EventInv, EventTyped
<1> HIDE DEF spot, fingerprint
<1>3. next \in Event!Runs
  BY <1>2, NoRunTyped
<1>4. next.at = spot /\ next.fingerprint = fingerprint
  <2>1. Event!NoRun \in Event!Runs
    BY NoRunTyped
  <2> QED
    BY <2>1 DEF Event!Runs
<1> HIDE DEF next
<1>5. work \in [Event!Blocks -> Event!Works] /\ \A b \in Event!Blocks : work[b].at = "none"
  BY <1>1 DEF EventInv, EventTyped, WorkCurrent, Event!Quiet, Filing
<1> QED
  BY <1>1, <1>2, <1>3, <1>4, <1>5, RunReset DEF EventInv, EventTyped

LEMMA StartCheckKeeps == ASSUME EventInv, Event!StartCheck PROVE EventInv'
<1> DEFINE next == [Event!NoRun EXCEPT !.at = "prepare"]
<1>1. /\ run' = next /\ run.at \in Event!Quiet
      /\ UNCHANGED <<discovery, inventory, raw, aggregates, checkpoint, work>>
  BY DEF Event!StartCheck, Event!Products
<1>3. next \in Event!Runs /\ next.at = "prepare"
  BY NoRunTyped
<1> HIDE DEF next
<1>4. work \in [Event!Blocks -> Event!Works] /\ \A b \in Event!Blocks : work[b].at = "none"
  BY <1>1 DEF EventInv, EventTyped, WorkCurrent, Event!Quiet, Filing
<1> QED
  BY <1>1, <1>3, <1>4, RunReset DEF EventInv, EventTyped

LEMMA PrepareFileKeeps == ASSUME EventInv, Event!PrepareFile PROVE EventInv'
<1> DEFINE next == [run EXCEPT !.file = run.file + 1]
<1>1. /\ run' = next /\ run.at = "prepare" /\ run.file <= NumFiles
      /\ inventory' = [inventory EXCEPT ![run.file] = discovery]
      /\ UNCHANGED <<discovery, raw, aggregates, checkpoint, work>>
  BY DEF Event!PrepareFile, Event!Products
<1>2. run \in Event!Runs /\ run.file \in 1 .. NumFiles + 1 /\ NumFiles \in Nat
  BY ResearchAssumption DEF EventInv, EventTyped, Event!Runs, Event!CrashEventAssumption
<1>3. run.file + 1 \in 1 .. NumFiles + 1
  BY <1>1, <1>2
<1>4. next \in Event!Runs /\ next.at = "prepare"
  BY <1>1, <1>2, <1>3 DEF Event!Runs
<1> HIDE DEF next
<1>5. inventory' \in Event!Inventories
  BY <1>1, NoInventoryTyped DEF EventInv, EventTyped, Event!Inventories
<1>6. work \in [Event!Blocks -> Event!Works] /\ \A b \in Event!Blocks : work[b].at = "none"
  BY <1>1 DEF EventInv, EventTyped, WorkCurrent, Event!Quiet, Filing
<1> QED
  BY <1>1, <1>4, <1>5, <1>6, RunReset

LEMMA PreparedNowKeeps == ASSUME EventInv, Event!PreparedNow PROVE EventInv'
<1>1. /\ run \in Event!Runs /\ work \in [Event!Blocks -> Event!Works]
      /\ inventory \in Event!Inventories /\ run.at = "prepare"
      /\ UNCHANGED <<discovery, inventory, raw, aggregates, checkpoint>>
  BY DEF EventInv, EventTyped, Event!PreparedNow, Event!Products
<1>2. CASE run' = [run EXCEPT !.at = "resume", !.fingerprint = inventory] /\ UNCHANGED work
  <2>1. run' \in Event!Runs /\ run'.at = "resume" /\ run'.fingerprint = inventory
    BY <1>1, <1>2 DEF Event!Runs
  <2>2. \A b \in Event!Blocks : work[b].at = "none"
    BY <1>1 DEF EventInv, WorkCurrent, Filing
  <2> QED
    BY <1>1, <1>2, <2>1, <2>2, RunReset
<1>3. CASE /\ run' = [run EXCEPT !.at = "check"]
           /\ work' = [Event!NoWork EXCEPT ![1] = [at |-> "direct", made |-> inventory]]
  <2>1. run' \in Event!Runs /\ run'.at = "check"
    BY <1>1, <1>3 DEF Event!Runs
  <2>2. [at |-> "direct", made |-> inventory] \in Event!Works
    BY <1>1 DEF Event!Works
  <2>3. /\ work' \in [Event!Blocks -> Event!Works]
        /\ \A b \in Event!Blocks :
              work'[b] = IF b = 1 THEN [at |-> "direct", made |-> inventory] ELSE Event!NoWork[b]
    BY <1>3, <2>2, NoWorkTyped, NoInventoryTyped
  <2>4. EventTyped'
    BY <1>1, <2>1, <2>3 DEF EventInv, EventTyped
  <2>5. \A b \in Event!Blocks :
           /\ work'[b].at \in {"direct", "none"}
           /\ work'[b].at # "none" => work'[b].made = inventory
    BY <2>3, NoWorkTyped
  <2>6. WorkCurrent'
    BY <1>1, <2>1, <2>5 DEF WorkCurrent
  <2> QED
    BY <2>1, <2>4, <2>6
       DEF EventInv, RowsCurrent, WorkPending, BlocksCompleted, RowsPublished, Filing
<1> QED
  BY <1>2, <1>3 DEF Event!PreparedNow

\* What is resumed are the wanted blocks whose record and artifacts are current.
LEMMA ResumeKeeps == ASSUME EventInv, Event!Resume PROVE EventInv'
<1> DEFINE valid == {b \in run.wanted : Event!RecordIsValid(b)}
           rows1 == [b \in Event!Blocks |-> IF b \in valid THEN checkpoint[b]
                                            ELSE Event!NoInventory]
           spot == IF valid = run.wanted THEN "publish" ELSE "pool"
           next == [run EXCEPT !.at = spot, !.completed = rows1, !.pending = run.wanted \ valid]
<1>1. /\ run \in Event!Runs /\ run.wanted \subseteq Event!Blocks /\ run.at = "resume"
      /\ checkpoint \in [Event!Blocks -> Event!Inventories]
      /\ run.fingerprint = inventory
      /\ \A b \in Event!Blocks : work[b].at = "none"
  BY DEF EventInv, EventTyped, Event!Runs, Event!Resume, RowsCurrent, WorkCurrent, Filing
<1>2. run' = next /\ UNCHANGED <<discovery, inventory, raw, aggregates, checkpoint, sources, work>>
  BY DEF Event!Resume, Event!Products
<1>3. rows1 \in [Event!Blocks -> Event!Inventories]
  BY <1>1, NoInventoryTyped
<1>4. valid \subseteq run.wanted /\ spot \in {"publish", "pool"}
      /\ (spot = "publish" => valid = run.wanted)
  OBVIOUS
<1>5. \A b \in valid : /\ checkpoint[b] = run.fingerprint /\ raw[b] = run.fingerprint
                       /\ aggregates[b] = run.fingerprint
  BY DEF Event!RecordIsValid
<1>6. \A b \in Event!Blocks : rows1[b] = IF b \in valid THEN checkpoint[b] ELSE Event!NoInventory
  OBVIOUS
<1> HIDE DEF valid, rows1, spot
<1>7. /\ next \in Event!Runs /\ next.at = spot /\ next.completed = rows1
      /\ next.pending = run.wanted \ valid /\ next.wanted = run.wanted
      /\ next.fingerprint = run.fingerprint
  BY <1>1, <1>3, <1>4 DEF Event!Runs
<1> HIDE DEF next
<1>8. EventTyped' /\ RowsCurrent'
  BY <1>1, <1>2, <1>7 DEF EventInv, EventTyped, RowsCurrent
<1>9. WorkCurrent' /\ WorkPending'
  BY <1>1, <1>2, <1>4, <1>7 DEF WorkCurrent, WorkPending
<1>10. run.wanted \ next.pending = valid
  BY <1>4, <1>7
<1>11. BlocksCompleted'
  <2>1. \A b \in run.wanted \ next.pending :
           /\ next.completed[b] = next.fingerprint /\ checkpoint[b] = next.fingerprint
           /\ raw[b] = next.fingerprint /\ aggregates[b] = next.fingerprint
    BY <1>1, <1>5, <1>6, <1>7, <1>10
  <2>2. \A b \in Event!Blocks :
           b \notin run.wanted \ next.pending => next.completed[b] = Event!NoInventory
    BY <1>6, <1>7, <1>10
  <2> QED
    BY <1>2, <1>7, <2>1, <2>2 DEF BlocksCompleted
<1>12. RowsPublished'
  BY <1>2, <1>4, <1>7 DEF RowsPublished
<1> QED
  BY <1>8, <1>9, <1>11, <1>12 DEF EventInv

\* A worker goes on with a block: the run, its records and the other blocks'
\* artifacts stay.
LEMMA WorkMoves ==
    ASSUME EventInv, NEW b \in Event!Blocks, NEW next \in Event!Works,
           work' = [work EXCEPT ![b] = next],
           run.at \in Filing \cup {"check"}, run.at \in Filing => b \in run.pending,
           next.at # "none", next.made = inventory,
           next.at \in {"routed", "done"} => raw'[b] = inventory,
           next.at = "done" => aggregates'[b] = inventory,
           raw' \in [Event!Blocks -> Event!Inventories],
           aggregates' \in [Event!Blocks -> Event!Inventories],
           \A c \in Event!Blocks \ {b} : raw'[c] = raw[c] /\ aggregates'[c] = aggregates[c],
           UNCHANGED <<discovery, inventory, checkpoint, sources, run>>
    PROVE  EventInv'
<1>1. /\ work' \in [Event!Blocks -> Event!Works] /\ work'[b] = next
      /\ \A c \in Event!Blocks \ {b} : work'[c] = work[c]
  BY DEF EventInv, EventTyped
<1>2. EventTyped' /\ RowsCurrent' /\ RowsPublished'
  BY <1>1 DEF EventInv, EventTyped, RowsCurrent, RowsPublished
<1>3. WorkCurrent' /\ WorkPending'
  BY <1>1 DEF EventInv, WorkCurrent, WorkPending
<1>4. BlocksCompleted'
  <2> SUFFICES ASSUME run.at \in Filing PROVE BlocksCompleted'
    BY DEF BlocksCompleted
  <2>1. run.wanted \subseteq Event!Blocks /\ b \in run.pending
    BY DEF EventInv, EventTyped, Event!Runs
  <2>2. ASSUME NEW c \in run.wanted \ run.pending
        PROVE  raw'[c] = raw[c] /\ aggregates'[c] = aggregates[c]
    BY <2>1
  <2> QED
    BY <2>2 DEF EventInv, BlocksCompleted
<1> QED
  BY <1>2, <1>3, <1>4 DEF EventInv

LEMMA WorkTyped ==
    ASSUME EventInv, NEW b \in Event!Blocks
    PROVE  /\ work[b] \in Event!Works /\ inventory \in Event!Inventories
           /\ raw \in [Event!Blocks -> Event!Inventories]
           /\ aggregates \in [Event!Blocks -> Event!Inventories]
           /\ work \in [Event!Blocks -> Event!Works]
           /\ work[b].at # "none" => work[b].made = inventory /\ run.at \in Filing \cup {"check"}
           /\ work[b].at \in {"routed", "done"} => raw[b] = inventory
           /\ work[b].at \in {"direct", "routed", "failed"} /\ run.at \in Filing => b \in run.pending
  BY DEF EventInv, EventTyped, WorkCurrent, WorkPending

LEMMA TakeKeeps == ASSUME EventInv, NEW b \in Event!Blocks, Event!Take(b) PROVE EventInv'
<1> DEFINE next == [at |-> "direct", made |-> inventory]
<1>1. /\ work' = [work EXCEPT ![b] = next] /\ run.at \in {"pool", "drain"} /\ b \in run.pending
      /\ UNCHANGED <<discovery, inventory, raw, aggregates, checkpoint, sources, run>>
  BY DEF Event!Take, Event!Products
<1>2. next \in Event!Works /\ next.at = "direct" /\ next.made = inventory
  BY WorkTyped DEF Event!Works
<1> HIDE DEF next
<1> QED
  BY <1>1, <1>2, WorkMoves, WorkTyped DEF Filing

LEMMA DirectKeeps == ASSUME EventInv, NEW b \in Event!Blocks, Event!Direct(b) PROVE EventInv'
<1> DEFINE next == [work[b] EXCEPT !.at = "routed"]
<1>1. /\ work' = [work EXCEPT ![b] = next] /\ work[b].at = "direct"
      /\ raw' = [raw EXCEPT ![b] = work[b].made]
      /\ UNCHANGED <<discovery, inventory, aggregates, checkpoint, sources, run>>
  BY DEF Event!Direct
<1>2. next \in Event!Works /\ next.at = "routed" /\ next.made = work[b].made
  BY WorkTyped DEF Event!Works
<1>3. work[b].made = inventory
  BY <1>1, WorkTyped
<1> HIDE DEF next
<1> QED
  BY <1>1, <1>2, <1>3, WorkMoves, WorkTyped

LEMMA RoutedKeeps == ASSUME EventInv, NEW b \in Event!Blocks, Event!Routed(b) PROVE EventInv'
<1> DEFINE next == [work[b] EXCEPT !.at = "done"]
<1>1. /\ work' = [work EXCEPT ![b] = next] /\ work[b].at = "routed"
      /\ aggregates' = [aggregates EXCEPT ![b] = work[b].made]
      /\ UNCHANGED <<discovery, inventory, raw, checkpoint, sources, run>>
  BY DEF Event!Routed
<1>2. next \in Event!Works /\ next.at = "done" /\ next.made = work[b].made
  BY WorkTyped DEF Event!Works
<1>3. work[b].made = inventory
  BY <1>1, WorkTyped
<1> HIDE DEF next
<1> QED
  BY <1>1, <1>2, <1>3, WorkMoves, WorkTyped

LEMMA WorkFailsKeeps ==
    ASSUME EventInv, NEW b \in Event!Blocks, Event!WorkFails(b) PROVE EventInv'
<1> DEFINE next == [work[b] EXCEPT !.at = "failed"]
<1>1. /\ work' = [work EXCEPT ![b] = next] /\ work[b].at \in {"direct", "routed"}
      /\ UNCHANGED <<discovery, inventory, raw, aggregates, checkpoint, sources, run>>
  BY DEF Event!WorkFails, Event!Products
<1>2. next \in Event!Works /\ next.at = "failed" /\ next.made = work[b].made
  BY WorkTyped DEF Event!Works
<1>3. work[b].made = inventory
  BY <1>1, WorkTyped
<1> HIDE DEF next
<1> QED
  BY <1>1, <1>2, <1>3, WorkMoves, WorkTyped

\* The row that is filed was made of the inventories there are; the checkpoint has
\* all rows so far.
LEMMA FileRowKeeps == ASSUME EventInv, NEW b \in Event!Blocks, Event!FileRow(b) PROVE EventInv'
<1> DEFINE rows1 == [run.completed EXCEPT ![b] = run.fingerprint]
           spot == IF run.pending = {b} THEN "publish" ELSE "pool"
           next == [run EXCEPT !.completed = rows1, !.pending = run.pending \ {b}, !.at = spot]
<1>1. /\ run \in Event!Runs /\ run.completed \in [Event!Blocks -> Event!Inventories]
      /\ run.fingerprint \in Event!Inventories /\ run.at = "pool"
      /\ b \in run.pending /\ run.pending \subseteq run.wanted /\ run.wanted \subseteq Event!Blocks
      /\ run.fingerprint = inventory /\ work[b].at = "done"
  BY DEF EventInv, EventTyped, Event!Runs, Event!FileRow, RowsCurrent, WorkPending, Filing
<1>2. raw[b] = inventory /\ aggregates[b] = inventory
  BY <1>1 DEF EventInv, WorkCurrent
<1>3. Event!Filed(b) = next
  BY <1>1 DEF Event!Filed, Event!Runs
<1>4. rows1 \in [Event!Blocks -> Event!Inventories] /\ rows1[b] = run.fingerprint
      /\ \A c \in Event!Blocks \ {b} : rows1[c] = run.completed[c]
  BY <1>1
<1>5. spot \in {"publish", "pool"} /\ (spot = "publish" => run.pending = {b})
  OBVIOUS
<1> HIDE DEF rows1, spot
<1>6. /\ next \in Event!Runs /\ next.at = spot /\ next.completed = rows1
      /\ next.pending = run.pending \ {b} /\ next.wanted = run.wanted
      /\ next.fingerprint = run.fingerprint
  BY <1>1, <1>4, <1>5 DEF Event!Runs
<1> HIDE DEF next
<1>7. /\ run' = next /\ checkpoint' = rows1
      /\ UNCHANGED <<discovery, inventory, raw, aggregates, sources, work>>
  BY <1>3, <1>6 DEF Event!FileRow
<1>8. EventTyped' /\ RowsCurrent'
  BY <1>1, <1>4, <1>6, <1>7 DEF EventInv, EventTyped, RowsCurrent
<1>9. WorkCurrent'
  BY <1>1, <1>5, <1>6, <1>7 DEF EventInv, WorkCurrent, Filing
<1>10. WorkPending'
  <2>1. ASSUME NEW c \in Event!Blocks, work[c].at \in {"direct", "routed", "failed"}
        PROVE  c \in run.pending \ {b}
    BY <1>1, <2>1 DEF EventInv, WorkPending, Filing
  <2> QED
    BY <1>1, <1>5, <1>6, <1>7, <2>1 DEF WorkPending
<1>11. BlocksCompleted'
  <2>1. ASSUME NEW c \in run.wanted \ (run.pending \ {b})
        PROVE  /\ rows1[c] = run.fingerprint
               /\ raw[c] = run.fingerprint /\ aggregates[c] = run.fingerprint
    <3>1. CASE c = b
      BY <1>1, <1>2, <1>4, <3>1
    <3>2. CASE c # b
      BY <1>1, <1>4, <3>2 DEF EventInv, BlocksCompleted, Filing
    <3> QED
      BY <3>1, <3>2
  <2>2. ASSUME NEW c \in Event!Blocks, c \notin run.wanted \ (run.pending \ {b})
        PROVE  rows1[c] = Event!NoInventory
    <3>1. c # b /\ c \notin run.wanted \ run.pending
      BY <1>1, <2>2
    <3> QED
      BY <1>1, <1>4, <3>1 DEF EventInv, BlocksCompleted, Filing
  <2> QED
    BY <1>6, <1>7, <2>1, <2>2 DEF BlocksCompleted
<1>12. RowsPublished'
  BY <1>5, <1>6, <1>7 DEF RowsPublished
<1> QED
  BY <1>8, <1>9, <1>10, <1>11, <1>12 DEF EventInv

\* The run goes from one stage of filing to another.
LEMMA StageKeeps ==
    ASSUME EventInv, (\E b \in Event!Blocks : Event!FailSeen(b)) \/ Event!Publish
    PROVE  EventInv'
<1>1. PICK spot \in {"drain", "index"} :
         /\ run' = [run EXCEPT !.at = spot] /\ run.at \in Filing
         /\ spot = "index" => run.at = "publish" /\ sources' = run.completed
  BY DEF Event!FailSeen, Event!Publish, Filing
<1>2. UNCHANGED <<discovery, inventory, raw, aggregates, checkpoint, work>>
  BY DEF Event!FailSeen, Event!Publish, Event!Products
<1>3. run \in Event!Runs
  BY DEF EventInv, EventTyped
<1>4. /\ run' \in Event!Runs /\ run'.at = spot /\ run'.completed = run.completed
      /\ run'.pending = run.pending /\ run'.wanted = run.wanted
      /\ run'.fingerprint = run.fingerprint
  BY <1>1, <1>3 DEF Event!Runs
<1>5. EventTyped' /\ RowsCurrent'
  BY <1>1, <1>2, <1>4 DEF EventInv, EventTyped, RowsCurrent
<1>6. WorkCurrent' /\ WorkPending'
  BY <1>1, <1>2, <1>4 DEF EventInv, WorkCurrent, WorkPending, Filing
<1>7. BlocksCompleted' /\ RowsPublished'
  BY <1>1, <1>2, <1>4 DEF EventInv, BlocksCompleted, RowsPublished
<1> QED
  BY <1>5, <1>6, <1>7 DEF EventInv

LEMMA StopKeeps ==
    ASSUME EventInv, Event!Raise \/ Event!Index \/ Event!Crash PROVE EventInv'
<1>1. /\ UNCHANGED <<discovery, inventory, raw, aggregates, checkpoint>> /\ work' = Event!NoWork
      /\ \/ run' = Event!NoRun
         \/ \E spot \in {"raised", "returned"} : run' = [Event!NoRun EXCEPT !.at = spot]
  BY DEF Event!Raise, Event!Index, Event!Crash, Event!Products
<1>2. run' \in Event!Runs /\ run'.at \in Event!Quiet
  BY <1>1, NoRunTyped DEF Event!Quiet
<1>3. inventory' \in Event!Inventories
  BY <1>1 DEF EventInv, EventTyped
<1> QED
  BY <1>1, <1>2, <1>3, NoWorkTyped, RunReset DEF Event!Quiet

LEMMA EventKept == EventInv /\ [Next]_vars => EventInv'
<1> SUFFICES ASSUME EventInv, [Next]_vars PROVE EventInv'
  OBVIOUS
<1>1. ASSUME NEW b \in Event!Blocks,
             \/ Event!Take(b) \/ Event!Direct(b) \/ Event!Routed(b) \/ Event!FileRow(b)
             \/ Event!FailSeen(b) \/ Event!WorkFails(b)
      PROVE  EventInv'
  BY <1>1, TakeKeeps, DirectKeeps, RoutedKeeps, FileRowKeeps, StageKeeps, WorkFailsKeeps
<1>2. ASSUME NEW wanted \in SUBSET Event!Blocks \ {{}}, Event!StartDense(wanted) PROVE EventInv'
  BY <1>2, StartDenseKeeps
<1>3. CASE \/ Event!StartCheck \/ Event!PrepareFile \/ Event!PreparedNow \/ Event!Resume
           \/ Event!Raise \/ Event!Publish \/ Event!Index \/ Event!Crash
  BY <1>3, StartCheckKeeps, PrepareFileKeeps, PreparedNowKeeps, ResumeKeeps, StageKeeps, StopKeeps
<1>4. CASE Event!DiscoveryChanges
  <2>1. /\ discovery' \in 1 .. MaxEdition
        /\ UNCHANGED <<inventory, raw, aggregates, checkpoint, sources, run, work>>
    BY <1>4 DEF Event!DiscoveryChanges, Event!Products
  <2> QED
    BY <2>1 DEF EventInv, EventTyped, RowsCurrent, WorkCurrent, WorkPending, BlocksCompleted,
                RowsPublished
<1>5. CASE UNCHANGED eventVars
  BY <1>5 DEF eventVars, EventInv, EventTyped, RowsCurrent, WorkCurrent, WorkPending,
              BlocksCompleted, RowsPublished
<1> QED
  BY <1>1, <1>2, <1>3, <1>4, <1>5, OwnSteps DEF Event!Next, Event!EventStep

LEMMA EventInductive == Spec => []EventInv
  BY EventInit, EventKept, PTL DEF Spec

\* An event's inventories are all there unless they are being written, and so are
\* those that a run or a published row names; a run that writes them ends only
\* when it is through.
Entire(f) == \A n \in 1 .. NumFiles : f[n] # 0

EntireInv ==
    /\ run.at = "prepare" => \A n \in 1 .. NumFiles : n < run.file => inventory[n] # 0
    /\ run.at # "prepare" => inventory = Event!NoInventory \/ Entire(inventory)
    /\ run.at \in Filing \cup {"resume"} => Entire(run.fingerprint)
    /\ \A b \in Event!Blocks : sources[b] = Event!NoInventory \/ Entire(sources[b])

LEMMA EntireInit == Init => EntireInv
<1> SUFFICES ASSUME Init PROVE EntireInv
  OBVIOUS
<1>1. /\ run.at = "idle" /\ inventory = Event!NoInventory
      /\ sources = [b \in Event!Blocks |-> Event!NoInventory]
  BY NoRunTyped DEF Init, Event!Init
<1> QED
  BY <1>1 DEF EntireInv, Filing

LEMMA StartsEntire ==
    ASSUME EventInv, EntireInv,
           Event!StartCheck \/ \E wanted \in SUBSET Event!Blocks \ {{}} : Event!StartDense(wanted)
    PROVE  EntireInv'
<1>1. /\ UNCHANGED <<inventory, sources>> /\ run.at \in Event!Quiet
      /\ inventory \in Event!Inventories
  BY DEF Event!StartCheck, Event!StartDense, Event!Products, EventInv, EventTyped
<1>2. inventory = Event!NoInventory \/ Entire(inventory)
  BY <1>1 DEF EntireInv, Event!Quiet
<1>3. /\ run'.at \in {"prepare", "resume"} /\ (run'.at = "prepare" => run'.file = 1)
      /\ run'.at = "resume" => run'.fingerprint = inventory /\ inventory # Event!NoInventory
  <2>1. CASE Event!StartCheck
    BY <2>1 DEF Event!StartCheck, Event!NoRun
  <2>2. ASSUME NEW wanted \in SUBSET Event!Blocks, Event!StartDense(wanted)
        PROVE  /\ run'.at \in {"prepare", "resume"} /\ (run'.at = "prepare" => run'.file = 1)
               /\ run'.at = "resume" => /\ run'.fingerprint = inventory
                                       /\ inventory # Event!NoInventory
    <3>1. CASE Event!Prepared
      BY <2>2, <3>1 DEF Event!StartDense, Event!Prepared, Event!NoRun
    <3>2. CASE ~ Event!Prepared
      BY <2>2, <3>2 DEF Event!StartDense, Event!Prepared, Event!NoRun
    <3> QED
      BY <3>1, <3>2
  <2> QED
    BY <2>1, <2>2
<1> QED
  BY <1>1, <1>2, <1>3 DEF EntireInv, Filing

LEMMA PreparesEntire ==
    ASSUME EventInv, EntireInv, Event!PrepareFile \/ Event!PreparedNow PROVE EntireInv'
<1>1. /\ run.at = "prepare" /\ UNCHANGED sources /\ run \in Event!Runs
      /\ discovery \in 1 .. MaxEdition /\ inventory \in Event!Inventories
      /\ run.file \in 1 .. NumFiles + 1 /\ NumFiles \in Nat
      /\ \A n \in 1 .. NumFiles : n < run.file => inventory[n] # 0
  BY ResearchAssumption
     DEF Event!PrepareFile, Event!PreparedNow, Event!Products, EventInv, EventTyped, Event!Runs,
         EntireInv, Event!CrashEventAssumption
<1>2. CASE Event!PrepareFile
  <2>1. /\ run.file <= NumFiles /\ inventory' = [inventory EXCEPT ![run.file] = discovery]
        /\ run'.at = "prepare" /\ run'.file = run.file + 1
    BY <1>1, <1>2 DEF Event!PrepareFile, Event!Runs
  <2>2. \A n \in 1 .. NumFiles : n < run'.file => inventory'[n] # 0
    BY <1>1, <2>1 DEF Event!Inventories
  <2> QED
    BY <1>1, <2>1, <2>2 DEF EntireInv, Filing
<1>3. CASE Event!PreparedNow
  <2>1. /\ run.file > NumFiles /\ UNCHANGED inventory /\ run'.at \in {"resume", "check"}
        /\ run'.at = "resume" => run'.fingerprint = inventory
    BY <1>1, <1>3 DEF Event!PreparedNow, Event!Runs
  <2>2. Entire(inventory)
    BY <1>1, <2>1 DEF Entire
  <2> QED
    BY <1>1, <2>1, <2>2 DEF EntireInv, Filing
<1> QED
  BY <1>2, <1>3

\* Other steps leave the inventories alone; what they publish is what was completed.
LEMMA RunsEntire ==
    ASSUME EventInv, EntireInv, UNCHANGED inventory, run.at # "prepare", run'.at # "prepare",
           run'.at \in Filing \cup {"resume"} =>
              run.at \in Filing \cup {"resume"} /\ run'.fingerprint = run.fingerprint,
           UNCHANGED sources \/ Event!Publish
    PROVE  EntireInv'
<1>1. CASE UNCHANGED sources
  BY <1>1 DEF EntireInv
<1>2. CASE Event!Publish
  <2>1. sources' = run.completed /\ run.at = "publish"
    BY <1>2 DEF Event!Publish
  <2>2. \A b \in Event!Blocks :
           run.completed[b] \in {run.fingerprint, Event!NoInventory}
    BY <2>1 DEF EventInv, BlocksCompleted, Filing
  <2>3. Entire(run.fingerprint)
    BY <2>1 DEF EntireInv, Filing
  <2> QED
    BY <2>1, <2>2, <2>3 DEF EntireInv
<1> QED
  BY <1>1, <1>2

LEMMA EntireKept ==
    ASSUME ~ PrepareDies, EventInv, EntireInv, [Next]_vars PROVE EntireInv'
<1>1. CASE Event!StartCheck \/ \E wanted \in SUBSET Event!Blocks \ {{}} : Event!StartDense(wanted)
  BY <1>1, StartsEntire
<1>2. CASE Event!PrepareFile \/ Event!PreparedNow
  BY <1>2, PreparesEntire
<1>3. run \in Event!Runs
  BY DEF EventInv, EventTyped
<1>4. ASSUME NEW b \in Event!Blocks,
             \/ Event!Take(b) \/ Event!Direct(b) \/ Event!Routed(b) \/ Event!WorkFails(b)
      PROVE  EntireInv'
  BY <1>4
     DEF EntireInv, Event!Products, Event!Take, Event!Direct, Event!Routed, Event!WorkFails
<1>5. ASSUME NEW b \in Event!Blocks, Event!FileRow(b) \/ Event!FailSeen(b) PROVE EntireInv'
  <2>1. /\ UNCHANGED <<inventory, sources>> /\ run.at = "pool" /\ run'.fingerprint = run.fingerprint
        /\ run'.at \in {"publish", "pool", "drain"}
    BY <1>3, <1>5 DEF Event!FileRow, Event!FailSeen, Event!Filed, Event!Products, Event!Runs
  <2> QED
    BY <2>1, RunsEntire DEF Filing
<1>6. CASE Event!Resume \/ Event!Publish
  <2>1. /\ UNCHANGED inventory /\ run.at \in {"resume", "publish"}
        /\ run'.fingerprint = run.fingerprint /\ run'.at \in {"publish", "pool", "index"}
        /\ UNCHANGED sources \/ Event!Publish
    BY <1>3, <1>6 DEF Event!Resume, Event!Publish, Event!Products, Event!Runs
  <2> QED
    BY <2>1, RunsEntire DEF Filing
<1>7. CASE Event!Raise \/ Event!Index \/ Event!Crash
  <2>1. /\ UNCHANGED <<inventory, sources>> /\ run.at # "prepare"
        /\ run'.at \in {"idle", "raised", "returned"}
    <3>1. CASE Event!Raise
      BY <3>1, NoRunTyped DEF Event!Raise, Event!Products, Event!Quiet
    <3>2. CASE Event!Index
      BY <3>2, NoRunTyped DEF Event!Index, Event!Quiet
    <3>3. CASE Event!Crash
      <4>1. run.at = "prepare" => PrepareDies
        BY <3>3 DEF Event!Crash
      <4>2. run.at # "prepare"
        BY <4>1, Zenon
      <4> QED
        BY <3>3, <4>2, NoRunTyped DEF Event!Crash, Event!Products
    <3> QED
      BY <1>7, <3>1, <3>2, <3>3
  <2> QED
    BY <2>1, RunsEntire DEF Filing
<1>8. CASE Event!DiscoveryChanges \/ UNCHANGED eventVars
  BY <1>8 DEF EntireInv, Event!DiscoveryChanges, Event!Products, eventVars
<1> QED
  BY <1>1, <1>2, <1>4, <1>5, <1>6, <1>7, <1>8, OwnSteps DEF Event!Next, Event!EventStep

\* Each row a run publishes was made of the inventories there are, and so were the
\* artifacts it points to, for any number of blocks, workers, inventories, runs,
\* checks, failures and deaths (run_dense_event, _checkpoint_record_is_valid); and
\* the inventories are all there, unless a run dies while it prepares them.
THEOREM PublishedRowsCohere == Spec => []PublishedCoherent
<1>1. ASSUME EventInv PROVE Event!PublishedCoherent
  <2> SUFFICES ASSUME run.at = "index", NEW b \in Event!Rows(sources)
               PROVE  {sources[b], raw[b], aggregates[b]} = {inventory}
    BY DEF Event!PublishedCoherent
  <2>1. b \in Event!Blocks /\ sources[b] # Event!NoInventory /\ sources = run.completed
    BY <1>1 DEF Event!Rows, EventInv, RowsPublished
  <2>2. b \in run.wanted \ run.pending
    BY <1>1, <2>1 DEF EventInv, BlocksCompleted, Filing
  <2>3. /\ sources[b] = run.fingerprint /\ raw[b] = run.fingerprint
        /\ aggregates[b] = run.fingerprint /\ run.fingerprint = inventory
    BY <1>1, <2>1, <2>2 DEF EventInv, BlocksCompleted, RowsCurrent, Filing
  <2> QED
    BY <2>3
<1>2. EntireInv => Event!InventoriesWhole
  BY DEF EntireInv, Entire, Event!InventoriesWhole, Event!Rows
<1>3. CASE PrepareDies
  <2>1. EventInv => PublishedCoherent
    BY <1>1, <1>3 DEF PublishedCoherent
  <2> QED
    BY <2>1, EventInductive, PTL
<1>4. CASE ~ PrepareDies
  <2>1. EventInv /\ EntireInv => PublishedCoherent
    BY <1>1, <1>2 DEF PublishedCoherent
  <2>2. EventInv /\ EntireInv /\ [Next]_vars => EntireInv'
    BY <1>4, EntireKept
  <2>3. Spec => []EntireInv
    BY <2>2, EntireInit, EventInductive, PTL DEF Spec
  <2> QED
    BY <2>1, <2>3, EventInductive, PTL
<1> QED
  BY <1>3, <1>4

\* What a run has resumed or filed can be resumed again, and no step takes it out
\* of the checkpoint, whatever fails (as_completed, _checkpoint_record_is_valid).
THEOREM RecordsAreKept == Spec => RecordsKept
<1> DEFINE Kept == run.at \in {"pool", "drain", "publish", "index"} =>
                      \A b \in run.wanted \ run.pending :
                          Event!RecordIsValid(b) /\ checkpoint'[b] = checkpoint[b]
<1>1. EventInv /\ [Next]_vars => [Kept]_eventVars
  <2> SUFFICES ASSUME EventInv, Event!Next, run.at \in Filing, NEW b \in run.wanted \ run.pending
               PROVE  Event!RecordIsValid(b) /\ checkpoint'[b] = checkpoint[b]
    BY OwnSteps DEF Filing, eventVars
  <2>1. Event!RecordIsValid(b)
    BY DEF EventInv, BlocksCompleted, Event!RecordIsValid
  <2>2. ASSUME NEW c \in Event!Blocks, Event!FileRow(c) PROVE checkpoint'[b] = checkpoint[b]
    <3>1. /\ run \in Event!Runs /\ run.completed \in [Event!Blocks -> Event!Inventories]
          /\ b \in Event!Blocks /\ c \in run.pending /\ b # c
      BY <2>2 DEF EventInv, EventTyped, Event!Runs, Event!FileRow
    <3>2. checkpoint' = [run.completed EXCEPT ![c] = run.fingerprint]
      BY <2>2, <3>1 DEF Event!FileRow, Event!Filed, Event!Runs
    <3>3. run.completed[b] = checkpoint[b]
      BY DEF EventInv, BlocksCompleted
    <3> QED
      BY <3>1, <3>2, <3>3
  <2>3. UNCHANGED checkpoint \/ \E c \in Event!Blocks : Event!FileRow(c)
    <3>1. ASSUME NEW c \in Event!Blocks,
                 \/ Event!Take(c) \/ Event!Direct(c) \/ Event!Routed(c) \/ Event!FailSeen(c)
                 \/ Event!WorkFails(c)
          PROVE  UNCHANGED checkpoint
      BY <3>1 DEF Event!Products, Event!Take, Event!Direct, Event!Routed, Event!FailSeen,
                  Event!WorkFails
    <3>2. ASSUME NEW wanted \in SUBSET Event!Blocks, Event!StartDense(wanted)
          PROVE  UNCHANGED checkpoint
      BY <3>2 DEF Event!Products, Event!StartDense
    <3>3. CASE \/ Event!StartCheck \/ Event!PrepareFile \/ Event!PreparedNow \/ Event!Resume
               \/ Event!Raise \/ Event!Publish \/ Event!Index \/ Event!Crash
               \/ Event!DiscoveryChanges
      BY <3>3 DEF Event!Products, Event!StartCheck, Event!PrepareFile, Event!PreparedNow,
                  Event!Resume, Event!Raise, Event!Publish, Event!Index, Event!Crash,
                  Event!DiscoveryChanges
    <3> QED
      BY <3>1, <3>2, <3>3 DEF Event!Next, Event!EventStep
  <2> QED
    BY <2>1, <2>2, <2>3
<1>2. [][Kept]_eventVars <=> RecordsKept
  BY DEF RecordsKept, Event!RecordsKept, eventVars, Event!eventVars
<1> QED
  BY <1>1, <1>2, EventInductive, PTL DEF Spec
-----------------------------------------------------------------------------
(***************************************************************************)
(* The blocks and the candles of a window's targets (recent_oracle_check.py, *)
(* five_crash_oracle_check.py).                                            *)
(***************************************************************************)
LEMMA SweepFacts ==
    /\ Latest \in Nat \ {0} /\ Time \in [1 .. Latest -> Nat]
    /\ \A a, b \in 1 .. Latest : a < b => Time[a] < Time[b]
    /\ Points \in Nat \ {0} /\ Step \in Nat \ {0} /\ BracketStep \in Nat \ {0}
    /\ Ahead \in Nat \ {0} /\ Minute \in Nat \ {0} /\ Windows \subseteq Nat
    /\ \A window \in Windows : Points * Step <= window
  BY ResearchAssumption DEF Sweep!SweepAssumption

LEMMA ProductGrows ==
    ASSUME NEW a \in Nat, NEW b \in Nat, NEW n \in Nat, a <= b
    PROVE  a * n \in Nat /\ b * n \in Nat /\ a * n <= b * n
<1>1. PICK d \in Nat : b = a + d
  <2>1. b - a \in Nat /\ b = a + (b - a)
    OBVIOUS
  <2> QED
    BY <2>1
<1>2. b * n = a * n + d * n
  BY <1>1
<1>3. a * n \in Nat /\ d * n \in Nat
  BY <1>1
<1> QED
  BY <1>2, <1>3

\* The targets are after the start of time and not after the last one.
LEMMA TargetsInWindow ==
    ASSUME last \in Nat, Points * Step <= last, NEW k \in 1 .. Points
    PROVE  /\ Sweep!Target(k) \in Int /\ 1 <= Sweep!Target(1)
           /\ Sweep!Target(1) <= Sweep!Target(k) /\ Sweep!Target(k) <= last
           /\ Sweep!Target(Points) = last
<1>1. Points \in Nat /\ Step \in Nat /\ Points - k \in Nat /\ Points - 1 \in Nat /\ Step >= 1
      /\ Points - k <= Points - 1
  BY SweepFacts
<1>2. /\ (Points - k) * Step \in Nat /\ (Points - 1) * Step \in Nat
      /\ (Points - k) * Step <= (Points - 1) * Step
  BY <1>1, ProductGrows
<1>3. (Points - 1) * Step = Points * Step - Step
  BY <1>1
<1>4. Points * Step \in Nat
  BY <1>1
<1>5. (Points - Points) * Step = 0
  BY <1>1
<1> QED
  BY <1>1, <1>2, <1>3, <1>4, <1>5 DEF Sweep!Target

SweepTyped ==
    /\ script \in {"recent", "crash"} /\ last \in Nat
    /\ at \in {"idle", "bracket", "search", "query", "done", "raised"}
    /\ i \in 1 .. Points + 1 /\ low \in 1 .. Latest /\ high \in Nat \ {0}
    /\ pins \in [1 .. Points -> 0 .. Latest]

WindowInv ==
    /\ at = "idle" => i = 1 /\ \A k \in 1 .. Points : pins[k] = 0
    /\ at # "idle" => Points * Step <= last
    /\ at \in {"bracket", "search"} => i <= Points

\* The targets before the one that is searched for have their blocks.
PinsFound ==
    at # "idle" =>
        /\ \A k \in 1 .. Points : k < i => pins[k] # 0
        /\ script = "recent" => pins[Points] # 0
        /\ at \in {"query", "done"} => \A k \in 1 .. Points : pins[k] # 0

\* The time of low has come, that of the blocks after high has not.
Bracket ==
    at = "search" =>
        /\ Time[low] <= Sweep!Target(i) /\ low <= high /\ high <= Latest
        /\ \A b \in 1 .. Latest : b > high => Time[b] > Sweep!Target(i)
        /\ Time[Latest] > Sweep!Target(i)

SweepInv ==
    /\ SweepTyped /\ WindowInv /\ PinsFound /\ Bracket
    /\ Sweep!PinsExact /\ Sweep!CandlesMatched

LEMMA SweepInit == Init => SweepInv
<1> SUFFICES ASSUME Init PROVE SweepInv
  OBVIOUS
<1>1. /\ script = "recent" /\ last = 0 /\ at = "idle" /\ i = 1 /\ low = 1 /\ high = 1
      /\ pins = [k \in 1 .. Points |-> 0]
  BY DEF Init, Sweep!Init, Sweep!Points1
<1> QED
  BY <1>1, SweepFacts
     DEF SweepInv, SweepTyped, WindowInv, PinsFound, Bracket, Sweep!PinsExact, Sweep!CandlesMatched,
         Sweep!Points1

\* Later blocks have later times.
LEMMA TimeGrows ==
    ASSUME NEW a \in 1 .. Latest, NEW b \in 1 .. Latest
    PROVE  /\ Time[a] \in Nat /\ Time[b] \in Nat
           /\ a <= b <=> Time[a] <= Time[b]
<1>1. Time[a] \in Nat /\ Time[b] \in Nat
  BY SweepFacts
<1>2. CASE a < b
  BY <1>1, <1>2, SweepFacts
<1>3. CASE b < a
  BY <1>1, <1>3, SweepFacts
<1>4. CASE a = b
  BY <1>1, <1>4
<1> QED
  BY <1>2, <1>3, <1>4, SweepFacts

LEMMA BeginRecentKeeps == ASSUME SweepInv, Sweep!BeginRecent PROVE SweepInv'
<1>1. /\ at = "idle" /\ Points * Step <= Time[Latest] /\ script' = "recent" /\ last' = Time[Latest]
      /\ low' \in 1 .. Latest /\ high' = Latest /\ pins' = [pins EXCEPT ![Points] = Latest]
      /\ at' = IF Points = 1 THEN "query" ELSE "bracket"
      /\ i' = 1
  BY DEF Sweep!BeginRecent, SweepInv, WindowInv
<1>2. Latest \in 1 .. Latest /\ Time[Latest] \in Nat /\ Points \in 1 .. Points
  BY SweepFacts
<1>3. SweepTyped'
  BY <1>1, <1>2, SweepFacts DEF SweepInv, SweepTyped
<1>4. WindowInv'
  BY <1>1, <1>2, SweepFacts DEF WindowInv
<1>5. \A k \in 1 .. Points : pins'[k] = IF k = Points THEN Latest ELSE 0
  BY <1>1, <1>2 DEF SweepInv, SweepTyped, WindowInv
<1>6. PinsFound' /\ Bracket'
  BY <1>1, <1>2, <1>5, SweepFacts DEF PinsFound, Bracket
<1>7. Sweep!Target(Points)' = Time[Latest]
  <2>1. (Points - Points) * Step = 0
    BY SweepFacts
  <2> QED
    BY <1>1, <1>2, <2>1 DEF Sweep!Target
<1>8. \A b \in 1 .. Latest : Time[b] <= Time[Latest] /\ b <= Latest
  BY <1>2, TimeGrows
<1>9. Sweep!PinsExact'
  <2> SUFFICES ASSUME NEW k \in 1 .. Points, pins'[k] # 0, NEW b \in 1 .. Latest
               PROVE  Time[b] <= Sweep!Target(k)' <=> b <= pins'[k]
    BY DEF Sweep!PinsExact, Sweep!Points1
  <2>1. k = Points /\ pins'[k] = Latest
    BY <1>5
  <2> QED
    BY <1>7, <1>8, <2>1
<1>10. Sweep!CandlesMatched'
  BY <1>1 DEF Sweep!CandlesMatched
<1> QED
  BY <1>3, <1>4, <1>6, <1>9, <1>10 DEF SweepInv

LEMMA BeginCrashKeeps ==
    ASSUME SweepInv, NEW window \in Windows, Sweep!BeginCrash(window) PROVE SweepInv'
<1>1. /\ at = "idle" /\ script' = "crash" /\ last' = window /\ at' = "bracket"
      /\ low' \in 1 .. Latest /\ high' \in low' .. low' + 2 * Ahead
      /\ UNCHANGED pins /\ i' = 1
  BY DEF Sweep!BeginCrash, SweepInv, WindowInv
<1>2. window \in Nat /\ Points * Step <= window
  BY SweepFacts
<1>3. high' \in Nat \ {0}
  BY <1>1, SweepFacts
<1>4. \A k \in 1 .. Points : pins[k] = 0
  BY <1>1 DEF SweepInv, WindowInv
<1>5. SweepTyped' /\ WindowInv' /\ PinsFound' /\ Bracket'
  BY <1>1, <1>2, <1>3, SweepFacts DEF SweepInv, SweepTyped, WindowInv, PinsFound, Bracket
<1>6. Sweep!PinsExact' /\ Sweep!CandlesMatched'
  BY <1>1, <1>4 DEF Sweep!PinsExact, Sweep!CandlesMatched, Sweep!Points1
<1> QED
  BY <1>5, <1>6 DEF SweepInv

\* A step of the search for one block leaves the blocks that were found.
LEMMA SearchMoves ==
    ASSUME SweepInv, UNCHANGED <<script, last, i, pins>>, at \in {"bracket", "search"},
           at' \in {"bracket", "search", "raised"}, low' \in 1 .. Latest, high' \in Nat \ {0},
           Bracket'
    PROVE  SweepInv'
<1>1. SweepTyped' /\ WindowInv' /\ PinsFound'
  BY DEF SweepInv, SweepTyped, WindowInv, PinsFound
<1>2. Sweep!PinsExact'
  BY DEF SweepInv, Sweep!PinsExact, Sweep!Points1, Sweep!Target
<1>3. Sweep!CandlesMatched'
  BY DEF Sweep!CandlesMatched
<1> QED
  BY <1>1, <1>2, <1>3 DEF SweepInv

LEMMA BracketingKeeps ==
    ASSUME SweepInv, Sweep!LowerLow \/ Sweep!RaiseHigh \/ Sweep!Bracketed PROVE SweepInv'
<1>1. /\ UNCHANGED <<script, last, i, pins>> /\ at = "bracket" /\ i \in 1 .. Points
      /\ low \in 1 .. Latest /\ high \in Nat \ {0} /\ last \in Nat /\ Points * Step <= last
  BY DEF Sweep!LowerLow, Sweep!RaiseHigh, Sweep!Bracketed, SweepInv, SweepTyped, WindowInv
<1>2. Sweep!Target(i) \in Int
  BY <1>1, TargetsInWindow
<1>3. CASE Sweep!LowerLow
  <2>1. low' \in 1 .. Latest /\ high' = high /\ at' \in {"bracket", "raised"}
    BY <1>1, <1>3, SweepFacts DEF Sweep!LowerLow
  <2> QED
    BY <1>1, <2>1, SearchMoves DEF Bracket
<1>4. CASE Sweep!RaiseHigh
  <2>1. low' = low /\ high' \in Nat \ {0} /\ at' \in {"bracket", "raised"}
    BY <1>1, <1>4, SweepFacts DEF Sweep!RaiseHigh
  <2> QED
    BY <1>1, <2>1, SearchMoves DEF Bracket
<1>5. CASE Sweep!Bracketed
  <2>1. /\ Time[low] <= Sweep!Target(i) /\ high <= Latest /\ Time[high] > Sweep!Target(i)
        /\ at' = "search" /\ UNCHANGED <<low, high>>
    BY <1>5 DEF Sweep!Bracketed
  <2>2. high \in 1 .. Latest /\ Latest \in 1 .. Latest
    BY <1>1, <2>1, SweepFacts
  <2>3. low <= high /\ Time[Latest] > Sweep!Target(i)
    <3>1. Time[high] <= Time[Latest]
      BY <2>2, TimeGrows
    <3>2. /\ Time[high] \in Nat /\ Time[Latest] \in Nat /\ Time[low] \in Nat
          /\ high <= low => Time[high] <= Time[low]
      BY <1>1, <2>2, TimeGrows
    <3> QED
      BY <1>1, <1>2, <2>1, <2>2, <3>1, <3>2
  <2>4. ASSUME NEW b \in 1 .. Latest, b > high PROVE Time[b] > Sweep!Target(i)
    <3>1. Time[high] <= Time[b] /\ Time[high] \in Nat /\ Time[b] \in Nat
      BY <2>2, <2>4, TimeGrows
    <3> QED
      BY <1>2, <2>1, <3>1
  <2>5. Sweep!Target(i)' = Sweep!Target(i)
    BY <1>1 DEF Sweep!Target
  <2>6. Bracket'
    BY <1>1, <2>1, <2>2, <2>3, <2>4, <2>5 DEF Bracket
  <2> QED
    BY <1>1, <2>1, <2>6, SearchMoves
<1> QED
  BY <1>3, <1>4, <1>5

\* The block of a target is found.
LEMMA FoundKeeps ==
    ASSUME SweepInv, at = "search", NEW b \in 1 .. Latest, b + 1 \in 1 .. Latest,
           Sweep!Hits(b), Sweep!Found(b)
    PROVE  SweepInv'
<1>1. /\ i \in 1 .. Points /\ pins \in [1 .. Points -> 0 .. Latest] /\ last \in Nat
      /\ script \in {"recent", "crash"}
      /\ Points \in Nat /\ Points * Step <= last
  BY SweepFacts DEF SweepInv, SweepTyped, WindowInv
<1>2. /\ pins' = [pins EXCEPT ![i] = b] /\ i' = i + 1 /\ low' = b
      /\ high' = IF script = "recent" THEN Latest ELSE b + Ahead
      /\ at' = IF i = Points \/ (script = "recent" /\ i = Points - 1) THEN "query" ELSE "bracket"
      /\ UNCHANGED <<script, last>>
  BY DEF Sweep!Found
<1>3. high' \in Nat \ {0} /\ at' \in {"query", "bracket"}
  BY <1>2, SweepFacts
<1>4. \A k \in 1 .. Points : pins'[k] = IF k = i THEN b ELSE pins[k]
  BY <1>1, <1>2
<1>5. SweepTyped' /\ WindowInv'
  BY <1>1, <1>2, <1>3 DEF SweepInv, SweepTyped, WindowInv
<1>6. PinsFound'
  <2>1. \A k \in 1 .. Points : k < i + 1 => pins'[k] # 0
    BY <1>1, <1>4 DEF SweepInv, PinsFound
  <2>2. script = "recent" => pins'[Points] # 0
    BY <1>1, <1>4 DEF SweepInv, PinsFound
  <2>3. at' = "query" => \A k \in 1 .. Points : pins'[k] # 0
    BY <1>1, <1>2, <2>1, <2>2
  <2> QED
    BY <1>2, <1>3, <2>1, <2>2, <2>3 DEF PinsFound
<1>7. Sweep!PinsExact'
  <2> SUFFICES ASSUME NEW k \in 1 .. Points, pins'[k] # 0, NEW c \in 1 .. Latest
               PROVE  Time[c] <= Sweep!Target(k)' <=> c <= pins'[k]
    BY DEF Sweep!PinsExact, Sweep!Points1
  <2>1. Sweep!Target(k)' = Sweep!Target(k)
    BY <1>2 DEF Sweep!Target
  <2>2. CASE k # i
    BY <1>4, <2>1, <2>2 DEF SweepInv, Sweep!PinsExact, Sweep!Points1
  <2>3. CASE k = i
    <3>1. Time[b] <= Sweep!Target(k) /\ Sweep!Target(k) < Time[b + 1] /\ Sweep!Target(k) \in Int
      BY <1>1, <2>3, TargetsInWindow DEF Sweep!Hits
    <3>2. c <= b <=> Time[c] <= Time[b]
      BY TimeGrows
    <3>3. b + 1 <= c <=> Time[b + 1] <= Time[c]
      BY TimeGrows
    <3>4. Time[b] \in Nat /\ Time[b + 1] \in Nat /\ Time[c] \in Nat
      BY TimeGrows
    <3>5. c <= b \/ b + 1 <= c
      BY SweepFacts
    <3> QED
      BY <1>4, <2>1, <2>3, <3>1, <3>2, <3>3, <3>4, <3>5
  <2> QED
    BY <2>2, <2>3
<1>8. Sweep!CandlesMatched'
  BY <1>3 DEF Sweep!CandlesMatched
<1> QED
  BY <1>5, <1>6, <1>7, <1>8, <1>3 DEF SweepInv, Bracket

\* A guess leaves the target between low and high.
LEMMA LookKeeps == ASSUME SweepInv, Sweep!Look PROVE SweepInv'
<1>1. /\ at = "search" /\ i \in 1 .. Points /\ low \in 1 .. Latest /\ high \in Nat
      /\ last \in Nat /\ Points * Step <= last /\ Latest \in Nat /\ Latest \in 1 .. Latest
  BY SweepFacts DEF Sweep!Look, SweepInv, SweepTyped, WindowInv
<1>2. /\ Time[low] <= Sweep!Target(i) /\ low <= high /\ high <= Latest
      /\ \A b \in 1 .. Latest : b > high => Time[b] > Sweep!Target(i)
      /\ Time[Latest] > Sweep!Target(i) /\ Sweep!Target(i) \in Int
  BY <1>1, TargetsInWindow DEF SweepInv, Bracket
<1>3. \A b \in 1 .. Latest : Time[b] \in Nat
  BY SweepFacts
<1>4. low + 1 \in 1 .. Latest
  BY <1>1, <1>2, <1>3
<1>5. CASE Sweep!Hits(low)
  BY <1>1, <1>4, <1>5, FoundKeeps DEF Sweep!Look
<1>6. CASE ~ Sweep!Hits(low)
  <2>1. PICK g \in low + 1 .. Latest :
           /\ Sweep!Clamped(g)
           /\ IF Sweep!Hits(g) THEN Sweep!Found(g)
              ELSE IF Time[g] <= Sweep!Target(i) THEN Sweep!Narrowed(g + 1, high)
              ELSE Sweep!Narrowed(low, g - 1)
    BY <1>1, <1>6 DEF Sweep!Look
  <2>2. g \in 1 .. Latest
    BY <1>1, <2>1
  <2>3. ~ Sweep!Hits(low) => Time[low + 1] <= Sweep!Target(i)
    BY <1>1, <1>2, <1>3, <1>4 DEF Sweep!Hits
  <2>4. low + 1 <= high /\ g <= high
    <3>1. low + 1 <= high
      BY <1>1, <1>2, <1>3, <1>4, <1>6, <2>3
    <3> QED
      BY <1>1, <2>1, <3>1 DEF Sweep!Clamped
  <2>5. Time[g] <= Sweep!Target(i) => g + 1 \in 1 .. Latest
    BY <1>1, <1>2, <1>3, <2>2
  <2>6. CASE Sweep!Hits(g)
    <3>1. g + 1 \in 1 .. Latest
      BY <2>5, <2>6 DEF Sweep!Hits
    <3> QED
      BY <1>1, <2>1, <2>2, <2>6, <3>1, FoundKeeps
  <2>7. CASE ~ Sweep!Hits(g) /\ Time[g] <= Sweep!Target(i)
    <3>1. /\ low' = g + 1 /\ high' = high /\ UNCHANGED <<script, last, i, pins>>
          /\ at' = IF g + 1 > high THEN "lost" ELSE "search"
      BY <2>1, <2>7 DEF Sweep!Narrowed
    <3>2. g + 1 \in 1 .. Latest /\ Time[g + 1] <= Sweep!Target(i)
      BY <1>2, <1>3, <2>5, <2>7 DEF Sweep!Hits
    <3>3. g + 1 <= high
      BY <1>1, <1>2, <1>3, <3>2
    <3>4. at' = "search"
      BY <1>1, <2>2, <3>1, <3>3
    <3>5. Sweep!Target(i)' = Sweep!Target(i)
      BY <3>1 DEF Sweep!Target
    <3>6. Bracket'
      BY <1>2, <3>1, <3>2, <3>3, <3>4, <3>5 DEF Bracket
    <3>7. high \in Nat \ {0}
      BY DEF SweepInv, SweepTyped
    <3> QED
      BY <1>1, <3>1, <3>2, <3>4, <3>6, <3>7, SearchMoves
  <2>8. CASE ~ Sweep!Hits(g) /\ ~ (Time[g] <= Sweep!Target(i))
    <3>1. /\ low' = low /\ high' = g - 1 /\ UNCHANGED <<script, last, i, pins>>
          /\ at' = IF low > g - 1 THEN "lost" ELSE "search"
      BY <2>1, <2>8 DEF Sweep!Narrowed
    <3>2. low <= g - 1 /\ g - 1 \in Nat \ {0} /\ g - 1 <= Latest
      BY <1>1, <2>1, <2>2
    <3>3. at' = "search"
      BY <1>1, <2>2, <3>1, <3>2
    <3>4. Sweep!Target(i)' = Sweep!Target(i)
      BY <3>1 DEF Sweep!Target
    <3>5. ASSUME NEW b \in 1 .. Latest, b > g - 1 PROVE Time[b] > Sweep!Target(i)
      <4>1. Time[g] <= Time[b]
        <5>1. g <= b
          BY <2>2, <3>5
        <5> QED
          BY <2>2, <5>1, TimeGrows
      <4> QED
        BY <1>2, <1>3, <2>2, <2>8, <4>1
    <3>6. Bracket'
      BY <1>2, <3>1, <3>2, <3>3, <3>4, <3>5 DEF Bracket
    <3> QED
      BY <1>1, <3>1, <3>2, <3>3, <3>6, SearchMoves
  <2> QED
    BY <2>6, <2>7, <2>8
<1> QED
  BY <1>5, <1>6

\* A set of bounded naturals that is not empty has a greatest element.
LEMMA GreatestExists ==
    ASSUME NEW n \in Nat, NEW S \in SUBSET (1 .. n), S # {}
    PROVE  \E b \in S : \A c \in S : c <= b
<1> DEFINE distances == {n - c : c \in S}
<1>1. distances \in SUBSET Nat /\ distances # {}
  OBVIOUS
<1>2. PICK d \in distances : \A e \in distances : d <= e
  <2> HIDE DEF distances
  <2> QED
    BY <1>1, LeastExists
<1>3. PICK b \in S : d = n - b
  BY <1>2
<1>4. ASSUME NEW c \in S PROVE c <= b
  <2>1. n - c \in distances
    OBVIOUS
  <2>2. n - b <= n - c
    BY <1>2, <1>3, <2>1
  <2>3. b \in 1 .. n /\ c \in 1 .. n
    OBVIOUS
  <2> QED
    BY <2>2, <2>3
<1> QED
  BY <1>4

\* LastOf of candles that were over at a time.
LEMMA LastCandle ==
    ASSUME last \in Nat, NEW time \in Nat,
           {c \in Sweep!Candles : Sweep!Open(c) + Minute <= time} # {}
    PROVE  /\ Sweep!Candle(time) \in {c \in Sweep!Candles : Sweep!Open(c) + Minute <= time}
           /\ \A c \in {d \in Sweep!Candles : Sweep!Open(d) + Minute <= time} :
                 c <= Sweep!Candle(time)
<1> DEFINE S == {c \in Sweep!Candles : Sweep!Open(c) + Minute <= time}
<1>1. S \in SUBSET (1 .. last + 2) /\ S # {}
  BY DEF Sweep!Candles
<1>2. last + 2 \in Nat
  OBVIOUS
<1>3. Sweep!Candle(time) = Sweep!LastOf(S)
  BY DEF Sweep!Candle
<1> HIDE DEF S
<1>4. \E b \in S : \A c \in S : c <= b
  BY <1>1, <1>2, GreatestExists
<1>5. Sweep!LastOf(S) \in S /\ \A c \in S : c <= Sweep!LastOf(S)
  BY <1>1, <1>4 DEF Sweep!LastOf
<1> QED
  BY <1>3, <1>5 DEF S

LEMMA AnswersKeep ==
    ASSUME SweepInv, Sweep!QueryFails \/ \E k \in Sweep!Points1 : Sweep!Query(k)
    PROVE  SweepInv'
<1>1. /\ UNCHANGED <<script, last, i, low, high, pins>> /\ at = "query"
      /\ at' \in {"query", "raised"}
  BY DEF Sweep!QueryFails, Sweep!Query
<1>2. SweepTyped' /\ WindowInv' /\ PinsFound' /\ Bracket'
  BY <1>1 DEF SweepInv, SweepTyped, WindowInv, PinsFound, Bracket
<1>3. Sweep!PinsExact'
  BY <1>1 DEF SweepInv, Sweep!PinsExact, Sweep!Points1, Sweep!Target
<1>4. Sweep!CandlesMatched'
  BY <1>1 DEF Sweep!CandlesMatched
<1> QED
  BY <1>2, <1>3, <1>4 DEF SweepInv

\* What a candle opens at: c minutes after the one that opens first.
LEMMA OpenNext ==
    ASSUME last \in Nat, Points * Step <= last, NEW c \in Nat
    PROVE  /\ Sweep!Open(c) \in Int /\ Sweep!Open(c + 1) = Sweep!Open(c) + Minute
           /\ Sweep!Open(1) = Sweep!Target(1) - 2 * Minute + 1
           /\ c >= 1 => Sweep!Open(c) >= Sweep!Open(1) + (c - 1)
<1>1. Minute \in Nat \ {0} /\ 1 \in 1 .. Points
  BY SweepFacts
<1>2. Sweep!Target(1) \in Int
  BY <1>1, TargetsInWindow
<1>3. (c - 1) * Minute \in Int /\ ((c + 1) - 1) * Minute = (c - 1) * Minute + Minute
      /\ (1 - 1) * Minute = 0
  BY <1>1
<1>4. c >= 1 => (c - 1) * Minute >= c - 1
  <2>1. CASE c >= 1
    <3>1. c - 1 \in Nat /\ Minute - 1 \in Nat
      BY <1>1, <2>1
    <3>2. (c - 1) * (Minute - 1) \in Nat
      BY <3>1
    <3>3. (c - 1) * Minute = (c - 1) * (Minute - 1) + (c - 1)
      BY <1>1, <3>1
    <3> QED
      BY <3>1, <3>2, <3>3
  <2> QED
    BY <2>1
<1> QED
  BY <1>1, <1>2, <1>3, <1>4 DEF Sweep!Open

\* Of the minutes of a window the last that was over at a time is not a minute
\* before another, and there is one soon after the first target.
LEMMA CandleMatches ==
    ASSUME last \in Nat, Points * Step <= last, NEW time \in Nat, NEW k \in 1 .. Points,
           time <= Sweep!Target(k)
    PROVE  LET c == Sweep!Candle(time)
           IN /\ c # 0 => Sweep!Open(c) + Minute <= time /\ time < Sweep!Open(c) + 2 * Minute
              /\ Sweep!Target(k) - time < Minute => c # 0
<1> DEFINE over == {c \in Sweep!Candles : Sweep!Open(c) + Minute <= time}
           c == Sweep!Candle(time)
<1>1. Minute \in Nat \ {0} /\ 2 * Minute \in Nat
  BY SweepFacts
<1>2. /\ 1 <= Sweep!Target(1) /\ Sweep!Target(1) <= Sweep!Target(k) /\ Sweep!Target(k) <= last
      /\ Sweep!Target(k) \in Int /\ Sweep!Target(1) \in Int
  <2>1. 1 \in 1 .. Points
    BY SweepFacts
  <2> QED
    BY <2>1, TargetsInWindow
<1>3. over = {} => c = 0
  BY DEF Sweep!Candle, Sweep!LastOf
<1>4. over # {} => c \in over /\ \A d \in over : d <= c
  BY LastCandle
<1>5. ASSUME c # 0
      PROVE  Sweep!Open(c) + Minute <= time /\ time < Sweep!Open(c) + 2 * Minute
  <2>1. c \in over /\ \A d \in over : d <= c
    BY <1>3, <1>4, <1>5
  <2>2. c \in 1 .. last + 2 /\ Sweep!Open(c) + Minute <= time
    BY <2>1 DEF Sweep!Candles
  <2> HIDE DEF c
  <2>3. c \in Nat /\ c + 1 \in Nat /\ c >= 1
    BY <2>2
  <2>4. /\ Sweep!Open(c) \in Int /\ Sweep!Open(c + 1) = Sweep!Open(c) + Minute
        /\ Sweep!Open(1) = Sweep!Target(1) - 2 * Minute + 1
        /\ Sweep!Open(c) >= Sweep!Open(1) + (c - 1)
    BY <2>3, OpenNext
  <2>5. Sweep!Open(c + 1) \in Int /\ Sweep!Open(c + 1) >= Sweep!Open(1) + c
    <3>1. Sweep!Open(c + 1) >= Sweep!Open(1) + ((c + 1) - 1)
      BY <2>3, OpenNext
    <3> QED
      BY <1>1, <2>3, <2>4, <3>1
  <2>6. c + 1 \notin over
    BY <2>1, <2>3
  <2>7. ASSUME Sweep!Open(c) + 2 * Minute <= time PROVE FALSE
    <3>1. Sweep!Open(c + 1) + Minute <= time
      BY <1>1, <2>4, <2>7
    <3>2. Sweep!Open(c + 1) <= last - Minute + 1
      BY <1>1, <1>2, <2>5, <3>1
    <3>3. c + 1 <= last + 2
      BY <1>1, <1>2, <2>2, <2>3, <2>4, <2>5, <2>7
    <3>4. c + 1 \in Sweep!Candles
      BY <2>3, <3>2, <3>3 DEF Sweep!Candles
    <3> QED
      BY <2>6, <3>1, <3>4
  <2> QED
    BY <1>1, <2>2, <2>4, <2>7
<1>6. ASSUME Sweep!Target(k) - time < Minute PROVE c # 0
  <2>1. 1 \in Nat /\ Sweep!Open(1) = Sweep!Target(1) - 2 * Minute + 1
    BY OpenNext
  <2>2. Sweep!Open(1) + Minute <= time
    BY <1>1, <1>2, <1>6, <2>1
  <2>3. 1 \in Sweep!Candles
    BY <1>1, <1>2, <2>1 DEF Sweep!Candles
  <2>4. 1 \in over
    BY <2>2, <2>3
  <2>5. c \in Sweep!Candles
    BY <1>4, <2>4
  <2> QED
    BY <2>5 DEF Sweep!Candles
<1> QED
  BY <1>5, <1>6

LEMMA PublishKeeps == ASSUME SweepInv, Sweep!Publish PROVE SweepInv'
<1>1. /\ UNCHANGED <<script, last, i, low, high, pins>> /\ at = "query" /\ at' = "done"
      /\ last \in Nat /\ Points * Step <= last
  BY DEF Sweep!Publish, SweepInv, SweepTyped, WindowInv
<1>2. SweepTyped' /\ WindowInv' /\ PinsFound' /\ Bracket'
  BY <1>1 DEF SweepInv, SweepTyped, WindowInv, PinsFound, Bracket
<1>3. Sweep!PinsExact'
  BY <1>1 DEF SweepInv, Sweep!PinsExact, Sweep!Points1, Sweep!Target
<1>4. Sweep!CandlesMatched'
  <2> SUFFICES ASSUME script = "crash", NEW k \in 1 .. Points
               PROVE  (LET time == Time[rows[k].block]
                           c == rows[k].candle
                       IN /\ c # 0 => Sweep!Open(c) + Minute <= time /\ time < Sweep!Open(c) + 2 * Minute
                          /\ Sweep!Target(k) - time < Minute => c # 0)'
    BY <1>1 DEF Sweep!CandlesMatched, Sweep!Points1
  <2>1. pins[k] \in 1 .. Latest /\ Time[pins[k]] \in Nat
    BY <1>1, SweepFacts DEF SweepInv, SweepTyped, PinsFound
  <2>2. Time[pins[k]] <= Sweep!Target(k)
    BY <2>1 DEF SweepInv, Sweep!PinsExact, Sweep!Points1
  <2>3. rows'[k].block = pins[k] /\ rows'[k].candle = Sweep!Candle(Time[pins[k]])
    BY <1>1 DEF Sweep!Publish, Sweep!Points1
  <2>4. /\ Sweep!Open(rows[k].candle)' = Sweep!Open(rows'[k].candle)
        /\ Sweep!Target(k)' = Sweep!Target(k)
    BY <1>1 DEF Sweep!Open, Sweep!Target
  <2>5. /\ rows'[k].candle # 0 => /\ Sweep!Open(rows'[k].candle) + Minute <= Time[pins[k]]
                                 /\ Time[pins[k]] < Sweep!Open(rows'[k].candle) + 2 * Minute
        /\ Sweep!Target(k) - Time[pins[k]] < Minute => rows'[k].candle # 0
    BY <1>1, <2>1, <2>2, <2>3, CandleMatches
  <2> QED
    BY <2>3, <2>4, <2>5
<1> QED
  BY <1>2, <1>3, <1>4 DEF SweepInv

LEMMA SweepKept == ASSUME SweepInv, Sweep!Next \/ UNCHANGED sweepVars PROVE SweepInv'
<1>1. CASE Sweep!Next
  <2>1. CASE Sweep!BeginRecent \/ \E window \in Windows : Sweep!BeginCrash(window)
    BY <2>1, BeginRecentKeeps, BeginCrashKeeps
  <2>2. CASE Sweep!LowerLow \/ Sweep!RaiseHigh \/ Sweep!Bracketed
    BY <2>2, BracketingKeeps
  <2>3. CASE Sweep!Look
    BY <2>3, LookKeeps
  <2>4. CASE Sweep!QueryFails \/ \E k \in Sweep!Points1 : Sweep!Query(k)
    BY <2>4, AnswersKeep
  <2>5. CASE Sweep!Publish
    BY <2>5, PublishKeeps
  <2> QED
    BY <1>1, <2>1, <2>2, <2>3, <2>4, <2>5 DEF Sweep!Next, Sweep!SweepStep
<1>2. CASE UNCHANGED sweepVars
  <2>1. UNCHANGED <<script, last, at, i, low, high, pins, answers, rows>>
    BY <1>2 DEF sweepVars
  <2>2. SweepTyped' /\ WindowInv' /\ PinsFound' /\ Bracket'
    BY <2>1 DEF SweepInv, SweepTyped, WindowInv, PinsFound, Bracket, Sweep!Target
  <2>3. Sweep!PinsExact'
    BY <2>1 DEF SweepInv, Sweep!PinsExact, Sweep!Points1, Sweep!Target
  <2>4. Sweep!CandlesMatched'
    BY <2>1 DEF SweepInv, Sweep!CandlesMatched, Sweep!Points1, Sweep!Target, Sweep!Open
  <2> QED
    BY <2>2, <2>3, <2>4 DEF SweepInv
<1> QED
  BY <1>1, <1>2
-----------------------------------------------------------------------------
(***************************************************************************)
(* The October references (collect_october_oracle_references.py).          *)
(***************************************************************************)
LEMMA ReferenceFacts ==
    /\ Canonical \in Nat \ {0} /\ BaseAmount \in Nat /\ Seconds \in [1 .. 2 -> Nat \ {0}]
    /\ \A reply \in Replies : DOMAIN reply = 1 .. 3
    /\ \A reply \in Replies : \A s \in 1 .. 3 :
          /\ reply[s].kind \in {"reverted", "garbled", "short", "value"}
          /\ s = 1 => reply[s].kind # "short"
          /\ reply[s].value \in Int
<1>1. References!ReferencesAssumption
  BY ResearchAssumption
<1>2. ASSUME NEW reply \in Replies, NEW s \in 1 .. 3
      PROVE  /\ reply[s].kind \in {"reverted", "garbled", "short", "value"}
             /\ s = 1 => reply[s].kind # "short"
             /\ reply[s].value \in Int
  <2>1. CASE s = 1
    BY <1>1, <2>1 DEF References!ReferencesAssumption
  <2>2. CASE s # 1
    BY <1>1, <2>2 DEF References!ReferencesAssumption
  <2> QED
    BY <2>1, <2>2
<1> QED
  BY <1>1, <1>2 DEF References!ReferencesAssumption

LEMMA SameCount == ASSUME NEW S PROVE References!Cardinality(S) = Cardinality(S)
  BY DEF References!Cardinality, Cardinality

\* How many of the blocks asked for are before a block.
Rank(asked, b) == Cardinality({c \in asked : c < b})

LEMMA RankFacts ==
    ASSUME NEW asked \in SUBSET References!Blocks
    PROVE  /\ IsFiniteSet(asked) /\ Cardinality(asked) \in 0 .. Canonical
           /\ Cardinality(asked) = Canonical => asked = References!Blocks
           /\ \A b \in asked : Rank(asked, b) \in 0 .. Cardinality(asked) - 1
           /\ \A a, b \in asked :
                 a < b => Rank(asked, a) < Rank(asked, b)
<1>1. /\ IsFiniteSet(References!Blocks) /\ Cardinality(References!Blocks) = Canonical
      /\ Canonical \in Nat
  <2>1. 1 \in Int /\ Canonical \in Int /\ Canonical \in Nat /\ ~ 1 > Canonical
    BY ReferenceFacts
  <2>2. IsFiniteSet(1 .. Canonical) /\ Cardinality(1 .. Canonical) = Canonical - 1 + 1
    BY <2>1, FS_Interval
  <2> QED
    BY <2>1, <2>2 DEF References!Blocks
<1>2. /\ IsFiniteSet(asked) /\ Cardinality(asked) \in Nat /\ Cardinality(asked) <= Canonical
      /\ Cardinality(asked) = Canonical => asked = References!Blocks
  <2>1. /\ IsFiniteSet(asked) /\ Cardinality(asked) <= Cardinality(References!Blocks)
        /\ Cardinality(References!Blocks) = Cardinality(asked) => References!Blocks = asked
    BY <1>1, FS_Subset
  <2> QED
    BY <1>1, <2>1, FS_CardinalityType
<1>3. ASSUME NEW b \in asked
      PROVE  /\ IsFiniteSet({c \in asked : c < b}) /\ Rank(asked, b) \in Nat
             /\ Rank(asked, b) < Cardinality(asked)
  <2> DEFINE before1 == {c \in asked : c < b}
  <2>1. before1 \in SUBSET asked /\ before1 # asked
    <3>1. b \notin before1
      BY DEF References!Blocks
    <3> QED
      BY <3>1
  <2>2. IsFiniteSet(before1) /\ Cardinality(before1) \in Nat
    BY <1>2, <2>1, FS_Subset, FS_CardinalityType
  <2>3. Cardinality(before1) <= Cardinality(asked) /\ Cardinality(before1) # Cardinality(asked)
    BY <1>2, <2>1, FS_Subset
  <2> QED
    BY <1>2, <2>2, <2>3 DEF Rank
<1>4. ASSUME NEW a \in asked, NEW b \in asked, a < b
      PROVE  Rank(asked, a) < Rank(asked, b)
  <2> DEFINE beforeA == {c \in asked : c < a}
             beforeB == {c \in asked : c < b}
  <2>1. beforeA \in SUBSET beforeB /\ beforeA # beforeB
    <3>1. a \in beforeB /\ a \notin beforeA
      BY <1>4 DEF References!Blocks
    <3>2. ASSUME NEW c \in asked, c < a PROVE c < b
      <4>1. a \in Int /\ b \in Int /\ c \in Int
        BY DEF References!Blocks
      <4> QED
        BY <1>4, <3>2, <4>1
    <3>3. beforeA \subseteq beforeB
      BY <3>2
    <3> QED
      BY <3>1, <3>3
  <2>2. IsFiniteSet(beforeB) /\ Cardinality(beforeB) \in Nat /\ Cardinality(beforeA) \in Nat
    BY <1>3 DEF Rank
  <2>3. Cardinality(beforeA) <= Cardinality(beforeB) /\ Cardinality(beforeA) # Cardinality(beforeB)
    <3> HIDE DEF beforeA, beforeB
    <3> QED
      BY <2>1, <2>2, FS_Subset
  <2> QED
    BY <2>2, <2>3 DEF Rank
<1>5. ASSUME NEW b \in asked
      PROVE  Rank(asked, b) \in 0 .. Cardinality(asked) - 1
  <2>1. Rank(asked, b) \in Nat /\ Rank(asked, b) < Cardinality(asked)
    BY <1>3
  <2>2. Cardinality(asked) \in Nat
    BY <1>2
  <2> QED
    BY <2>1, <2>2
<1>6. Cardinality(asked) \in 0 .. Canonical
  BY <1>1, <1>2
<1> QED
  BY <1>2, <1>4, <1>5, <1>6

\* Every place among the blocks asked for is the rank of one of them.
LEMMA RanksFilled ==
    ASSUME NEW asked \in SUBSET References!Blocks, NEW k \in 1 .. Cardinality(asked)
    PROVE  \E b \in asked : Rank(asked, b) = k - 1
<1> DEFINE n == Cardinality(asked)
           rank == [b \in asked |-> Rank(asked, b) + 1]
<1>1. n \in Nat /\ IsFiniteSet(1 .. n) /\ Cardinality(1 .. n) = n
  BY RankFacts, FS_Interval
<1>2. rank \in [asked -> 1 .. n]
  <2>1. ASSUME NEW b \in asked PROVE Rank(asked, b) + 1 \in 1 .. n
    BY <1>1, RankFacts
  <2> QED
    BY <2>1
<1>3. rank \in Injection(asked, 1 .. n)
  <2>1. ASSUME NEW a \in asked, NEW b \in asked, a # b PROVE rank[a] # rank[b]
    <3>1. a \in Nat /\ b \in Nat
      BY DEF References!Blocks
    <3>2. /\ a < b => Rank(asked, a) < Rank(asked, b)
          /\ b < a => Rank(asked, b) < Rank(asked, a)
          /\ Rank(asked, a) \in 0 .. n - 1
          /\ Rank(asked, b) \in 0 .. n - 1
      BY RankFacts
    <3>3. a < b \/ b < a
      BY <2>1, <3>1
    <3>4. /\ rank[a] = Rank(asked, a) + 1
          /\ rank[b] = Rank(asked, b) + 1
      OBVIOUS
    <3> QED
      BY <1>1, <3>2, <3>3, <3>4
  <2> HIDE DEF rank
  <2> QED
    BY <1>2, <2>1 DEF Injection, IsInjective
<1>4. rank \in Surjection(asked, 1 .. n)
  <2> HIDE DEF rank
  <2> QED
    BY <1>1, <1>3, FS_Injection
<1>5. PICK b \in asked : rank[b] = k
  <2> HIDE DEF rank
  <2> QED
    BY <1>4 DEF Surjection
<1>6. Rank(asked, b) \in Int
  BY RankFacts
<1>7. rank[b] = Rank(asked, b) + 1
  OBVIOUS
<1> QED
  BY <1>5, <1>6, <1>7

\* The blocks asked for are read in their order; all of them is the window.
LEMMA OrderedBlocks ==
    ASSUME NEW asked \in SUBSET References!Blocks
    PROVE  /\ References!InOrder(asked) \in Seq(References!Blocks)
           /\ Len(References!InOrder(asked)) = Cardinality(asked)
           /\ References!Full(References!InOrder(asked)) =>
                 \A k \in References!Blocks : References!InOrder(asked)[k] = k
<1> DEFINE n == Cardinality(asked)
           place1(k) == CHOOSE b \in asked :
                           References!Cardinality({c \in asked : c < b}) = k - 1
<1>1. n \in Nat
  BY RankFacts
<1>2. ASSUME NEW k \in 1 .. n
      PROVE  place1(k) \in asked /\ Rank(asked, place1(k)) = k - 1
  <2>1. PICK b \in asked : Rank(asked, b) = k - 1
    BY RanksFilled
  <2>2. References!Cardinality({c \in asked : c < b}) = k - 1
    BY <2>1, SameCount DEF Rank
  <2>3. place1(k) \in asked /\ References!Cardinality({c \in asked : c < place1(k)}) = k - 1
    BY <2>2
  <2> HIDE DEF place1
  <2> QED
    BY <2>3, SameCount DEF Rank
<1>3. References!InOrder(asked) = [k \in 1 .. n |-> place1(k)]
  <2>1. References!Cardinality(asked) = n
    BY SameCount
  <2> HIDE DEF n
  <2> QED
    BY <2>1 DEF References!InOrder
<1>4. References!InOrder(asked) \in [1 .. n -> References!Blocks]
  <2> HIDE DEF place1
  <2> QED
    BY <1>2, <1>3
<1>5. /\ References!InOrder(asked) \in Seq(References!Blocks)
      /\ Len(References!InOrder(asked)) = n
  <2> HIDE DEF n
  <2> QED
    BY <1>1, <1>4
<1>6. ASSUME References!Full(References!InOrder(asked)), NEW k \in References!Blocks
      PROVE  References!InOrder(asked)[k] = k
  <2>1. n = Canonical /\ asked = References!Blocks /\ k \in 1 .. n
    BY <1>5, <1>6, RankFacts DEF References!Full, References!Blocks
  <2>2. References!InOrder(asked)[k] = place1(k)
    BY <1>3, <2>1
  <2>3. place1(k) \in 1 .. Canonical /\ Rank(asked, place1(k)) = k - 1
    BY <1>2, <2>1 DEF References!Blocks
  <2> HIDE DEF place1
  <2>4. {c \in asked : c < place1(k)} = 1 .. place1(k) - 1
    <3>1. asked = 1 .. Canonical /\ Canonical \in Nat
      BY <2>1, ReferenceFacts DEF References!Blocks
    <3> QED
      BY <2>3, <3>1
  <2>5. Rank(asked, place1(k)) = Cardinality(1 .. place1(k) - 1)
    BY <2>4 DEF Rank
  <2>7. Cardinality(1 .. place1(k) - 1) = place1(k) - 1
    <3>1. 1 \in Int /\ place1(k) - 1 \in Int /\ place1(k) \in Int /\ place1(k) >= 1
      BY <2>3
    <3>2. Cardinality(1 .. place1(k) - 1) =
             IF 1 > place1(k) - 1 THEN 0 ELSE place1(k) - 1 - 1 + 1
      BY <3>1, FS_Interval
    <3> QED
      BY <3>1, <3>2
  <2>6. k \in Nat /\ place1(k) \in Nat
    BY <2>3 DEF References!Blocks
  <2> QED
    BY <2>2, <2>3, <2>5, <2>6, <2>7
<1> QED
  BY <1>5, <1>6

ReferenceFiles == {"raw", "pins", "sidecar", "provenance", "subset"}
Vias == {"cache", "network"}

RawRows == {References!RawRow(b, reply, via) : b \in References!Blocks, reply \in Replies, via \in Vias}
SideRows == {References!SidecarRow(b, reply) : b \in References!Blocks, reply \in Replies}

JobRecords ==
    [at : References!Resting \cup {"collect"} \cup ReferenceFiles, offline : BOOLEAN,
     targets : Seq(References!Blocks), fresh : BOOLEAN, raw : Seq(RawRows), rows : Seq(SideRows)]

ReferencesTyped ==
    /\ job \in JobRecords /\ DOMAIN files = ReferenceFiles
    /\ replies \in [References!Blocks -> Replies \cup {References!Nothing}]

\* A row of a block is made of the block's answer.
RawOf(row, b) ==
    /\ replies[b] # References!Nothing
    /\ \E via \in Vias : row = References!RawRow(b, replies[b], via)
SideOf(row, b) ==
    replies[b] # References!Nothing /\ row = References!SidecarRow(b, replies[b])

\* What is collected are rows of the blocks asked for, in their order.
RowsCollected ==
    /\ Len(job.raw) = Len(job.rows) /\ Len(job.rows) <= Len(job.targets)
    /\ \A k \in 1 .. Len(job.rows) :
          RawOf(job.raw[k], job.targets[k]) /\ SideOf(job.rows[k], job.targets[k])
    /\ References!Full(job.targets) => \A k \in References!Blocks : job.targets[k] = k

\* Files are written of the whole window.
Writing == {"raw", "pins", "sidecar", "provenance"}

WindowCollected ==
    job.at \in Writing => References!Full(job.targets) /\ Len(job.rows) = Canonical

WholeRaw(file) ==
    file \in Seq(RawRows) /\ Len(file) = Canonical /\ \A b \in References!Blocks : RawOf(file[b], b)
WholeSide(file) ==
    file \in Seq(SideRows) /\ Len(file) = Canonical /\ \A b \in References!Blocks : SideOf(file[b], b)

FilesWhole ==
    /\ files.raw # References!Nothing => WholeRaw(files.raw)
    /\ files.sidecar # References!Nothing => WholeSide(files.sidecar) /\ WholeRaw(files.raw)
    /\ files.provenance # References!Nothing =>
          /\ WholeSide(files.provenance.sidecar) /\ WholeRaw(files.provenance.raw)
          /\ files.sidecar # References!Nothing

\* The files are written one after the other.
FilesInTurn ==
    /\ job.at \in {"pins", "sidecar", "provenance"} => WholeRaw(files.raw)
    /\ job.at = "provenance" => WholeSide(files.sidecar)

ReferencesInv ==
    /\ ReferencesTyped /\ RowsCollected /\ WindowCollected /\ FilesWhole /\ FilesInTurn

LEMMA ReferencesInit == Init => ReferencesInv
<1> SUFFICES ASSUME Init PROVE ReferencesInv
  OBVIOUS
<1>1. /\ replies = [b \in References!Blocks |-> References!Nothing]
      /\ job = References!NoJob
      /\ files = [raw |-> References!Nothing, pins |-> References!Nothing,
                  sidecar |-> References!Nothing, provenance |-> References!Nothing,
                  subset |-> References!Nothing]
  BY DEF Init, References!Init
<1>2. job \in JobRecords /\ job.at = "idle" /\ Len(job.raw) = 0 /\ Len(job.rows) = 0
      /\ Len(job.targets) = 0
  BY <1>1 DEF References!NoJob, JobRecords, References!Resting
<1>3. DOMAIN files = ReferenceFiles
  BY <1>1 DEF ReferenceFiles
<1>4. ~ References!Full(job.targets)
  BY <1>2, ReferenceFacts DEF References!Full
<1> QED
  BY <1>1, <1>2, <1>3, <1>4
     DEF ReferencesInv, ReferencesTyped, RowsCollected, WindowCollected, FilesWhole, FilesInTurn,
         Writing

\* An answer that was read does not change, so what was made of it stays whole.
LEMMA RowsStay ==
    ASSUME ReferencesTyped,
           \A b \in References!Blocks : replies[b] # References!Nothing => replies'[b] = replies[b]
    PROVE  /\ \A b \in References!Blocks : \A row : RawOf(row, b) => RawOf(row, b)'
           /\ \A b \in References!Blocks : \A row : SideOf(row, b) => SideOf(row, b)'
           /\ \A file : WholeRaw(file) => WholeRaw(file)'
           /\ \A file : WholeSide(file) => WholeSide(file)'
<1>1. ASSUME NEW b \in References!Blocks, NEW row
      PROVE  (RawOf(row, b) => RawOf(row, b)') /\ (SideOf(row, b) => SideOf(row, b)')
  BY DEF RawOf, SideOf
<1> QED
  BY <1>1 DEF WholeRaw, WholeSide

LEMMA FilesStay ==
    ASSUME ReferencesInv, UNCHANGED files, job'.at \notin {"pins", "sidecar", "provenance"},
           \A b \in References!Blocks : replies[b] # References!Nothing => replies'[b] = replies[b]
    PROVE  FilesWhole' /\ FilesInTurn'
<1>1. /\ \A file : WholeRaw(file) => WholeRaw(file)'
      /\ \A file : WholeSide(file) => WholeSide(file)'
  BY RowsStay DEF ReferencesInv
<1>2. /\ WholeRaw(files.raw) => WholeRaw(files.raw)'
      /\ WholeSide(files.sidecar) => WholeSide(files.sidecar)'
      /\ WholeSide(files.provenance.sidecar) => WholeSide(files.provenance.sidecar)'
      /\ WholeRaw(files.provenance.raw) => WholeRaw(files.provenance.raw)'
  BY <1>1 DEF WholeRaw, WholeSide
<1> QED
  BY <1>2 DEF ReferencesInv, FilesWhole, FilesInTurn

LEMMA StartReferencesKeeps ==
    ASSUME ReferencesInv, NEW dataset \in Datasets, NEW wanted \in Wanted, NEW offline \in BOOLEAN,
           References!Start(dataset, wanted, offline)
    PROVE  ReferencesInv'
<1> DEFINE asked == IF wanted = <<>> THEN References!Blocks ELSE wanted[1]
           valid == References!Valid(dataset) /\ asked \subseteq References!Blocks
           targets == IF valid THEN References!InOrder(asked) ELSE <<>>
           first == IF valid THEN "collect" ELSE "raised"
           next == [References!NoJob EXCEPT !.at = first, !.offline = offline, !.targets = targets]
<1>1. job' = next /\ UNCHANGED <<replies, files>>
  BY DEF References!Start
<1>2. /\ targets \in Seq(References!Blocks)
      /\ References!Full(targets) => \A k \in References!Blocks : targets[k] = k
  <2>1. CASE valid
    BY <2>1, OrderedBlocks
  <2>2. CASE ~ valid
    BY <2>2, ReferenceFacts DEF References!Full
  <2> QED
    BY <2>1, <2>2
<1>3. /\ next.at = first /\ next.targets = targets /\ next.raw = <<>> /\ next.rows = <<>>
      /\ next \in JobRecords /\ first \in {"collect", "raised"}
  <2>1. first \in {"collect", "raised"}
    OBVIOUS
  <2> HIDE DEF targets, first
  <2>2. /\ next.at = first /\ next.offline = offline /\ next.targets = targets
        /\ next.fresh = FALSE /\ next.raw = <<>> /\ next.rows = <<>>
    BY DEF References!NoJob
  <2>3. first \in References!Resting \cup {"collect"} \cup ReferenceFiles
    BY <2>1 DEF References!Resting
  <2>4. <<>> \in Seq(RawRows) /\ <<>> \in Seq(SideRows)
    OBVIOUS
  <2>5. References!NoJob \in JobRecords
    BY <2>4 DEF References!NoJob, JobRecords, References!Resting
  <2>6. next \in JobRecords
    <3> HIDE DEF JobRecords
    <3>1. JobRecords = [at : References!Resting \cup {"collect"} \cup ReferenceFiles,
                        offline : BOOLEAN, targets : Seq(References!Blocks), fresh : BOOLEAN,
                        raw : Seq(RawRows), rows : Seq(SideRows)]
      BY DEF JobRecords
    <3> QED
      BY <1>2, <2>3, <2>5, <3>1
  <2> QED
    BY <2>1, <2>2, <2>6
<1> HIDE DEF next, targets, first
<1>4. ReferencesTyped'
  BY <1>1, <1>3 DEF ReferencesInv, ReferencesTyped
<1>5. RowsCollected'
  <2>1. Len(targets) \in Nat
    BY <1>2
  <2> QED
    BY <1>1, <1>2, <1>3, <2>1 DEF RowsCollected
<1>6. WindowCollected'
  BY <1>1, <1>3 DEF WindowCollected, Writing
<1>7. FilesWhole' /\ FilesInTurn'
  BY <1>1, <1>3, FilesStay
<1> QED
  BY <1>4, <1>5, <1>6, <1>7 DEF ReferencesInv

\* A block's rows are added, made of its answer.
LEMMA CollectedKeeps ==
    ASSUME ReferencesInv, References!Collecting, NEW reply \in Replies, NEW via \in Vias,
           References!Collected(reply, via), UNCHANGED files,
           replies' = [replies EXCEPT ![References!Target] = reply],
           replies[References!Target] \in {References!Nothing, reply}
    PROVE  ReferencesInv'
<1> DEFINE b == References!Target
           next == [job EXCEPT !.raw = Append(job.raw, References!RawRow(b, reply, via)),
                               !.rows = Append(job.rows, References!SidecarRow(b, reply)),
                               !.fresh = job.fresh \/ via = "network"]
<1>1. job' = next /\ job.at = "collect" /\ Len(job.rows) < Len(job.targets)
  BY DEF References!Collected, References!Collecting
<1>2. /\ job \in JobRecords /\ Len(job.raw) = Len(job.rows) /\ Len(job.rows) \in Nat
      /\ Len(job.targets) \in Nat
      /\ job.raw \in Seq(RawRows) /\ job.rows \in Seq(SideRows)
      /\ job.targets \in Seq(References!Blocks)
  BY DEF ReferencesInv, ReferencesTyped, RowsCollected, JobRecords
<1>3. b \in References!Blocks /\ b = job.targets[Len(job.rows) + 1]
  BY <1>1, <1>2 DEF References!Target
<1>4. /\ References!RawRow(b, reply, via) \in RawRows
      /\ References!SidecarRow(b, reply) \in SideRows
  BY <1>3 DEF RawRows, SideRows
<1>5. /\ replies'[b] = reply /\ reply # References!Nothing
      /\ \A c \in References!Blocks : replies[c] # References!Nothing => replies'[c] = replies[c]
      /\ replies' \in [References!Blocks -> Replies \cup {References!Nothing}]
  <2>1. reply # References!Nothing
    <3>1. DOMAIN reply = 1 .. 3 /\ DOMAIN References!Nothing = {} /\ 1 \in 1 .. 3
      BY ReferenceFacts DEF References!Nothing
    <3> QED
      BY <3>1
  <2>2. replies \in [References!Blocks -> Replies \cup {References!Nothing}]
    BY DEF ReferencesInv, ReferencesTyped
  <2> HIDE DEF b
  <2>3. replies' = [replies EXCEPT ![b] = reply] /\ replies[b] \in {References!Nothing, reply}
    BY DEF b
  <2>4. replies'[b] = reply
    BY <1>3, <2>2, <2>3
  <2>5. \A c \in References!Blocks : replies[c] # References!Nothing => replies'[c] = replies[c]
    BY <1>3, <2>2, <2>3
  <2>6. replies' \in [References!Blocks -> Replies \cup {References!Nothing}]
    BY <1>3, <2>2, <2>3
  <2> QED
    BY <2>1, <2>4, <2>5, <2>6
<1>6. /\ next \in JobRecords /\ next.at = "collect" /\ next.targets = job.targets
      /\ next.raw = Append(job.raw, References!RawRow(b, reply, via))
      /\ next.rows = Append(job.rows, References!SidecarRow(b, reply))
  <2> HIDE DEF b
  <2>1. /\ Append(job.raw, References!RawRow(b, reply, via)) \in Seq(RawRows)
        /\ Append(job.rows, References!SidecarRow(b, reply)) \in Seq(SideRows)
        /\ (job.fresh \/ via = "network") \in BOOLEAN
    BY <1>2, <1>4
  <2> QED
    BY <1>1, <1>2, <2>1 DEF JobRecords
<1> HIDE DEF next, b
<1>7. ReferencesTyped'
  BY <1>1, <1>5, <1>6 DEF ReferencesInv, ReferencesTyped
<1>8. RowsCollected'
  <2>1. /\ Len(job'.rows) = Len(job.rows) + 1 /\ Len(job'.raw) = Len(job.rows) + 1
        /\ job'.targets = job.targets
    BY <1>1, <1>2, <1>4, <1>6
  <2>2. ASSUME NEW k \in 1 .. Len(job'.rows)
        PROVE  RawOf(job.raw[k], job.targets[k])' /\ SideOf(job.rows[k], job.targets[k])'
    <3>1. CASE k = Len(job.rows) + 1
      <4>1. /\ job'.raw[k] = References!RawRow(b, reply, via)
            /\ job'.rows[k] = References!SidecarRow(b, reply) /\ job'.targets[k] = b
        BY <1>1, <1>2, <1>3, <1>4, <1>6, <3>1
      <4> QED
        BY <1>5, <4>1 DEF RawOf, SideOf
    <3>2. CASE k # Len(job.rows) + 1
      <4>1. k \in 1 .. Len(job.rows)
        BY <1>2, <2>1, <3>2
      <4>2. job'.raw[k] = job.raw[k] /\ job'.rows[k] = job.rows[k]
        BY <1>1, <1>2, <1>4, <1>6, <4>1
      <4>3. job.targets[k] \in References!Blocks
        BY <1>1, <1>2, <4>1
      <4>4. RawOf(job.raw[k], job.targets[k]) /\ SideOf(job.rows[k], job.targets[k])
        BY <4>1 DEF ReferencesInv, RowsCollected
      <4> QED
        BY <1>5, <2>1, <4>2, <4>3, <4>4 DEF RawOf, SideOf
    <3> QED
      BY <3>1, <3>2
  <2>3. Len(job'.rows) <= Len(job'.targets)
    BY <1>1, <1>2, <2>1
  <2> QED
    BY <2>1, <2>2, <2>3 DEF ReferencesInv, RowsCollected
<1>9. WindowCollected'
  BY <1>1, <1>6 DEF WindowCollected, Writing
<1>10. FilesWhole' /\ FilesInTurn'
  BY <1>1, <1>5, <1>6, FilesStay
<1> QED
  BY <1>7, <1>8, <1>9, <1>10 DEF ReferencesInv

LEMMA ReadKeeps == ASSUME ReferencesInv, References!Reread \/ References!Read PROVE ReferencesInv'
<1> DEFINE b == References!Target
<1>1. /\ References!Collecting /\ job.at = "collect" /\ UNCHANGED files
      /\ replies \in [References!Blocks -> Replies \cup {References!Nothing}]
      /\ job \in JobRecords
  BY DEF References!Reread, References!Read, References!Collecting, ReferencesInv, ReferencesTyped
<1>2. b \in References!Blocks
  <2>1. /\ job.targets \in Seq(References!Blocks) /\ Len(job.rows) \in Nat
        /\ Len(job.rows) < Len(job.targets)
    BY <1>1 DEF References!Collecting, JobRecords
  <2> QED
    BY <2>1 DEF References!Target
<1>3. CASE References!Reread
  <2>1. /\ replies[b] # References!Nothing /\ References!Collected(replies[b], "cache")
        /\ UNCHANGED replies
    BY <1>3 DEF References!Reread
  <2>2. replies[b] \in Replies /\ replies' = [replies EXCEPT ![b] = replies[b]]
    <3> HIDE DEF b
    <3> QED
      BY <1>1, <1>2, <2>1
  <2> QED
    BY <1>1, <2>1, <2>2, CollectedKeeps DEF Vias
<1>4. ASSUME NEW reply \in Replies, replies[b] = References!Nothing,
             replies' = [replies EXCEPT ![b] = reply], References!Collected(reply, "network")
      PROVE  ReferencesInv'
  BY <1>1, <1>4, CollectedKeeps DEF Vias
<1>5. ASSUME job' = [job EXCEPT !.at = "raised"], UNCHANGED replies PROVE ReferencesInv'
  <2>1. /\ job' \in JobRecords /\ job'.at = "raised" /\ job'.targets = job.targets
        /\ job'.raw = job.raw /\ job'.rows = job.rows
    BY <1>1, <1>5 DEF JobRecords, References!Resting
  <2>2. FilesWhole' /\ FilesInTurn'
    BY <1>1, <1>5, <2>1, FilesStay
  <2> QED
    BY <1>1, <1>5, <2>1, <2>2
       DEF ReferencesInv, ReferencesTyped, RowsCollected, WindowCollected, Writing, RawOf, SideOf
<1> QED
  BY <1>3, <1>4, <1>5 DEF References!Read

LEMMA FinishKeeps == ASSUME ReferencesInv, References!Finish PROVE ReferencesInv'
<1>1. /\ job.at = "collect" /\ Len(job.rows) = Len(job.targets) /\ UNCHANGED <<replies, files>>
      /\ job' = [job EXCEPT !.at = IF References!Full(job.targets) THEN "raw" ELSE "subset"]
      /\ job \in JobRecords
  BY DEF References!Finish, ReferencesInv, ReferencesTyped
<1>2. /\ job' \in JobRecords /\ job'.targets = job.targets /\ job'.raw = job.raw
      /\ job'.rows = job.rows
      /\ job'.at = IF References!Full(job.targets) THEN "raw" ELSE "subset"
  BY <1>1 DEF JobRecords, ReferenceFiles
<1>3. ReferencesTyped' /\ RowsCollected'
  BY <1>1, <1>2 DEF ReferencesInv, ReferencesTyped, RowsCollected, RawOf, SideOf
<1>4. WindowCollected'
  BY <1>1, <1>2 DEF WindowCollected, Writing, References!Full
<1>5. FilesWhole' /\ FilesInTurn'
  BY <1>1, <1>2, FilesStay
<1> QED
  BY <1>3, <1>4, <1>5 DEF ReferencesInv

\* A whole window's rows are the content of whole files.
LEMMA WindowWhole ==
    ASSUME ReferencesInv, job.at \in Writing
    PROVE  WholeRaw(job.raw) /\ WholeSide(job.rows)
<1>1. /\ job \in JobRecords /\ References!Full(job.targets) /\ Len(job.rows) = Canonical
      /\ Len(job.raw) = Canonical
      /\ \A k \in References!Blocks : job.targets[k] = k
      /\ \A k \in References!Blocks :
            RawOf(job.raw[k], job.targets[k]) /\ SideOf(job.rows[k], job.targets[k])
  BY DEF ReferencesInv, ReferencesTyped, RowsCollected, WindowCollected, References!Blocks
<1>2. job.raw \in Seq(RawRows) /\ job.rows \in Seq(SideRows)
  BY <1>1 DEF JobRecords
<1> QED
  BY <1>1, <1>2 DEF WholeRaw, WholeSide

LEMMA WriteKeeps == ASSUME ReferencesInv, References!Write PROVE ReferencesInv'
<1> DEFINE file == job.at
<1>1. /\ file \in ReferenceFiles /\ DOMAIN files = ReferenceFiles /\ UNCHANGED replies
      /\ files' = [files EXCEPT ![file] = References!Content(file)]
      /\ job' = [job EXCEPT !.at = References!Following(file)]
      /\ job \in JobRecords
  BY DEF References!Write, ReferencesInv, ReferencesTyped
<1>2. References!Following(file) \in References!Resting \cup {"collect"} \cup ReferenceFiles
  BY DEF References!Following, References!Resting, ReferenceFiles
<1>3. /\ job' \in JobRecords /\ job'.targets = job.targets /\ job'.raw = job.raw
      /\ job'.rows = job.rows /\ job'.at = References!Following(file)
  BY <1>1, <1>2 DEF JobRecords
<1>4. DOMAIN files' = ReferenceFiles
  BY <1>1
<1>5. ReferencesTyped' /\ RowsCollected'
  BY <1>1, <1>3, <1>4 DEF ReferencesInv, ReferencesTyped, RowsCollected, RawOf, SideOf
<1>6. WindowCollected'
  BY <1>1, <1>3
     DEF ReferencesInv, WindowCollected, Writing, References!Following, ReferenceFiles
<1>7. \A other \in ReferenceFiles : files'[other] =
         IF other = file THEN References!Content(file) ELSE files[other]
  BY <1>1, <1>4
<1>8. /\ \A content1 : WholeRaw(content1)' = WholeRaw(content1)
      /\ \A content1 : WholeSide(content1)' = WholeSide(content1)
  BY <1>1 DEF WholeRaw, WholeSide, RawOf, SideOf
<1>9. file \in Writing => WholeRaw(job.raw) /\ WholeSide(job.rows)
  BY WindowWhole
<1>10. /\ files'.raw = IF file = "raw" THEN job.raw ELSE files.raw
       /\ files'.sidecar = IF file = "sidecar" THEN job.rows ELSE files.sidecar
       /\ file # "provenance" => files'.provenance = files.provenance
       /\ file = "provenance" => /\ files'.provenance.raw = job.raw
                                 /\ files'.provenance.sidecar = job.rows
  BY <1>7 DEF References!Content, ReferenceFiles
<1>11. References!Nothing = <<>> /\ \A content1 : WholeSide(content1) => content1 # References!Nothing
  BY ReferenceFacts DEF References!Nothing, WholeSide
<1> HIDE DEF file
<1>12. /\ FilesWhole /\ FilesInTurn
       /\ file \in {"pins", "sidecar", "provenance"} => WholeRaw(files.raw)
       /\ file = "provenance" => WholeSide(files.sidecar)
  BY DEF ReferencesInv, FilesInTurn, file
<1>13. /\ files'.raw # References!Nothing => WholeRaw(files'.raw)
       /\ files'.sidecar # References!Nothing => WholeSide(files'.sidecar) /\ WholeRaw(files'.raw)
  BY <1>1, <1>9, <1>10, <1>12 DEF FilesWhole, Writing
<1>14. files'.provenance # References!Nothing =>
          /\ WholeSide(files'.provenance.sidecar) /\ WholeRaw(files'.provenance.raw)
          /\ files'.sidecar # References!Nothing
  BY <1>1, <1>9, <1>10, <1>11, <1>12 DEF FilesWhole, Writing
<1>15. FilesWhole'
  BY <1>8, <1>13, <1>14 DEF FilesWhole
<1>16. /\ job'.at \in {"pins", "sidecar", "provenance"} => WholeRaw(files'.raw)
       /\ job'.at = "provenance" => WholeSide(files'.sidecar)
  BY <1>1, <1>3, <1>9, <1>10, <1>12 DEF Writing, References!Following, ReferenceFiles
<1>17. FilesInTurn'
  BY <1>8, <1>16 DEF FilesInTurn
<1> QED
  BY <1>5, <1>6, <1>15, <1>17 DEF ReferencesInv

LEMMA ReferencesKept ==
    ASSUME ReferencesInv, References!Next \/ UNCHANGED referenceVars PROVE ReferencesInv'
<1>1. CASE References!Die
  <2>1. job' = [References!NoJob EXCEPT !.at = "dead"] /\ UNCHANGED <<replies, files>>
    BY <1>1 DEF References!Die
  <2>2. job' = [at |-> "dead", offline |-> FALSE, targets |-> <<>>, fresh |-> FALSE,
                raw |-> <<>>, rows |-> <<>>]
    BY <2>1 DEF References!NoJob
  <2>3. job' \in JobRecords
    BY <2>2 DEF JobRecords, References!Resting
  <2>4. ~ References!Full(job'.targets)
    BY <2>2, ReferenceFacts DEF References!Full
  <2>5. FilesWhole' /\ FilesInTurn'
    BY <2>1, <2>2, FilesStay
  <2> QED
    BY <2>1, <2>2, <2>3, <2>4, <2>5
       DEF ReferencesInv, ReferencesTyped, RowsCollected, WindowCollected, Writing, References!Full
<1>2. CASE UNCHANGED referenceVars
  BY <1>2 DEF referenceVars, ReferencesInv, ReferencesTyped, RowsCollected, WindowCollected,
              FilesWhole, FilesInTurn, WholeRaw, WholeSide, RawOf, SideOf
<1> QED
  BY <1>1, <1>2, ReadKeeps, FinishKeeps, WriteKeeps, StartReferencesKeeps
     DEF References!Next, References!ReferenceStep

\* Division rounds to the tick that is not above the mean.
LEMMA MeanTickFloors ==
    ASSUME NEW delta \in Int, NEW seconds \in Nat \ {0}
    PROVE  /\ References!ComputeMeanTick(delta, seconds) \in Int
           /\ References!ComputeMeanTick(delta, seconds) * seconds <= delta
           /\ delta < (References!ComputeMeanTick(delta, seconds) + 1) * seconds
<1>1. delta \div seconds \in Int /\ delta % seconds \in 0 .. seconds - 1
  OBVIOUS
<1>2. delta = seconds * (delta \div seconds) + (delta % seconds)
  OBVIOUS
<1> DEFINE tick == delta \div seconds
<1> HIDE DEF tick
<1>3. tick \in Int /\ seconds * tick <= delta /\ delta < seconds * tick + seconds
  BY <1>1, <1>2 DEF tick
<1>4. tick * seconds = seconds * tick /\ (tick + 1) * seconds = seconds * tick + seconds
  BY <1>3
<1> QED
  BY <1>3, <1>4 DEF References!ComputeMeanTick, tick

LEMMA RawFloored ==
    ASSUME NEW row, NEW b \in References!Blocks, NEW reply \in Replies, NEW via,
           row = References!RawRow(b, reply, via)
    PROVE  References!Floored(row)
<1> SUFFICES ASSUME NEW w \in 1 .. 2, row.decoded[w + 1].tick # References!Nothing
             PROVE  /\ row.decoded[w + 1].tick[1] * Seconds[w] <= row.reply[w + 1].value
                    /\ row.reply[w + 1].value < (row.decoded[w + 1].tick[1] + 1) * Seconds[w]
  BY DEF References!Floored
<1>1. row.reply = reply /\ row.decoded = References!Decode(reply)
  BY DEF References!RawRow
<1>2. row.decoded[w + 1] = References!DecodeTwap(reply[w + 1], Seconds[w])
  <2>1. CASE w = 1
    BY <1>1, <2>1 DEF References!Decode
  <2>2. CASE w = 2
    BY <1>1, <2>2 DEF References!Decode
  <2> QED
    BY <2>1, <2>2
<1>3. /\ w + 1 \in 1 .. 3 /\ reply[w + 1].value \in Int /\ Seconds[w] \in Nat \ {0}
      /\ reply[w + 1].kind \in {"reverted", "garbled", "short", "value"}
  BY ReferenceFacts
<1>4. row.decoded[w + 1].tick =
         <<References!ComputeMeanTick(reply[w + 1].value, Seconds[w])>>
  BY <1>2, <1>3 DEF References!DecodeTwap, References!Refused
<1>5. row.decoded[w + 1].tick[1] = References!ComputeMeanTick(reply[w + 1].value, Seconds[w])
  BY <1>4
<1> QED
  BY <1>1, <1>3, <1>5, MeanTickFloors

\* There is a price where the read succeeded.
LEMMA PricedWhenOk ==
    ASSUME NEW reply \in Replies, NEW s \in 1 .. 3
    PROVE  References!Decode(reply)[s].price # References!Nothing
              <=> References!Decode(reply)[s].status = "ok"
<1>1. /\ reply[s].kind \in {"reverted", "garbled", "short", "value"}
      /\ s = 1 => reply[s].kind # "short"
  BY ReferenceFacts
<1>2. \A n : <<n>> # References!Nothing
  BY DEF References!Nothing
<1>3. CASE s = 1
  BY <1>1, <1>2, <1>3 DEF References!Decode, References!DecodeRate, References!Refused
<1>4. CASE s = 2
  BY <1>1, <1>2, <1>4 DEF References!Decode, References!DecodeTwap, References!Refused
<1>5. CASE s = 3
  BY <1>1, <1>2, <1>5 DEF References!Decode, References!DecodeTwap, References!Refused
<1> QED
  BY <1>3, <1>4, <1>5

LEMMA ReferencesPublished == ReferencesInv => References!ReferencesExact
<1> SUFFICES ASSUME ReferencesInv PROVE References!SidecarWhole /\ References!ReferencesBacked
  BY DEF References!ReferencesExact
<1>1. \A b \in References!Blocks : replies[b] # References!Nothing => replies[b] \in Replies
  BY DEF ReferencesInv, ReferencesTyped
<1>2. ASSUME files.sidecar # References!Nothing
      PROVE  WholeSide(files.sidecar) /\ WholeRaw(files.raw)
  BY <1>2 DEF ReferencesInv, FilesWhole
<1>3. ASSUME files.sidecar # References!Nothing, NEW b \in References!Blocks
      PROVE  /\ files.sidecar[b].block = b /\ files.raw[b].block = b
             /\ References!Floored(files.raw[b])
             /\ \A s \in 1 .. 3 :
                   /\ files.sidecar[b].values[s].status = files.raw[b].decoded[s].status
                   /\ files.sidecar[b].values[s].price # References!Nothing
                        <=> files.sidecar[b].values[s].status = "ok"
  <2>1. /\ replies[b] # References!Nothing /\ replies[b] \in Replies
        /\ files.sidecar[b] = References!SidecarRow(b, replies[b])
    BY <1>1, <1>2, <1>3 DEF WholeSide, SideOf
  <2>2. PICK via \in Vias : files.raw[b] = References!RawRow(b, replies[b], via)
    BY <1>2, <1>3 DEF WholeRaw, RawOf
  <2>3. References!Floored(files.raw[b])
    BY <2>1, <2>2, RawFloored
  <2>4. ASSUME NEW s \in 1 .. 3
        PROVE  /\ files.sidecar[b].values[s].status = References!Decode(replies[b])[s].status
               /\ files.sidecar[b].values[s].price = References!Decode(replies[b])[s].price
    BY <2>1 DEF References!SidecarRow
  <2>5. files.sidecar[b].block = b /\ files.raw[b].block = b
    BY <2>1, <2>2 DEF References!SidecarRow, References!RawRow
  <2>6. files.raw[b].decoded = References!Decode(replies[b])
    BY <2>2 DEF References!RawRow
  <2> QED
    BY <2>1, <2>3, <2>4, <2>5, <2>6, PricedWhenOk
<1>4. References!SidecarWhole
  BY <1>2, <1>3 DEF References!SidecarWhole, WholeSide, WholeRaw
<1>5. ASSUME files.provenance # References!Nothing
      PROVE  /\ files.provenance.sidecar = files.sidecar
             /\ \A b \in References!Blocks :
                   files.provenance.raw[b].reply = files.raw[b].reply
  <2>1. /\ WholeSide(files.provenance.sidecar) /\ WholeRaw(files.provenance.raw)
        /\ WholeSide(files.sidecar) /\ WholeRaw(files.raw)
    BY <1>5 DEF ReferencesInv, FilesWhole
  <2>2. /\ files.provenance.sidecar \in Seq(SideRows) /\ files.sidecar \in Seq(SideRows)
        /\ Len(files.provenance.sidecar) = Canonical /\ Len(files.sidecar) = Canonical
        /\ \A b \in 1 .. Canonical : files.provenance.sidecar[b] = files.sidecar[b]
    BY <2>1 DEF WholeSide, SideOf, References!Blocks
  <2>3. files.provenance.sidecar = files.sidecar
    BY <2>2
  <2>4. ASSUME NEW b \in References!Blocks
        PROVE  files.provenance.raw[b].reply = files.raw[b].reply
    <3>1. PICK first \in Vias : files.raw[b] = References!RawRow(b, replies[b], first)
      BY <2>1 DEF WholeRaw, RawOf
    <3>2. PICK second \in Vias :
             files.provenance.raw[b] = References!RawRow(b, replies[b], second)
      BY <2>1 DEF WholeRaw, RawOf
    <3> QED
      BY <3>1, <3>2 DEF References!RawRow
  <2> QED
    BY <2>3, <2>4
<1>6. References!ReferencesBacked
  BY <1>5 DEF References!ReferencesBacked
<1> QED
  BY <1>4, <1>6

\* Of however many targets, with whatever header times, guesses and slots missed,
\* each gets the newest block whose time has come and its row the last candle that
\* was over (find_block_for_target, match_binance_candle); and whatever runs of
\* some or all blocks fail, die and are repeated, references are published whole,
\* each made of its block's answers (collect_block_references, main).
THEOREM ReadingsAreExact == Spec => []ReadingsExact
<1>1. Init => SweepInv /\ ReferencesInv
  BY SweepInit, ReferencesInit
<1>2. SweepInv /\ ReferencesInv /\ [Next]_vars => (SweepInv /\ ReferencesInv)'
  BY OwnSteps, SweepKept, ReferencesKept
<1>3. SweepInv /\ ReferencesInv => ReadingsExact
  BY ReferencesPublished DEF SweepInv, SweepTyped, ReadingsExact, Sweep!NeverLost
<1> QED
  BY <1>1, <1>2, <1>3, PTL DEF Spec
-----------------------------------------------------------------------------
(***************************************************************************)
(* The selection of crashes (select_binance_crashes.py).                   *)
(***************************************************************************)

LEMMA SameCard == ASSUME NEW S PROVE Selection!Cardinality(S) = Cardinality(S)
  BY DEF Selection!Cardinality, Cardinality

\* A strict total order on S.
Orders(order, S) ==
    /\ \A g \in S : <<g, g>> \notin order
    /\ \A g1, g2, g3 \in S :
          <<g1, g2>> \in order /\ <<g2, g3>> \in order => <<g1, g3>> \in order
    /\ \A g1, g2 \in S : g1 # g2 => <<g1, g2>> \in order \/ <<g2, g1>> \in order

PlaceOf(S, order, h) == Cardinality(Selection!Preceding(S, order, h))

LEMMA PlaceFacts ==
    ASSUME NEW S, IsFiniteSet(S), NEW order, Orders(order, S)
    PROVE  /\ Cardinality(S) \in Nat
           /\ \A g \in S : PlaceOf(S, order, g) \in 0 .. Cardinality(S) - 1
           /\ \A g, h \in S : <<g, h>> \in order => PlaceOf(S, order, g) < PlaceOf(S, order, h)
<1> DEFINE ahead(h) == Selection!Preceding(S, order, h)
<1>1. Cardinality(S) \in Nat
  BY FS_CardinalityType
<1>2. ASSUME NEW g \in S
      PROVE  /\ ahead(g) \in SUBSET S /\ IsFiniteSet(ahead(g)) /\ g \notin ahead(g)
             /\ Cardinality(ahead(g)) \in Nat
  <2>1. ahead(g) \in SUBSET S /\ g \notin ahead(g)
    BY DEF Selection!Preceding, Orders
  <2> QED
    BY <2>1, FS_Subset, FS_CardinalityType
<1>3. ASSUME NEW g \in S PROVE PlaceOf(S, order, g) \in 0 .. Cardinality(S) - 1
  <2>1. Cardinality(ahead(g)) <= Cardinality(S) /\ Cardinality(ahead(g)) # Cardinality(S)
    BY <1>2, FS_Subset
  <2> QED
    BY <1>1, <1>2, <2>1 DEF PlaceOf
<1>4. ASSUME NEW g \in S, NEW h \in S, <<g, h>> \in order
      PROVE  PlaceOf(S, order, g) < PlaceOf(S, order, h)
  <2>1. ahead(g) \in SUBSET ahead(h) /\ g \in ahead(h)
    BY <1>4 DEF Selection!Preceding, Orders
  <2>2. ahead(g) # ahead(h)
    BY <1>2, <2>1
  <2>3. Cardinality(ahead(g)) <= Cardinality(ahead(h)) /\ Cardinality(ahead(g)) # Cardinality(ahead(h))
    <3> HIDE DEF ahead
    <3> QED
      BY <1>2, <2>1, <2>2, FS_Subset
  <2> QED
    BY <1>2, <2>3 DEF PlaceOf
<1> QED
  BY <1>1, <1>3, <1>4

\* Every place is some element's.
LEMMA PlacesFilled ==
    ASSUME NEW S, IsFiniteSet(S), NEW order, Orders(order, S), NEW k \in 1 .. Cardinality(S)
    PROVE  \E h \in S : PlaceOf(S, order, h) = k - 1
<1> DEFINE n == Cardinality(S)
           placed == [h \in S |-> PlaceOf(S, order, h) + 1]
<1>1. n \in Nat /\ IsFiniteSet(1 .. n) /\ Cardinality(1 .. n) = n
  BY PlaceFacts, FS_Interval
<1>2. placed \in [S -> 1 .. n]
  <2>1. ASSUME NEW h \in S PROVE PlaceOf(S, order, h) + 1 \in 1 .. n
    BY <1>1, PlaceFacts
  <2> QED
    BY <2>1
<1>3. ASSUME NEW g \in S, NEW h \in S, g # h PROVE placed[g] # placed[h]
  <2>1. <<g, h>> \in order \/ <<h, g>> \in order
    BY <1>3 DEF Orders
  <2>2. /\ PlaceOf(S, order, g) \in Int /\ PlaceOf(S, order, h) \in Int
        /\ PlaceOf(S, order, g) # PlaceOf(S, order, h)
    <3>1. PlaceOf(S, order, g) \in 0 .. n - 1 /\ PlaceOf(S, order, h) \in 0 .. n - 1
      BY PlaceFacts
    <3>2. PlaceOf(S, order, g) < PlaceOf(S, order, h) \/ PlaceOf(S, order, h) < PlaceOf(S, order, g)
      BY <2>1, PlaceFacts
    <3> QED
      BY <1>1, <3>1, <3>2
  <2> QED
    BY <2>2
<1> HIDE DEF placed
<1>4. placed \in Injection(S, 1 .. n)
  BY <1>2, <1>3 DEF Injection, IsInjective
<1>5. placed \in Surjection(S, 1 .. n)
  BY <1>1, <1>4, FS_Injection
<1>6. PICK h \in S : placed[h] = k
  BY <1>5 DEF Surjection
<1>7. PlaceOf(S, order, h) \in Int /\ placed[h] = PlaceOf(S, order, h) + 1
  BY PlaceFacts DEF placed
<1> QED
  BY <1>6, <1>7

\* Elements that are each at the place that those before them tell.
Placed(S, order, s) ==
    /\ s \in [1 .. Cardinality(S) -> S]
    /\ \A k \in 1 .. Cardinality(S) : PlaceOf(S, order, s[k]) = k - 1

LEMMA InPlaces ==
    ASSUME NEW S, IsFiniteSet(S), NEW order, Orders(order, S), NEW s, Placed(S, order, s)
    PROVE  /\ \A h \in S : \E k \in 1 .. Cardinality(S) : s[k] = h
           /\ \A k, m \in 1 .. Cardinality(S) : k < m => <<s[k], s[m]>> \in order /\ s[k] # s[m]
<1> DEFINE n == Cardinality(S)
<1>1. n \in Nat
  BY PlaceFacts
<1>4. \A k \in 1 .. n : s[k] \in S /\ PlaceOf(S, order, s[k]) = k - 1
  BY DEF Placed
<1>5. ASSUME NEW k \in 1 .. n, NEW m \in 1 .. n, k < m
      PROVE  <<s[k], s[m]>> \in order /\ s[k] # s[m]
  <2>1. /\ s[k] \in S /\ s[m] \in S
        /\ PlaceOf(S, order, s[k]) = k - 1 /\ PlaceOf(S, order, s[m]) = m - 1
        /\ k \in Int /\ m \in Int
    BY <1>4
  <2>2. s[k] # s[m]
    BY <1>5, <2>1
  <2>3. ~(<<s[m], s[k]>> \in order)
    <3>1. <<s[m], s[k]>> \in order => PlaceOf(S, order, s[m]) < PlaceOf(S, order, s[k])
      BY <2>1, PlaceFacts
    <3> QED
      BY <1>5, <2>1, <3>1
  <2> QED
    BY <2>1, <2>2, <2>3 DEF Orders
<1>6. ASSUME NEW h \in S PROVE \E k \in 1 .. n : s[k] = h
  <2> DEFINE p == PlaceOf(S, order, h)
  <2>1. p \in 0 .. n - 1
    BY PlaceFacts
  <2>2. p + 1 \in 1 .. n /\ (p + 1) - 1 = p
    BY <1>1, <2>1
  <2> HIDE DEF p
  <2>3. s[p + 1] \in S /\ PlaceOf(S, order, s[p + 1]) = p
    BY <1>4, <2>2
  <2>4. s[p + 1] = h
    <3>1. /\ <<s[p + 1], h>> \in order => PlaceOf(S, order, s[p + 1]) < PlaceOf(S, order, h)
          /\ <<h, s[p + 1]>> \in order => PlaceOf(S, order, h) < PlaceOf(S, order, s[p + 1])
      BY <2>3, PlaceFacts
    <3>2. p \in Int
      BY <1>1, <2>1
    <3>3. ~(<<s[p + 1], h>> \in order) /\ ~(<<h, s[p + 1]>> \in order)
      BY <2>3, <3>1, <3>2 DEF p
    <3> QED
      BY <2>3, <3>3 DEF Orders
  <2> QED
    BY <2>2, <2>4
<1> QED
  BY <1>5, <1>6

\* A sorted set: every element once, each after those that precede it.
LEMMA SortedFacts ==
    ASSUME NEW S, IsFiniteSet(S), NEW order, Orders(order, S)
    PROVE  LET s == Selection!Sorted(S, order)
               n == Cardinality(S) IN
           /\ n \in Nat /\ s \in [1 .. n -> S]
           /\ \A h \in S : \E k \in 1 .. n : s[k] = h
           /\ \A k, m \in 1 .. n : k < m => <<s[k], s[m]>> \in order /\ s[k] # s[m]
<1> DEFINE n == Cardinality(S)
           s == Selection!Sorted(S, order)
           nth(k) == CHOOSE h \in S : PlaceOf(S, order, h) = k - 1
<1>1. n \in Nat
  BY PlaceFacts
<1>2. ASSUME NEW k \in 1 .. n
      PROVE  nth(k) \in S /\ PlaceOf(S, order, nth(k)) = k - 1
  BY PlacesFilled
<1>3. s = [k \in 1 .. n |-> nth(k)]
  BY SameCard DEF Selection!Sorted, PlaceOf
<1> HIDE DEF nth, s
<1>4. s \in [1 .. n -> S] /\ \A k \in 1 .. n : s[k] \in S /\ PlaceOf(S, order, s[k]) = k - 1
  BY <1>2, <1>3
<1>5. /\ \A h \in S : \E k \in 1 .. n : s[k] = h
      /\ \A k, m \in 1 .. n : k < m => <<s[k], s[m]>> \in order /\ s[k] # s[m]
  <2>1. Placed(S, order, s)
    BY <1>4 DEF Placed
  <2> QED
    BY <2>1, InPlaces
<1> QED
  BY <1>1, <1>4, <1>5 DEF s

LEMMA SelectionFacts ==
    /\ Hours \in SUBSET Nat /\ IsFiniteSet(Hours)
    /\ DayOf \in [Hours -> Nat] /\ Drop \in [1 .. MaxIssue -> [Hours -> Nat]]
    /\ Separation \in Nat \ {0} /\ Count \in Nat \ {0} /\ MaxIssue \in Nat \ {0}
  BY ResearchAssumption DEF Selection!SelectionAssumption, Selection!IsFiniteSet, IsFiniteSet

\* A set of numbers that has 0 and every successor has every number.
LEMMA AllNumbers ==
    ASSUME NEW good, 0 \in good, \A n \in Nat : n \in good => n + 1 \in good
    PROVE  Nat \subseteq good
<1> DEFINE bad == Nat \ good
<1>1. ASSUME bad # {} PROVE FALSE
  <2>1. PICK n \in bad : \A m \in bad : n <= m
    BY <1>1, LeastExists
  <2>2. n # 0 /\ n - 1 \in Nat /\ n - 1 \notin bad
    BY <2>1
  <2> QED
    BY <2>1, <2>2
<1> QED
  BY <1>1

\* The fold over the ranked hours: what is admitted last, and the rest before it.
Top(s) == Selection!Max(s)
AdmitBody(list, g, s) ==
    IF s = {} THEN <<>> ELSE Selection!Admit(g[s \ {Top(s)}], list[Top(s)])
AdmitOf(list) == CHOOSE g : g = [s \in SUBSET DOMAIN list |-> AdmitBody(list, g, s)]

LEMMA GreedyFold ==
    LET list == Selection!Sorted(Hours, Selection!Deeper) IN
    Selection!Greedy = AdmitOf(list)[DOMAIN list]
  BY DEF Selection!Greedy, Selection!FoldLeft, Selection!MapThenFoldSet, AdmitOf, AdmitBody, Top

LEMMA TopIn ==
    ASSUME NEW n \in Nat, NEW s \in SUBSET (1 .. n), s # {}
    PROVE  Top(s) \in s
<1> DEFINE above == {n - x : x \in s}
<1>1. above \in SUBSET Nat /\ above # {}
  <2>1. ASSUME NEW x \in s PROVE n - x \in Nat
    OBVIOUS
  <2>2. PICK x : x \in s
    OBVIOUS
  <2>3. n - x \in above
    BY <2>2
  <2> QED
    BY <2>1, <2>3
<1>2. PICK d \in above : \A c \in above : d <= c
  <2> HIDE DEF above
  <2> QED
    BY <1>1, LeastExists
<1>3. PICK x \in s : d = n - x
  BY <1>2
<1>4. ASSUME NEW y \in s PROVE x >= y
  <2>1. n - y \in above
    OBVIOUS
  <2>2. n - x <= n - y /\ x \in Int /\ y \in Int
    BY <1>2, <1>3, <2>1
  <2> QED
    BY <2>2
<1> QED
  BY <1>3, <1>4 DEF Top, Selection!Max

LEMMA AdmitDefined ==
    ASSUME NEW n \in Nat, NEW list, DOMAIN list = 1 .. n
    PROVE  \A s \in SUBSET (1 .. n) : AdmitOf(list)[s] = AdmitBody(list, AdmitOf(list), s)
<1> DEFINE S == 1 .. n
           Small(k) == {s \in SUBSET S : Cardinality(s) <= k}
           Solves(k, g) == g = [s \in Small(k) |-> AdmitBody(list, g, s)]
           good == {k \in Nat : \E g : Solves(k, g)}
<1>0. IsFiniteSet(S) /\ Cardinality(S) \in Nat
  BY FS_Interval, FS_CardinalityType
<1>1. 0 \in good
  <2> DEFINE g == [s \in Small(0) |-> <<>>]
  <2>1. ASSUME NEW s \in Small(0) PROVE s = {}
    <3>1. IsFiniteSet(s) /\ Cardinality(s) \in Nat /\ Cardinality(s) <= 0
      BY <1>0, FS_Subset, FS_CardinalityType
    <3>2. Cardinality(s) = 0
      BY <3>1
    <3> QED
      BY <3>1, <3>2, FS_EmptySet
  <2>2. \A s \in Small(0) : AdmitBody(list, g, s) = <<>>
    BY <2>1 DEF AdmitBody
  <2>3. Solves(0, g)
    BY <2>2
  <2> QED
    BY <2>3
<1>2. ASSUME NEW k \in Nat, k \in good PROVE k + 1 \in good
  <2>1. PICK g : Solves(k, g)
    BY <1>2
  <2> DEFINE h == [s \in Small(k + 1) |-> AdmitBody(list, g, s)]
  <2>2. ASSUME NEW s \in Small(k + 1) PROVE AdmitBody(list, h, s) = AdmitBody(list, g, s)
    <3>1. CASE s = {}
      BY <3>1 DEF AdmitBody
    <3>2. CASE s # {}
      <4> DEFINE r == s \ {Top(s)}
      <4>1. IsFiniteSet(s) /\ Top(s) \in s /\ Cardinality(s) \in Nat
        BY <1>0, <3>2, FS_Subset, FS_CardinalityType, TopIn
      <4>2. r \in Small(k)
        <5>1. Cardinality(r) = Cardinality(s) - 1 /\ IsFiniteSet(r)
          BY <4>1, FS_RemoveElement
        <5>2. Cardinality(s) <= k + 1 /\ r \in SUBSET S
          OBVIOUS
        <5>3. Cardinality(r) <= k
          <6> HIDE DEF r
          <6> QED
            BY <4>1, <5>1, <5>2
        <5> QED
          BY <5>2, <5>3
      <4>3. r \in Small(k + 1)
        <5>1. r \in SUBSET S /\ Cardinality(r) <= k
          BY <4>2
        <5>2. Cardinality(r) \in Nat
          <6> HIDE DEF r
          <6> QED
            BY <1>0, <5>1, FS_Subset, FS_CardinalityType
        <5>3. Cardinality(r) <= k + 1
          <6> HIDE DEF r
          <6> QED
            BY <5>1, <5>2
        <5> QED
          BY <5>1, <5>3
      <4>4. h[r] = AdmitBody(list, g, r) /\ g[r] = AdmitBody(list, g, r)
        BY <2>1, <4>2, <4>3
      <4> HIDE DEF h, r
      <4> QED
        BY <3>2, <4>4 DEF AdmitBody, r
    <3> QED
      BY <3>1, <3>2
  <2>3. Solves(k + 1, h)
    <3>1. h = [s \in Small(k + 1) |-> AdmitBody(list, g, s)]
      OBVIOUS
    <3> HIDE DEF h, Small
    <3>2. [s \in Small(k + 1) |-> AdmitBody(list, g, s)]
            = [s \in Small(k + 1) |-> AdmitBody(list, h, s)]
      BY <2>2
    <3> QED
      BY <3>1, <3>2
  <2> HIDE DEF h, Solves
  <2> QED
    BY <2>3
<1>3. Cardinality(S) \in good
  BY <1>0, <1>1, <1>2, AllNumbers
<1>4. Small(Cardinality(S)) = SUBSET S
  BY <1>0, FS_Subset
<1>5. \E g : g = [s \in SUBSET S |-> AdmitBody(list, g, s)]
  BY <1>3, <1>4
<1> DEFINE all == AdmitOf(list)
<1>6. all = [s \in SUBSET S |-> AdmitBody(list, all, s)]
  BY <1>5 DEF AdmitOf
<1> HIDE DEF all
<1>7. \A s \in SUBSET S : all[s] = AdmitBody(list, all, s)
  BY <1>6
<1> QED
  BY <1>7 DEF all

\* The hours are admitted in their order.
LEMMA AdmitStep ==
    ASSUME NEW n \in Nat, NEW list, DOMAIN list = 1 .. n
    PROVE  /\ AdmitOf(list)[1 .. 0] = <<>>
           /\ \A k \in 0 .. n - 1 :
                 AdmitOf(list)[1 .. k + 1] = Selection!Admit(AdmitOf(list)[1 .. k], list[k + 1])
<1> DEFINE all == AdmitOf(list)
<1>1. \A s \in SUBSET (1 .. n) : all[s] = AdmitBody(list, all, s)
  BY AdmitDefined
<1> HIDE DEF all
<1>2. all[1 .. 0] = <<>>
  <2>1. 1 .. 0 = {} /\ {} \in SUBSET (1 .. n)
    OBVIOUS
  <2>2. all[{}] = <<>>
    BY <1>1, <2>1 DEF AdmitBody
  <2> QED
    BY <2>1, <2>2
<1>3. ASSUME NEW k \in 0 .. n - 1
      PROVE  all[1 .. k + 1] = Selection!Admit(all[1 .. k], list[k + 1])
  <2>1. 1 .. k + 1 \in SUBSET (1 .. n) /\ k + 1 \in 1 .. k + 1 /\ k + 1 \in Nat
    OBVIOUS
  <2>2. Top(1 .. k + 1) = k + 1
    <3>1. \A x \in 1 .. k + 1 : (\A y \in 1 .. k + 1 : x >= y) => x = k + 1
      BY <2>1
    <3>2. \A y \in 1 .. k + 1 : k + 1 >= y
      OBVIOUS
    <3> QED
      BY <2>1, <3>1, <3>2 DEF Top, Selection!Max
  <2>3. (1 .. k + 1) \ {k + 1} = 1 .. k
    OBVIOUS
  <2>4. 1 .. k + 1 # {}
    BY <2>1
  <2>5. all[1 .. k + 1] = AdmitBody(list, all, 1 .. k + 1)
    BY <1>1, <2>1
  <2> QED
    BY <2>2, <2>3, <2>4, <2>5 DEF AdmitBody
<1> QED
  BY <1>2, <1>3 DEF all

LEMMA DaysFacts ==
    ASSUME NEW g \in Hours, NEW h \in Hours
    PROVE  /\ Selection!Days(g, h) \in Nat /\ Selection!Days(g, g) = 0
           /\ Selection!Days(g, h) = Selection!Days(h, g)
<1>1. DayOf[g] \in Nat /\ DayOf[h] \in Nat
  BY SelectionFacts
<1> QED
  BY <1>1 DEF Selection!Days

\* What is admitted of the first k hours of a list, and why others are not: one
\* before them is too close, or there were enough before.
AdmittedOf(list, k, t) ==
    /\ t \in Seq(Hours) /\ Len(t) <= Count
    /\ \A m \in 1 .. Len(t) : \E j \in 1 .. k : t[m] = list[j]
    /\ \A m1, m2 \in 1 .. Len(t) : m1 # m2 => Selection!Days(t[m1], t[m2]) >= Separation
    /\ \A j \in 1 .. k :
          \/ \E m \in 1 .. Len(t) : t[m] = list[j]
          \/ \E m \in 1 .. Len(t), b \in 1 .. j - 1 :
                t[m] = list[b] /\ Selection!Days(t[m], list[j]) < Separation
          \/ Len(t) = Count /\ \A m \in 1 .. Len(t) : \E b \in 1 .. j - 1 : t[m] = list[b]

LEMMA AdmitKeeps ==
    ASSUME NEW n \in Nat, NEW list \in [1 .. n -> Hours], NEW k \in 0 .. n - 1, NEW t,
           AdmittedOf(list, k, t)
    PROVE  AdmittedOf(list, k + 1, Selection!Admit(t, list[k + 1]))
<1> DEFINE h == list[k + 1]
           u == Selection!Admit(t, h)
           fits == Len(t) < Count /\ \A m \in 1 .. Len(t) : Selection!Days(t[m], h) >= Separation
<1>0. /\ k + 1 \in 1 .. n /\ h \in Hours /\ t \in Seq(Hours) /\ Len(t) \in Nat
      /\ DOMAIN t = 1 .. Len(t) /\ \A m \in 1 .. Len(t) : t[m] \in Hours
      /\ Separation \in Nat /\ Count \in Nat
  BY SelectionFacts DEF AdmittedOf
<1>a. Len(t) \in Nat /\ Count \in Nat /\ Len(t) <= Count
  BY <1>0 DEF AdmittedOf
<1>1. CASE fits
  <2>1. /\ u = Append(t, h) /\ u \in Seq(Hours) /\ Len(u) = Len(t) + 1 /\ u[Len(t) + 1] = h
        /\ \A m \in 1 .. Len(t) : u[m] = t[m]
    BY <1>0, <1>1 DEF Selection!Admit
  <2> HIDE DEF u, h
  <2>2. Len(u) <= Count
    BY <1>0, <1>1, <2>1
  <2>3. ASSUME NEW m \in 1 .. Len(u) PROVE \E j \in 1 .. k + 1 : u[m] = list[j]
    <3>1. CASE m = Len(t) + 1
      BY <1>0, <2>1, <3>1 DEF h
    <3>2. CASE m # Len(t) + 1
      <4>1. m \in 1 .. Len(t)
        BY <1>0, <2>1, <3>2
      <4>2. PICK j \in 1 .. k : t[m] = list[j]
        BY <4>1 DEF AdmittedOf
      <4>3. j \in 1 .. k + 1
        BY <1>0
      <4> QED
        BY <2>1, <4>1, <4>2, <4>3
    <3> QED
      BY <3>1, <3>2
  <2>4. ASSUME NEW m1 \in 1 .. Len(u), NEW m2 \in 1 .. Len(u), m1 # m2
        PROVE  Selection!Days(u[m1], u[m2]) >= Separation
    <3>1. CASE m1 = Len(t) + 1
      <4>1. m2 \in 1 .. Len(t)
        BY <1>0, <2>1, <2>4, <3>1
      <4>2. Selection!Days(t[m2], h) >= Separation /\ t[m2] \in Hours
        BY <1>0, <1>1, <4>1
      <4>3. Selection!Days(h, t[m2]) = Selection!Days(t[m2], h)
        BY <1>0, <4>2, DaysFacts
      <4> QED
        BY <2>1, <3>1, <4>1, <4>2, <4>3
    <3>2. CASE m2 = Len(t) + 1
      <4>1. m1 \in 1 .. Len(t)
        BY <1>0, <2>1, <2>4, <3>2
      <4> QED
        BY <1>1, <2>1, <3>2, <4>1
    <3>3. CASE m1 # Len(t) + 1 /\ m2 # Len(t) + 1
      <4>1. m1 \in 1 .. Len(t) /\ m2 \in 1 .. Len(t)
        BY <1>0, <2>1, <3>3
      <4> QED
        BY <2>1, <2>4, <4>1 DEF AdmittedOf
    <3> QED
      BY <3>1, <3>2, <3>3
  <2>5. ASSUME NEW j \in 1 .. k + 1
        PROVE  \/ \E m \in 1 .. Len(u) : u[m] = list[j]
               \/ \E m \in 1 .. Len(u), b \in 1 .. j - 1 :
                     u[m] = list[b] /\ Selection!Days(u[m], list[j]) < Separation
    <3>0. \A m \in 1 .. Len(t) : m \in 1 .. Len(u)
      BY <1>0, <2>1
    <3>1. CASE j = k + 1
      <4>1. Len(t) + 1 \in 1 .. Len(u)
        BY <1>0, <2>1
      <4> QED
        BY <2>1, <3>1, <4>1 DEF h
    <3>2. CASE j # k + 1
      <4>1. j \in 1 .. k
        BY <1>0, <3>2
      <4>2. Len(t) # Count
        <5>1. Len(t) < Count
          BY <1>1
        <5> QED
          BY <1>a, <5>1
      <4>3. \/ \E m \in 1 .. Len(t) : t[m] = list[j]
            \/ \E m \in 1 .. Len(t), b \in 1 .. j - 1 :
                  t[m] = list[b] /\ Selection!Days(t[m], list[j]) < Separation
        BY <4>1, <4>2 DEF AdmittedOf
      <4> QED
        BY <2>1, <3>0, <4>3
    <3> QED
      BY <3>1, <3>2
  <2> QED
    BY <2>1, <2>2, <2>3, <2>4, <2>5 DEF AdmittedOf, h, u
<1>2. CASE ~fits
  <2>1. u = t
    BY <1>0, <1>2 DEF Selection!Admit
  <2>2. ASSUME NEW m \in 1 .. Len(t) PROVE \E j \in 1 .. k : t[m] = list[j]
    BY DEF AdmittedOf
  <2>3. \/ \E m \in 1 .. Len(t), b \in 1 .. (k + 1) - 1 :
              t[m] = list[b] /\ Selection!Days(t[m], h) < Separation
        \/ Len(t) = Count /\ \A m \in 1 .. Len(t) : \E b \in 1 .. (k + 1) - 1 : t[m] = list[b]
    <3>0. (k + 1) - 1 = k
      BY <1>0
    <3>1. CASE Len(t) < Count
      <4>1. PICK m \in 1 .. Len(t) : ~(Selection!Days(t[m], h) >= Separation)
        BY <1>2, <3>1
      <4>2. Selection!Days(t[m], h) \in Nat
        BY <1>0, <4>1, DaysFacts
      <4>3. Selection!Days(t[m], h) < Separation
        BY <1>0, <4>1, <4>2
      <4> QED
        BY <2>2, <3>0, <4>1, <4>3
    <3>2. CASE ~(Len(t) < Count)
      <4>1. Len(t) = Count
        BY <1>a, <3>2
      <4> QED
        BY <2>2, <3>0, <4>1
    <3> QED
      BY <3>1, <3>2
  <2>4. \A m \in 1 .. Len(t) : \E j \in 1 .. k + 1 : t[m] = list[j]
    <3>1. \A j \in 1 .. k : j \in 1 .. k + 1
      BY <1>0
    <3> QED
      BY <2>2, <3>1
  <2>5. \A j \in 1 .. k + 1 : j = k + 1 \/ j \in 1 .. k
    BY <1>0
  <2> HIDE DEF u, fits
  <2>6. AdmittedOf(list, k + 1, t)
    BY <2>3, <2>4, <2>5 DEF AdmittedOf
  <2> QED
    BY <2>1, <2>6 DEF u
<1> QED
  BY <1>1, <1>2

LEMMA AllAdmitted ==
    ASSUME NEW n \in Nat, NEW list \in [1 .. n -> Hours]
    PROVE  AdmittedOf(list, n, AdmitOf(list)[1 .. n])
<1> DEFINE done(k) == AdmitOf(list)[1 .. k]
           good == {k \in Nat : k <= n => AdmittedOf(list, k, done(k))}
<1>1. /\ done(0) = <<>>
      /\ \A k \in 0 .. n - 1 : done(k + 1) = Selection!Admit(done(k), list[k + 1])
  BY AdmitStep
<1> HIDE DEF done
<1>2. AdmittedOf(list, 0, done(0))
  <2>1. <<>> \in Seq(Hours) /\ Len(<<>>) = 0 /\ 0 <= Count
    BY SelectionFacts
  <2>2. 1 .. Len(<<>>) = {} /\ 1 .. 0 = {}
    BY <2>1
  <2>3. AdmittedOf(list, 0, <<>>)
    BY <2>1, <2>2 DEF AdmittedOf
  <2> QED
    BY <1>1, <2>3
<1>3. 0 \in good
  BY <1>2
<1>4. ASSUME NEW k \in Nat, k \in good PROVE k + 1 \in good
  <2>1. ASSUME k + 1 <= n PROVE AdmittedOf(list, k + 1, done(k + 1))
    <3>1. k \in 0 .. n - 1 /\ k <= n
      BY <2>1
    <3>2. AdmittedOf(list, k, done(k))
      BY <1>4, <3>1
    <3> QED
      BY <1>1, <3>1, <3>2, AdmitKeeps
  <2> QED
    BY <2>1
<1>5. n \in good
  <2> HIDE DEF good
  <2> QED
    BY <1>3, <1>4, AllNumbers
<1>6. AdmittedOf(list, n, done(n))
  BY <1>5
<1> QED
  BY <1>6 DEF done

AllRead == \A h \in Hours : universe[h] \in 1 .. MaxIssue

LEMMA HoursOrdered ==
    /\ \A S \in SUBSET Hours : IsFiniteSet(S) /\ Orders(Selection!Earlier, S)
    /\ AllRead => /\ \A h \in Hours : Selection!DropOf(h) \in Nat
                  /\ Orders(Selection!Deeper, Hours)
<1>1. ASSUME NEW S \in SUBSET Hours PROVE IsFiniteSet(S) /\ Orders(Selection!Earlier, S)
  <2>1. \A h \in S : h \in Hours /\ h \in Nat
    BY SelectionFacts
  <2>2. \A g, h \in S : <<g, h>> \in Selection!Earlier <=> g < h
    BY <2>1 DEF Selection!Earlier
  <2>3. Orders(Selection!Earlier, S)
    BY <2>1, <2>2 DEF Orders
  <2> QED
    BY <2>3, SelectionFacts, FS_Subset
<1>2. ASSUME AllRead, NEW h \in Hours PROVE Selection!DropOf(h) \in Nat
  <2>1. universe[h] \in 1 .. MaxIssue
    BY <1>2 DEF AllRead
  <2> QED
    BY <2>1, SelectionFacts DEF Selection!DropOf
<1>3. ASSUME AllRead PROVE Orders(Selection!Deeper, Hours)
  <2> DEFINE drop(h) == Selection!DropOf(h)
  <2>1. \A h \in Hours : h \in Nat /\ drop(h) \in Nat
    BY <1>2, <1>3, SelectionFacts
  <2>2. ASSUME NEW g \in Hours, NEW h \in Hours
        PROVE  <<g, h>> \in Selection!Deeper <=> drop(g) > drop(h) \/ (drop(g) = drop(h) /\ g < h)
    <3>1. <<g, h>> \in Hours \X Hours /\ <<g, h>>[1] = g /\ <<g, h>>[2] = h
      OBVIOUS
    <3> QED
      BY <3>1 DEF Selection!Deeper
  <2> HIDE DEF drop
  <2>3. \A g \in Hours : <<g, g>> \notin Selection!Deeper
    BY <2>1, <2>2
  <2>4. ASSUME NEW g1 \in Hours, NEW g2 \in Hours, NEW g3 \in Hours,
               <<g1, g2>> \in Selection!Deeper, <<g2, g3>> \in Selection!Deeper
        PROVE  <<g1, g3>> \in Selection!Deeper
    <3>1. /\ drop(g1) > drop(g2) \/ (drop(g1) = drop(g2) /\ g1 < g2)
          /\ drop(g2) > drop(g3) \/ (drop(g2) = drop(g3) /\ g2 < g3)
      BY <2>2, <2>4
    <3>2. drop(g1) > drop(g3) \/ (drop(g1) = drop(g3) /\ g1 < g3)
      BY <2>1, <3>1
    <3> QED
      BY <2>2, <3>2
  <2>5. ASSUME NEW g1 \in Hours, NEW g2 \in Hours, g1 # g2
        PROVE  <<g1, g2>> \in Selection!Deeper \/ <<g2, g1>> \in Selection!Deeper
    <3>1. \/ drop(g1) > drop(g2) \/ (drop(g1) = drop(g2) /\ g1 < g2)
          \/ drop(g2) > drop(g1) \/ (drop(g2) = drop(g1) /\ g2 < g1)
      BY <2>1, <2>5
    <3> QED
      BY <2>2, <3>1
  <2> QED
    BY <2>3, <2>4, <2>5 DEF Orders
<1> QED
  BY <1>1, <1>2, <1>3

\* What SelectionDeepest asks of the hours selected.
Deepest(c) ==
    LET chosen == {c[n] : n \in DOMAIN c} IN
    /\ Selection!Cardinality(chosen) = Count
    /\ \A m, n \in DOMAIN c : m < n => c[m] < c[n]
    /\ \A g, h \in chosen : g # h => Selection!Days(g, h) >= Separation
    /\ \A h \in Hours \ chosen :
          \/ \A g \in chosen : Selection!DropOf(g) >= Selection!DropOf(h)
          \/ \E g \in chosen :
                Selection!DropOf(g) >= Selection!DropOf(h) /\ Selection!Days(g, h) < Separation

LEMMA ChosenDeepest ==
    ASSUME AllRead, Len(Selection!Greedy) = Count
    PROVE  Deepest(Selection!Chosen)
<1> DEFINE n == Cardinality(Hours)
           list == Selection!Sorted(Hours, Selection!Deeper)
           t == Selection!Greedy
           picked == {t[m] : m \in DOMAIN t}
           c == Selection!Chosen
<1>1. /\ n \in Nat /\ list \in [1 .. n -> Hours]
      /\ \A h \in Hours : \E k \in 1 .. n : list[k] = h
      /\ \A k, m \in 1 .. n : k < m => <<list[k], list[m]>> \in Selection!Deeper
  BY SelectionFacts, HoursOrdered, SortedFacts
<1>2. AdmittedOf(list, n, t)
  <2>1. DOMAIN list = 1 .. n
    BY <1>1
  <2>2. t = AdmitOf(list)[1 .. n]
    BY <2>1, GreedyFold
  <2> HIDE DEF list, t
  <2> QED
    BY <1>1, <2>2, AllAdmitted
<1>3. \A h \in Hours : Selection!DropOf(h) \in Nat
  BY HoursOrdered
<1>4. \A j \in 1 .. n : \A b \in 1 .. j - 1 :
         b \in 1 .. n /\ Selection!DropOf(list[b]) >= Selection!DropOf(list[j])
  <2> SUFFICES ASSUME NEW j \in 1 .. n, NEW b \in 1 .. j - 1
               PROVE b \in 1 .. n /\ Selection!DropOf(list[b]) >= Selection!DropOf(list[j])
    OBVIOUS
  <2>1. b \in 1 .. n /\ b < j
    BY <1>1
  <2>2. <<list[b], list[j]>> \in Selection!Deeper /\ list[b] \in Hours /\ list[j] \in Hours
    BY <1>1, <2>1
  <2> HIDE DEF list
  <2>3. \/ Selection!DropOf(list[b]) > Selection!DropOf(list[j])
        \/ Selection!DropOf(list[b]) = Selection!DropOf(list[j])
    BY <2>2 DEF Selection!Deeper
  <2> QED
    BY <1>3, <2>1, <2>2, <2>3
<1> HIDE DEF list
<1>5. /\ t \in Seq(Hours) /\ Len(t) = Count /\ DOMAIN t = 1 .. Count /\ picked \in SUBSET Hours
      /\ Count \in Nat
  BY <1>2, SelectionFacts DEF AdmittedOf
<1>6. /\ IsFiniteSet(picked) /\ Orders(Selection!Earlier, picked)
      /\ c = Selection!Sorted(picked, Selection!Earlier)
  BY <1>5, HoursOrdered DEF Selection!Chosen
<1>7. \A m1, m2 \in 1 .. Count : m1 # m2 =>
         Selection!Days(t[m1], t[m2]) >= Separation /\ t[m1] # t[m2]
  <2> SUFFICES ASSUME NEW m1 \in 1 .. Count, NEW m2 \in 1 .. Count, m1 # m2
               PROVE Selection!Days(t[m1], t[m2]) >= Separation /\ t[m1] # t[m2]
    OBVIOUS
  <2>1. Selection!Days(t[m1], t[m2]) >= Separation
    BY <1>2, <1>5 DEF AdmittedOf
  <2>2. t[m1] \in Hours /\ Separation \in Nat \ {0}
    BY <1>5, SelectionFacts
  <2>3. Selection!Days(t[m1], t[m1]) = 0
    BY <2>2, DaysFacts
  <2>4. ~(0 >= Separation)
    BY <2>2
  <2> QED
    BY <2>1, <2>3, <2>4
<1> HIDE DEF t
<1>8. Cardinality(picked) = Count
  <2> DEFINE place2 == [m \in 1 .. Count |-> t[m]]
  <2>1. IsFiniteSet(1 .. Count) /\ Cardinality(1 .. Count) = Count
    BY <1>5, FS_Interval
  <2>2. place2 \in Bijection(1 .. Count, picked)
    <3>1. picked = {t[m] : m \in 1 .. Count}
      BY <1>5 DEF picked
    <3>2. place2 \in [1 .. Count -> picked] /\ \A m \in 1 .. Count : place2[m] = t[m]
      BY <3>1
    <3>3. \A h \in picked : \E m \in 1 .. Count : place2[m] = h
      BY <3>1, <3>2
    <3> HIDE DEF place2, picked
    <3>4. \A m1, m2 \in 1 .. Count : place2[m1] = place2[m2] => m1 = m2
      BY <1>7, <3>2
    <3>5. place2 \in Injection(1 .. Count, picked)
      BY <3>2, <3>4 DEF Injection, IsInjective
    <3>6. place2 \in Surjection(1 .. Count, picked)
      BY <3>2, <3>3 DEF Surjection
    <3> QED
      BY <3>5, <3>6 DEF Bijection
  <2> HIDE DEF place2, picked
  <2>3. ExistsBijection(1 .. Count, picked)
    BY <2>2 DEF ExistsBijection
  <2> QED
    BY <2>1, <2>3, FS_Bijection
<1> HIDE DEF picked
<1>9. /\ c \in [1 .. Count -> picked]
      /\ \A h \in picked : \E k \in 1 .. Count : c[k] = h
      /\ \A k, m \in 1 .. Count : k < m => <<c[k], c[m]>> \in Selection!Earlier
  BY <1>6, <1>8, SortedFacts
<1> HIDE DEF c
<1>10. DOMAIN c = 1 .. Count /\ {c[m] : m \in DOMAIN c} = picked
  BY <1>9
<1>11. Selection!Cardinality(picked) = Count
  BY <1>8, SameCard
<1>12. \A k, m \in DOMAIN c : k < m => c[k] < c[m]
  BY <1>9, <1>10 DEF Selection!Earlier
<1>13. ASSUME NEW g \in picked, NEW h \in picked, g # h
       PROVE  Selection!Days(g, h) >= Separation
  <2>1. PICK m1 \in 1 .. Count : g = t[m1]
    BY <1>5 DEF picked
  <2>2. PICK m2 \in 1 .. Count : h = t[m2]
    BY <1>5 DEF picked
  <2> QED
    BY <1>7, <1>13, <2>1, <2>2
<1>14. ASSUME NEW h \in Hours \ picked
       PROVE  \/ \A g \in picked : Selection!DropOf(g) >= Selection!DropOf(h)
              \/ \E g \in picked :
                    Selection!DropOf(g) >= Selection!DropOf(h) /\ Selection!Days(g, h) < Separation
  <2>1. PICK j \in 1 .. n : list[j] = h
    BY <1>1
  <2>2. \A m \in 1 .. Count : t[m] # h
    BY <1>5 DEF picked
  <2>3. \/ \E m \in 1 .. Count, b \in 1 .. j - 1 :
              t[m] = list[b] /\ Selection!Days(t[m], h) < Separation
        \/ \A m \in 1 .. Count : \E b \in 1 .. j - 1 : t[m] = list[b]
    BY <1>2, <1>5, <2>1, <2>2 DEF AdmittedOf
  <2>4. CASE \E m \in 1 .. Count, b \in 1 .. j - 1 :
                t[m] = list[b] /\ Selection!Days(t[m], h) < Separation
    <3>1. PICK m \in 1 .. Count, b \in 1 .. j - 1 :
                t[m] = list[b] /\ Selection!Days(t[m], h) < Separation
      BY <2>4
    <3>2. t[m] \in picked
      BY <1>5 DEF picked
    <3>3. Selection!DropOf(t[m]) >= Selection!DropOf(h)
      BY <1>4, <2>1, <3>1
    <3> QED
      BY <3>1, <3>2, <3>3
  <2>5. CASE \A m \in 1 .. Count : \E b \in 1 .. j - 1 : t[m] = list[b]
    <3>1. ASSUME NEW g \in picked PROVE Selection!DropOf(g) >= Selection!DropOf(h)
      <4>1. PICK m \in 1 .. Count : g = t[m]
        BY <1>5 DEF picked
      <4>2. PICK b \in 1 .. j - 1 : t[m] = list[b]
        BY <2>5
      <4> QED
        BY <1>4, <2>1, <4>1, <4>2
    <3> QED
      BY <3>1
  <2> QED
    BY <2>3, <2>4, <2>5
<1> QED
  BY <1>10, <1>11, <1>12, <1>13, <1>14 DEF Deepest, c

\* A checksum is one of an edition, or cut off in the writing: never that of a torn file.
Checksums == 0 .. MaxIssue \cup {Selection!Cut, Selection!Blank}

\* What is kept is an edition or torn; what was verified is an edition; hours are
\* selected when all are read, and there are enough.
SelectionInv ==
    /\ issued \in [Hours -> 1 .. MaxIssue] /\ archive \in [Hours -> 0 .. MaxIssue + 1]
    /\ checksum \in [Hours -> Checksums] /\ universe \in [Hours -> 0 .. MaxIssue]
    /\ stage \in {"verify", "store"} => hour \in Hours /\ content \in 1 .. MaxIssue
    /\ stage \in {"minutes", "select"} => AllRead /\ Len(Selection!Greedy) = Count
    /\ stage = "select" => minutes = Selection!Chosen

\* The selection goes by the editions read.
LEMMA SelectionUnchanged ==
    ASSUME UNCHANGED universe
    PROVE  /\ UNCHANGED <<Selection!Greedy, Selection!Chosen>>
           /\ AllRead' <=> AllRead
<1>1. UNCHANGED Selection!Deeper
  BY DEF Selection!Deeper, Selection!DropOf
<1>2. UNCHANGED Selection!Greedy
  BY <1>1 DEF Selection!Greedy, Selection!FoldLeft, Selection!MapThenFoldSet
<1>3. UNCHANGED Selection!Chosen
  BY <1>2 DEF Selection!Chosen, Selection!Earlier
<1> QED
  BY <1>2, <1>3 DEF AllRead

LEMMA SelectionInit == Init => SelectionInv
<1> SUFFICES ASSUME Init PROVE SelectionInv
  OBVIOUS
<1>1. /\ issued = [h \in Hours |-> 1] /\ archive = [h \in Hours |-> 0]
      /\ checksum = [h \in Hours |-> 0] /\ universe = [h \in Hours |-> 0] /\ stage = "idle"
  BY DEF Init, Selection!Init, Selection!NoUniverse, Selection!Missing
<1>2. MaxIssue \in Nat \ {0}
  BY SelectionFacts
<1> QED
  BY <1>1, <1>2 DEF SelectionInv, Checksums

LEMMA SelectionKept == SelectionInv /\ [Next]_vars => SelectionInv'
<1> SUFFICES ASSUME SelectionInv, [Next]_vars PROVE SelectionInv'
  OBVIOUS
<1>0. MaxIssue \in Nat \ {0}
  BY SelectionFacts
<1>1. CASE UNCHANGED selectionVars
  BY <1>1, SelectionUnchanged DEF selectionVars, SelectionInv
<1>2. CASE Selection!Select
  <2>1. /\ UNCHANGED <<issued, archive, checksum>> /\ stage' = "load"
        /\ universe' = [h \in Hours |-> 0]
    BY <1>2 DEF Selection!Select, Selection!NoUniverse, Selection!Missing
  <2> QED
    BY <1>0, <2>1 DEF SelectionInv
<1>3. ASSUME NEW h \in Hours, Selection!Load(h) PROVE SelectionInv'
  <2>1. /\ UNCHANGED <<issued, archive, checksum>> /\ stage = "load" /\ hour' = h
        /\ \/ stage' = "idle" /\ UNCHANGED universe
           \/ /\ archive[h] = checksum[h] /\ UNCHANGED stage
              /\ universe' = [universe EXCEPT ![h] = archive[h]]
           \/ stage' = "verify" /\ content' = issued[h] /\ UNCHANGED universe
    BY <1>3 DEF Selection!Load, Selection!Cached
  <2>2. CASE archive[h] = checksum[h]
    <3>1. archive[h] \in 0 .. MaxIssue
      <4>1. archive[h] \in 0 .. MaxIssue + 1 /\ checksum[h] \in Checksums
        BY DEF SelectionInv
      <4>2. checksum[h] \in 0 .. MaxIssue \/ checksum[h] = MaxIssue + 2
            \/ checksum[h] = MaxIssue + 3
        BY <4>1 DEF Checksums, Selection!Cut, Selection!Blank
      <4> QED
        BY <1>0, <2>2, <4>1, <4>2
    <3>2. universe' \in [Hours -> 0 .. MaxIssue]
      BY <2>1, <3>1 DEF SelectionInv
    <3> QED
      BY <2>1, <3>2 DEF SelectionInv
  <2> QED
    BY <2>1, <2>2 DEF SelectionInv
<1>4. CASE Selection!Verify
  <2>1. /\ UNCHANGED <<issued, checksum, universe, hour, content>> /\ stage = "verify"
        /\ \/ stage' = "store" /\ archive' = [archive EXCEPT ![hour] = content]
           \/ stage' = "idle" /\ UNCHANGED archive
    BY <1>4 DEF Selection!Verify
  <2>2. archive' \in [Hours -> 0 .. MaxIssue + 1]
    BY <1>0, <2>1 DEF SelectionInv
  <2> QED
    BY <2>1, <2>2 DEF SelectionInv
<1>5. CASE Selection!Store
  <2>1. /\ UNCHANGED <<issued, archive>> /\ stage = "store" /\ stage' = "load"
        /\ checksum' = [checksum EXCEPT ![hour] = content]
        /\ universe' = [universe EXCEPT ![hour] = content]
    BY <1>5 DEF Selection!Store
  <2>2. /\ checksum' \in [Hours -> Checksums] /\ universe' \in [Hours -> 0 .. MaxIssue]
    BY <1>0, <2>1 DEF SelectionInv, Checksums
  <2> QED
    BY <2>1, <2>2 DEF SelectionInv
<1>6. CASE Selection!Rank
  <2>1. /\ UNCHANGED <<issued, archive, checksum, universe>>
        /\ stage' = IF Len(Selection!Greedy) = Count THEN "minutes" ELSE "idle"
        /\ \A h \in Hours : universe[h] # 0
    BY <1>6 DEF Selection!Rank, Selection!Missing
  <2>2. AllRead
    BY <1>0, <2>1 DEF SelectionInv, AllRead
  <2> QED
    BY <2>1, <2>2, SelectionUnchanged DEF SelectionInv
<1>7. CASE Selection!WriteMinutes
  <2>1. /\ UNCHANGED <<issued, archive, checksum, universe>> /\ stage = "minutes"
        /\ stage' = "select" /\ minutes' = Selection!Chosen
    BY <1>7 DEF Selection!WriteMinutes
  <2> QED
    BY <2>1, SelectionUnchanged DEF SelectionInv
<1>8. CASE Selection!WriteSelection
  BY <1>8 DEF Selection!WriteSelection, SelectionInv
<1>9. CASE Selection!Dies
  <2>1. /\ UNCHANGED <<issued, universe>> /\ stage' = "idle"
        /\ \/ UNCHANGED archive
           \/ archive' = [archive EXCEPT ![hour] = MaxIssue + 1]
        /\ \/ UNCHANGED checksum
           \/ \E cut \in {Selection!Cut, Selection!Blank} :
                 checksum' = [checksum EXCEPT ![hour] = cut]
    BY <1>9 DEF Selection!Dies, Selection!Torn
  <2>2. archive' \in [Hours -> 0 .. MaxIssue + 1]
    <3>1. archive \in [Hours -> 0 .. MaxIssue + 1]
      BY DEF SelectionInv
    <3>2. MaxIssue + 1 \in 0 .. MaxIssue + 1
      BY <1>0
    <3> QED
      BY <2>1, <3>1, <3>2
  <2>3. checksum' \in [Hours -> Checksums]
    <3>1. checksum \in [Hours -> Checksums]
      BY DEF SelectionInv
    <3>2. Selection!Cut \in Checksums /\ Selection!Blank \in Checksums
      BY DEF Checksums
    <3> QED
      BY <2>1, <3>1, <3>2
  <2> QED
    BY <2>1, <2>2, <2>3 DEF SelectionInv
<1>10. ASSUME NEW h \in Hours, Selection!Reissue(h) PROVE SelectionInv'
  <2>1. /\ UNCHANGED <<archive, checksum, universe, stage, hour, content, minutes>>
        /\ issued[h] < MaxIssue /\ issued' = [issued EXCEPT ![h] = issued[h] + 1]
    BY <1>10 DEF Selection!Reissue
  <2>2. issued' \in [Hours -> 1 .. MaxIssue]
    BY <1>0, <2>1 DEF SelectionInv
  <2> QED
    BY <2>1, <2>2, SelectionUnchanged DEF SelectionInv
<1> QED
  BY <1>1, <1>2, <1>3, <1>4, <1>5, <1>6, <1>7, <1>8, <1>9, <1>10, OwnSteps DEF Selection!Next

LEMMA SelectionShown == SelectionInv => SelectionDeepest
<1> SUFFICES ASSUME SelectionInv PROVE Selection!SelectionDeepest
  BY DEF SelectionDeepest
<1>1. ASSUME NEW h \in Hours PROVE universe[h] # Selection!Torn
  <2>1. universe[h] \in 0 .. MaxIssue /\ MaxIssue \in Nat
    BY SelectionFacts DEF SelectionInv
  <2> QED
    BY <2>1 DEF Selection!Torn
<1>2. ASSUME stage = "select" PROVE Deepest(minutes)
  <2>1. minutes = Selection!Chosen /\ AllRead /\ Len(Selection!Greedy) = Count
    BY <1>2 DEF SelectionInv
  <2>2. Deepest(Selection!Chosen)
    BY <2>1, ChosenDeepest
  <2> QED
    BY <2>1, <2>2
<1> QED
  BY <1>1, <1>2, Zenon DEF Selection!SelectionDeepest, Deepest

\* Of however many hours, whatever their days and the falls the editions say, and
\* whatever is issued again or dies: nothing is selected from a torn archive, and
\* the hours selected are enough, days apart and the deepest that can be had in
\* turn (rank_and_select_clusters, download_with_sha256).
THEOREM SelectionIsDeepest == Spec => []SelectionDeepest
  BY SelectionInit, SelectionKept, SelectionShown, PTL DEF Spec
-----------------------------------------------------------------------------
(***************************************************************************)
(* The swap events of the window (october_swap_events.py).                 *)
(***************************************************************************)

\* The element a sum takes next, and one turn of it.
Pick(s) == CHOOSE x \in s : TRUE
SumBody(F, g, s) == IF s = {} THEN 0 ELSE F[Pick(s)] + g[s \ {Pick(s)}]
SumOf(F, S) == CHOOSE g : g = [s \in SUBSET S |-> SumBody(F, g, s)]

LEMMA TotalSum ==
    ASSUME NEW F, NEW S
    PROVE  Swaps!Total(F, S) = SumOf(F, S)[S]
  BY DEF Swaps!Total, Swaps!MapThenSumSet, Swaps!MapThenFoldSet, SumOf, SumBody, Pick

LEMMA PickIn ==
    ASSUME NEW s, s # {}
    PROVE  Pick(s) \in s
  BY DEF Pick

\* One element less is one less to count.
LEMMA OneLess ==
    ASSUME NEW S, IsFiniteSet(S), NEW x \in S
    PROVE  /\ IsFiniteSet(S \ {x})
           /\ Cardinality(S) \in Nat /\ Cardinality(S \ {x}) \in Nat
           /\ Cardinality(S \ {x}) + 1 = Cardinality(S)
<1>1. IsFiniteSet(S \ {x}) /\ Cardinality(S \ {x}) = Cardinality(S) - 1
  BY FS_RemoveElement
<1>2. Cardinality(S) \in Nat /\ Cardinality(S \ {x}) \in Nat
  BY <1>1, FS_CardinalityType
<1> QED
  BY <1>1, <1>2

\* The recursion of a sum has a solution: it goes through no more elements than there are.
LEMMA SumDefined ==
    ASSUME NEW F, NEW S, IsFiniteSet(S)
    PROVE  \A s \in SUBSET S : SumOf(F, S)[s] = SumBody(F, SumOf(F, S), s)
<1> DEFINE Small(n) == {s \in SUBSET S : Cardinality(s) <= n}
           Solves(n, g) == g = [s \in Small(n) |-> SumBody(F, g, s)]
           good == {n \in Nat : \E g : Solves(n, g)}
<1>1. 0 \in good
  <2> DEFINE g == [s \in Small(0) |-> 0]
  <2>1. \A s \in Small(0) : s = {}
    BY FS_Subset, FS_EmptySet, FS_CardinalityType
  <2>2. \A s \in Small(0) : SumBody(F, g, s) = 0
    BY <2>1 DEF SumBody
  <2>3. Solves(0, g)
    BY <2>2
  <2> QED
    BY <2>3
<1>2. ASSUME NEW n \in Nat, n \in good PROVE n + 1 \in good
  <2>1. PICK g : Solves(n, g)
    BY <1>2
  <2> DEFINE h == [s \in Small(n + 1) |-> SumBody(F, g, s)]
  <2>2. ASSUME NEW s \in Small(n + 1) PROVE SumBody(F, h, s) = SumBody(F, g, s)
    <3>1. CASE s = {}
      BY <3>1 DEF SumBody
    <3>2. CASE s # {}
      <4> DEFINE r == s \ {Pick(s)}
      <4>1. IsFiniteSet(s) /\ Pick(s) \in s
        BY <3>2, FS_Subset, PickIn
      <4>2. r \in Small(n)
        BY <4>1, OneLess
      <4>3. r \in Small(n + 1)
        BY <4>2, FS_Subset, FS_CardinalityType
      <4>4. h[r] = SumBody(F, g, r) /\ g[r] = SumBody(F, g, r)
        BY <2>1, <4>2, <4>3
      <4> HIDE DEF h, r
      <4> QED
        BY <3>2, <4>4 DEF SumBody, r
    <3> QED
      BY <3>1, <3>2
  <2>3. Solves(n + 1, h)
    <3>1. h = [s \in Small(n + 1) |-> SumBody(F, g, s)]
      OBVIOUS
    <3> HIDE DEF h, Small
    <3>2. [s \in Small(n + 1) |-> SumBody(F, g, s)] = [s \in Small(n + 1) |-> SumBody(F, h, s)]
      BY <2>2
    <3> QED
      BY <3>1, <3>2
  <2> HIDE DEF h, Solves
  <2> QED
    BY <2>3
<1>3. Cardinality(S) \in good
  BY <1>1, <1>2, AllNumbers, FS_CardinalityType
<1>4. Small(Cardinality(S)) = SUBSET S
  BY FS_Subset
<1>5. \E g : g = [s \in SUBSET S |-> SumBody(F, g, s)]
  BY <1>3, <1>4
<1> DEFINE sum == SumOf(F, S)
<1>6. sum = [s \in SUBSET S |-> SumBody(F, sum, s)]
  BY <1>5 DEF SumOf
<1> HIDE DEF sum
<1>7. \A s \in SUBSET S : sum[s] = SumBody(F, sum, s)
  BY <1>6
<1> QED
  BY <1>7 DEF sum

LEMMA Smaller ==
    ASSUME NEW S, IsFiniteSet(S), NEW x \in S, NEW n \in Nat, Cardinality(S) <= n + 1
    PROVE  IsFiniteSet(S \ {x}) /\ Cardinality(S \ {x}) <= n
<1>1. /\ IsFiniteSet(S \ {x}) /\ Cardinality(S \ {x}) \in Nat
      /\ Cardinality(S \ {x}) + 1 = Cardinality(S)
  BY OneLess
<1> QED
  BY <1>1

\* A sum over a part is the same recursion.
LEMMA SumAgrees ==
    ASSUME NEW F, NEW S, IsFiniteSet(S), NEW T \in SUBSET S
    PROVE  \A s \in SUBSET T : SumOf(F, T)[s] = SumOf(F, S)[s]
<1> DEFINE g == SumOf(F, T)
           h == SumOf(F, S)
           good == {n \in Nat : \A s \in SUBSET T : Cardinality(s) <= n => g[s] = h[s]}
<1>1. IsFiniteSet(T)
  BY FS_Subset
<1>2. \A s \in SUBSET T : g[s] = SumBody(F, g, s) /\ h[s] = SumBody(F, h, s)
  <2>1. ASSUME NEW s \in SUBSET T PROVE g[s] = SumBody(F, g, s) /\ h[s] = SumBody(F, h, s)
    <3>1. s \in SUBSET S
      OBVIOUS
    <3> QED
      BY <1>1, <3>1, SumDefined
  <2> QED
    BY <2>1
<1> HIDE DEF g, h
<1>3. 0 \in good
  <2>1. ASSUME NEW s \in SUBSET T, Cardinality(s) <= 0 PROVE s = {}
    BY <1>1, <2>1, FS_Subset, FS_EmptySet, FS_CardinalityType
  <2> QED
    BY <1>2, <2>1 DEF SumBody
<1>4. ASSUME NEW n \in Nat, n \in good PROVE n + 1 \in good
  <2>1. ASSUME NEW s \in SUBSET T, Cardinality(s) <= n + 1 PROVE g[s] = h[s]
    <3>1. CASE s = {}
      BY <1>2, <3>1 DEF SumBody
    <3>2. CASE s # {}
      <4>1. IsFiniteSet(s) /\ Pick(s) \in s
        BY <1>1, <3>2, FS_Subset, PickIn
      <4>2. s \ {Pick(s)} \in SUBSET T /\ Cardinality(s \ {Pick(s)}) <= n
        BY <2>1, <4>1, Smaller
      <4>3. g[s \ {Pick(s)}] = h[s \ {Pick(s)}]
        BY <1>4, <4>2
      <4> QED
        BY <1>2, <3>2, <4>3 DEF SumBody
    <3> QED
      BY <3>1, <3>2
  <2> QED
    BY <2>1
<1>5. Nat \subseteq good
  BY <1>3, <1>4, AllNumbers
<1>6. Cardinality(T) \in good /\ \A s \in SUBSET T : Cardinality(s) <= Cardinality(T)
  BY <1>1, <1>5, FS_Subset, FS_CardinalityType
<1> QED
  BY <1>6 DEF g, h

LEMMA TotalEmpty ==
    ASSUME NEW F
    PROVE  Swaps!Total(F, {}) = 0
<1>1. SumOf(F, {})[{}] = SumBody(F, SumOf(F, {}), {})
  BY SumDefined, FS_EmptySet
<1> QED
  BY <1>1, TotalSum DEF SumBody

LEMMA TotalStep ==
    ASSUME NEW F, NEW S, IsFiniteSet(S), S # {}
    PROVE  Swaps!Total(F, S) = F[Pick(S)] + Swaps!Total(F, S \ {Pick(S)})
<1> DEFINE rest == S \ {Pick(S)}
<1>1. SumOf(F, S)[S] = SumBody(F, SumOf(F, S), S)
  BY SumDefined
<1>2. SumOf(F, rest)[rest] = SumOf(F, S)[rest]
  BY SumAgrees
<1> QED
  BY <1>1, <1>2, TotalSum DEF SumBody

\* A sum of integers is one, and the same for amounts that are the same.
LEMMA TotalSame ==
    ASSUME NEW F, NEW G, NEW S, IsFiniteSet(S), \A x \in S : F[x] \in Int /\ F[x] = G[x]
    PROVE  Swaps!Total(F, S) \in Int /\ Swaps!Total(F, S) = Swaps!Total(G, S)
<1> DEFINE Same(T) == Swaps!Total(F, T) \in Int /\ Swaps!Total(F, T) = Swaps!Total(G, T)
           good == {n \in Nat : \A T \in SUBSET S : Cardinality(T) <= n => Same(T)}
<1>1. Same({})
  BY TotalEmpty
<1>2. 0 \in good
  <2>1. ASSUME NEW T \in SUBSET S, Cardinality(T) <= 0 PROVE T = {}
    BY <2>1, FS_Subset, FS_EmptySet, FS_CardinalityType
  <2> QED
    BY <1>1, <2>1
<1>3. ASSUME NEW n \in Nat, n \in good PROVE n + 1 \in good
  <2>1. ASSUME NEW T \in SUBSET S, Cardinality(T) <= n + 1 PROVE Same(T)
    <3>1. CASE T # {}
      <4> DEFINE rest == T \ {Pick(T)}
      <4>1. IsFiniteSet(T) /\ Pick(T) \in T
        BY <3>1, FS_Subset, PickIn
      <4>2. rest \in SUBSET S /\ Cardinality(rest) <= n
        BY <2>1, <4>1, Smaller
      <4>3. Same(rest)
        BY <1>3, <4>2
      <4>4. Swaps!Total(F, T) = F[Pick(T)] + Swaps!Total(F, rest) /\ Swaps!Total(G, T) = G[Pick(T)] + Swaps!Total(G, rest)
        BY <3>1, <4>1, TotalStep
      <4>5. F[Pick(T)] \in Int /\ F[Pick(T)] = G[Pick(T)]
        BY <4>1
      <4> HIDE DEF rest
      <4> QED
        BY <4>3, <4>4, <4>5
    <3> QED
      BY <1>1, <3>1
  <2> QED
    BY <2>1
<1>4. Cardinality(S) \in good
  BY <1>2, <1>3, AllNumbers, FS_CardinalityType
<1> HIDE DEF Same
<1>5. Same(S)
  BY <1>4, FS_CardinalityType
<1> QED
  BY <1>5 DEF Same

\* Any element may be taken out first.
LEMMA TotalRemove ==
    ASSUME NEW F, NEW S, IsFiniteSet(S), \A x \in S : F[x] \in Int, NEW e \in S
    PROVE  Swaps!Total(F, S) = F[e] + Swaps!Total(F, S \ {e})
<1> DEFINE Removes(T) == \A x \in T : Swaps!Total(F, T) = F[x] + Swaps!Total(F, T \ {x})
           good == {n \in Nat : \A T \in SUBSET S : Cardinality(T) <= n => Removes(T)}
<1>1. 0 \in good
  <2>1. ASSUME NEW T \in SUBSET S, Cardinality(T) <= 0 PROVE T = {}
    BY <2>1, FS_Subset, FS_EmptySet, FS_CardinalityType
  <2> QED
    BY <2>1
<1>2. ASSUME NEW n \in Nat, n \in good PROVE n + 1 \in good
  <2>1. ASSUME NEW T \in SUBSET S, Cardinality(T) <= n + 1, NEW x \in T
        PROVE  Swaps!Total(F, T) = F[x] + Swaps!Total(F, T \ {x})
    <3> DEFINE c == Pick(T)
    <3>1. IsFiniteSet(T) /\ c \in T /\ T # {}
      BY <2>1, FS_Subset, PickIn
    <3>2. Swaps!Total(F, T) = F[c] + Swaps!Total(F, T \ {c})
      BY <3>1, TotalStep
    <3> HIDE DEF c
    <3>3. CASE x = c
      BY <3>2, <3>3
    <3>4. CASE x # c
      <4>1. /\ T \ {c} \in SUBSET S /\ Cardinality(T \ {c}) <= n /\ x \in T \ {c}
            /\ T \ {x} \in SUBSET S /\ Cardinality(T \ {x}) <= n /\ c \in T \ {x}
        BY <2>1, <3>1, <3>4, Smaller
      <4>2. Swaps!Total(F, T \ {c}) = F[x] + Swaps!Total(F, (T \ {c}) \ {x})
        BY <1>2, <4>1
      <4>3. Swaps!Total(F, T \ {x}) = F[c] + Swaps!Total(F, (T \ {x}) \ {c})
        BY <1>2, <4>1
      <4> DEFINE others == Swaps!Total(F, (T \ {x}) \ {c})
      <4>4. Swaps!Total(F, T \ {c}) = F[x] + others /\ Swaps!Total(F, T \ {x}) = F[c] + others
        <5>1. (T \ {c}) \ {x} = (T \ {x}) \ {c}
          OBVIOUS
        <5> QED
          BY <4>2, <4>3, <5>1
      <4>5. F[x] \in Int /\ F[c] \in Int /\ others \in Int
        <5>1. IsFiniteSet((T \ {x}) \ {c}) /\ \A y \in (T \ {x}) \ {c} : F[y] \in Int
          BY <2>1, <3>1, FS_Subset
        <5> QED
          BY <2>1, <3>1, <5>1, TotalSame
      <4> HIDE DEF others
      <4> QED
        BY <3>2, <4>4, <4>5
    <3> QED
      BY <3>3, <3>4
  <2> QED
    BY <2>1
<1>3. Cardinality(S) \in good
  BY <1>1, <1>2, AllNumbers, FS_CardinalityType
<1> HIDE DEF Removes
<1>4. Removes(S)
  BY <1>3, FS_CardinalityType
<1> QED
  BY <1>4 DEF Removes

\* A sum over a set is the sums over a part and over the rest.
LEMMA TotalSplit ==
    ASSUME NEW F, NEW S, IsFiniteSet(S), \A x \in S : F[x] \in Int, NEW T \in SUBSET S
    PROVE  Swaps!Total(F, S) = Swaps!Total(F, T) + Swaps!Total(F, S \ T)
<1> DEFINE Splits(U) ==
             Swaps!Total(F, U \cup (S \ T)) = Swaps!Total(F, U) + Swaps!Total(F, S \ T)
           good == {n \in Nat : \A U \in SUBSET T : Cardinality(U) <= n => Splits(U)}
           others == S \ T
<1>0. IsFiniteSet(T) /\ IsFiniteSet(others)
  BY FS_Subset
<1>1. Swaps!Total(F, others) \in Int
  BY <1>0, TotalSame
<1>2. 0 \in good
  <2>1. ASSUME NEW U \in SUBSET T, Cardinality(U) <= 0 PROVE Splits(U)
    <3>1. U = {}
      BY <1>0, <2>1, FS_Subset, FS_EmptySet, FS_CardinalityType
    <3>2. U \cup (S \ T) = S \ T
      BY <3>1
    <3> QED
      BY <1>1, <3>1, <3>2, TotalEmpty
  <2> QED
    BY <2>1
<1>3. ASSUME NEW n \in Nat, n \in good PROVE n + 1 \in good
  <2>1. ASSUME NEW U \in SUBSET T, Cardinality(U) <= n + 1 PROVE Splits(U)
    <3>1. CASE U = {}
      <4>1. U \cup (S \ T) = S \ T
        BY <3>1
      <4> QED
        BY <1>1, <3>1, <4>1, TotalEmpty
    <3>2. CASE U # {}
      <4>1. PICK e : e \in U
        BY <3>2
      <4> DEFINE rest == U \ {e}
      <4>2. IsFiniteSet(U) /\ rest \in SUBSET T /\ Cardinality(rest) <= n
        BY <1>0, <2>1, <4>1, FS_Subset, Smaller
      <4>3. Splits(rest)
        BY <1>3, <4>2
      <4>4. Swaps!Total(F, U) = F[e] + Swaps!Total(F, rest)
        BY <4>1, <4>2, TotalRemove
      <4>5. /\ IsFiniteSet(U \cup others) /\ e \in U \cup others
            /\ (U \cup others) \ {e} = rest \cup others
        BY <1>0, <4>1, <4>2, FS_Union
      <4>6. Swaps!Total(F, U \cup others) = F[e] + Swaps!Total(F, rest \cup others)
        <5>1. \A x \in U \cup others : F[x] \in Int
          OBVIOUS
        <5>2. Swaps!Total(F, U \cup others) = F[e] + Swaps!Total(F, (U \cup others) \ {e})
          BY <4>5, <5>1, TotalRemove
        <5> QED
          BY <4>5, <5>2
      <4>7. F[e] \in Int /\ Swaps!Total(F, rest) \in Int
        <5>1. IsFiniteSet(rest) /\ \A x \in rest : F[x] \in Int
          BY <4>2, FS_Subset
        <5> QED
          BY <4>1, <5>1, TotalSame
      <4> HIDE DEF rest
      <4> QED
        BY <1>1, <4>3, <4>4, <4>6, <4>7
    <3> QED
      BY <3>1, <3>2
  <2> QED
    BY <2>1
<1>4. Cardinality(T) \in good
  BY <1>0, <1>2, <1>3, AllNumbers, FS_CardinalityType
<1> HIDE DEF Splits
<1>5. Splits(T)
  BY <1>0, <1>4, FS_CardinalityType
<1>6. T \cup (S \ T) = S
  OBVIOUS
<1> QED
  BY <1>5, <1>6 DEF Splits

\* Buckets that share nothing sum up to what is in them.
LEMMA TotalOfBuckets ==
    ASSUME NEW F, NEW S, IsFiniteSet(S), \A x \in S : F[x] \in Int,
           NEW B, IsFiniteSet(B), NEW part, NEW G,
           \A b \in B : part[b] \in SUBSET S /\ G[b] = Swaps!Total(F, part[b]),
           \A a, b \in B : a # b => part[a] \cap part[b] = {}
    PROVE  Swaps!Total(G, B) = Swaps!Total(F, UNION {part[b] : b \in B})
<1> DEFINE Joined(C) == UNION {part[b] : b \in C}
           Adds(C) == Swaps!Total(G, C) = Swaps!Total(F, Joined(C))
           good == {n \in Nat : \A C \in SUBSET B : Cardinality(C) <= n => Adds(C)}
<1>0. Adds({})
  <2>1. Joined({}) = {}
    OBVIOUS
  <2> QED
    BY <2>1, TotalEmpty
<1>1. 0 \in good
  <2>1. ASSUME NEW C \in SUBSET B, Cardinality(C) <= 0 PROVE C = {}
    BY <2>1, FS_Subset, FS_EmptySet, FS_CardinalityType
  <2> QED
    BY <1>0, <2>1
<1>2. ASSUME NEW n \in Nat, n \in good PROVE n + 1 \in good
  <2>1. ASSUME NEW C \in SUBSET B, Cardinality(C) <= n + 1 PROVE Adds(C)
    <3>1. CASE C # {}
      <4>1. PICK e : e \in C
        BY <3>1
      <4> DEFINE rest == C \ {e}
                 all == Joined(C)
                 mine == part[e]
      <4>2. IsFiniteSet(C) /\ rest \in SUBSET B /\ Cardinality(rest) <= n /\ e \in B
        BY <2>1, <4>1, FS_Subset, Smaller
      <4>3. Adds(rest)
        BY <1>2, <4>2
      <4>4. \A b \in C : G[b] \in Int
        <5>1. ASSUME NEW b \in C PROVE G[b] \in Int
          <6>1. part[b] \in SUBSET S /\ G[b] = Swaps!Total(F, part[b])
            OBVIOUS
          <6>2. IsFiniteSet(part[b]) /\ \A x \in part[b] : F[x] \in Int
            BY <6>1, FS_Subset
          <6> QED
            BY <6>1, <6>2, TotalSame
        <5> QED
          BY <5>1
      <4>5. Swaps!Total(G, C) = G[e] + Swaps!Total(G, rest)
        BY <4>1, <4>2, <4>4, TotalRemove
      <4>6. all \in SUBSET S /\ mine \in SUBSET all /\ all \ mine = Joined(rest)
        <5>1. \A b \in C : part[b] \in SUBSET S /\ (b # e => part[b] \cap mine = {})
          BY <4>2
        <5>2. ASSUME NEW x PROVE x \in all \ mine <=> x \in Joined(rest)
          <6>1. x \in all <=> \E b \in C : x \in part[b]
            OBVIOUS
          <6>2. x \in Joined(rest) <=> \E b \in rest : x \in part[b]
            OBVIOUS
          <6> HIDE DEF all
          <6> QED
            BY <4>1, <5>1, <6>1, <6>2
        <5>3. all \in SUBSET S /\ mine \in SUBSET all
          BY <4>1, <5>1
        <5> HIDE DEF all, mine, Joined
        <5> QED
          BY <5>2, <5>3
      <4>7. IsFiniteSet(all) /\ \A x \in all : F[x] \in Int
        BY <4>6, FS_Subset
      <4> HIDE DEF all, mine, rest
      <4>8. Swaps!Total(F, all) = Swaps!Total(F, mine) + Swaps!Total(F, all \ mine)
        BY <4>6, <4>7, TotalSplit
      <4>9. G[e] = Swaps!Total(F, mine)
        BY <4>2 DEF mine
      <4> HIDE DEF Joined
      <4>10. Swaps!Total(G, C) = Swaps!Total(F, all)
        BY <4>3, <4>5, <4>6, <4>8, <4>9
      <4> QED
        BY <4>10 DEF all
    <3> QED
      BY <1>0, <3>1
  <2> QED
    BY <2>1
<1>3. Cardinality(B) \in good
  BY <1>1, <1>2, AllNumbers, FS_CardinalityType
<1> HIDE DEF Adds
<1>4. Adds(B)
  BY <1>3, FS_CardinalityType
<1> QED
  BY <1>4 DEF Adds
-----------------------------------------------------------------------------
(* The logs the node answers with, in the order of the chain.              *)

SwapColumns == {"count", "base", "quote"}
SwapWays == {"BUY_WETH", "SELL_WETH"}

LEMMA SwapFacts ==
    /\ SwapWindow \in SUBSET Nat /\ IsFiniteSet(SwapWindow) /\ IsFiniteSet(Logs)
    /\ \A l \in Logs : /\ l.branch \in Branches /\ l.block \in Nat /\ l.index \in Nat
                       /\ l.weth \in Int /\ l.usdc \in Int
    /\ \A k, l \in Logs :
          k.branch = l.branch /\ k.block = l.block /\ k.index = l.index => k = l
    /\ IsFiniteSet(DOMAIN Catalog)
    /\ MinuteOf \in [SwapWindow -> Minutes] /\ IsFiniteSet(Minutes)
    /\ BinTops \in SUBSET Nat /\ IsFiniteSet(BinTops)
  BY ResearchAssumption DEF Swaps!SwapAssumption, Swaps!IsFiniteSet, IsFiniteSet

LEMMA SwapCard == ASSUME NEW S PROVE Swaps!Cardinality(S) = Cardinality(S)
  BY DEF Swaps!Cardinality, Cardinality

\* What was emitted on a branch.
OwnLogs(branch) == {l \in Logs : l.branch = branch}

\* An enumeration of a finite set has every element.
LEMMA EnumeratedAll ==
    ASSUME NEW S, IsFiniteSet(S), NEW s \in Swaps!SetToSeqs(S)
    PROVE  /\ Cardinality(S) \in Nat /\ s \in [1 .. Cardinality(S) -> S]
           /\ \A l \in S : \E k \in 1 .. Cardinality(S) : s[k] = l
<1> DEFINE n == Cardinality(S)
<1>1. n \in Nat /\ IsFiniteSet(1 .. n) /\ Cardinality(1 .. n) = n
  BY FS_CardinalityType, FS_Interval
<1>2. s \in [1 .. n -> S] /\ \A i1, i2 \in 1 .. n : i1 # i2 => s[i1] # s[i2]
  BY SwapCard DEF Swaps!SetToSeqs
<1>3. s \in Injection(1 .. n, S)
  BY <1>2 DEF Injection, IsInjective
<1>4. s \in Surjection(1 .. n, S)
  BY <1>1, <1>3, FS_Injection
<1> QED
  BY <1>1, <1>2, <1>4 DEF Surjection

\* An answer has every log of its branch, and no other.
LEMMA AnswerWhole ==
    ASSUME NEW branch, NEW logs \in Swaps!Answers(branch)
    PROVE  \E n \in Nat : /\ DOMAIN logs = 1 .. n
                          /\ \A k \in 1 .. n : logs[k] \in OwnLogs(branch)
                          /\ \A l \in OwnLogs(branch) : \E k \in 1 .. n : logs[k] = l
<1> DEFINE own == OwnLogs(branch)
           n == Cardinality(own)
<1>1. IsFiniteSet(own) /\ own = {l \in Logs : l.branch = branch}
  BY SwapFacts, FS_Subset DEF OwnLogs
<1>2. ASSUME logs \in Swaps!SetToSeqs(own)
      PROVE  \E m \in Nat : /\ DOMAIN logs = 1 .. m
                            /\ \A k \in 1 .. m : logs[k] \in own
                            /\ \A g \in own : \E k \in 1 .. m : logs[k] = g
  <2>1. /\ n \in Nat /\ logs \in [1 .. n -> own]
        /\ \A g \in own : \E k \in 1 .. n : logs[k] = g
    BY <1>1, <1>2, EnumeratedAll
  <2> HIDE DEF own, n
  <2> QED
    BY <2>1
<1>3. ASSUME NEW s \in Swaps!SetToSeqs(own), NEW l \in own, logs = Append(s, l)
      PROVE  \E m \in Nat : /\ DOMAIN logs = 1 .. m
                            /\ \A k \in 1 .. m : logs[k] \in own
                            /\ \A g \in own : \E k \in 1 .. m : logs[k] = g
  <2>1. /\ n \in Nat /\ s \in [1 .. n -> own]
        /\ \A g \in own : \E k \in 1 .. n : s[k] = g
    BY <1>1, EnumeratedAll
  <2> HIDE DEF own, n
  <2>2. s \in Seq(own) /\ Len(s) = n
    BY <2>1
  <2>3. /\ DOMAIN logs = 1 .. n + 1 /\ logs[n + 1] = l
        /\ \A k \in 1 .. n : logs[k] = s[k]
    BY <1>3, <2>1, <2>2
  <2>4. ASSUME NEW k \in 1 .. n + 1 PROVE logs[k] \in own
    <3>1. k \in 1 .. n \/ k = n + 1
      BY <2>1
    <3> QED
      BY <2>1, <2>3, <3>1
  <2>5. ASSUME NEW g \in own PROVE \E k \in 1 .. n + 1 : logs[k] = g
    <3>1. PICK k \in 1 .. n : s[k] = g
      BY <2>1
    <3>2. k \in 1 .. n + 1
      BY <2>1
    <3> QED
      BY <2>3, <3>1, <3>2
  <2>6. n + 1 \in Nat
    BY <2>1
  <2> QED
    BY <2>3, <2>4, <2>5, <2>6
<1>4. \/ logs \in Swaps!SetToSeqs(own)
      \/ \E s \in Swaps!SetToSeqs(own) : \E l \in own : logs = Append(s, l)
  BY <1>1 DEF Swaps!Answers
<1> QED
  BY <1>2, <1>3, <1>4

\* Of an answer, each log of the branch is kept.
LEMMA DedupedWhole ==
    ASSUME NEW branch, NEW logs \in Swaps!Answers(branch)
    PROVE  Swaps!Deduped(logs) = OwnLogs(branch)
<1>1. PICK n \in Nat : /\ DOMAIN logs = 1 .. n
                       /\ \A k \in 1 .. n : logs[k] \in OwnLogs(branch)
                       /\ \A l \in OwnLogs(branch) : \E k \in 1 .. n : logs[k] = l
  BY AnswerWhole
<1>2. ASSUME NEW l \in OwnLogs(branch) PROVE l \in Swaps!Deduped(logs)
  <2> DEFINE here == {k \in 1 .. n : logs[k] = l}
  <2>1. here \in SUBSET Nat /\ here # {}
    BY <1>1
  <2>2. PICK k \in here : \A m \in here : k <= m
    BY <2>1, LeastExists
  <2>3. ASSUME NEW m \in DOMAIN logs, m < k
        PROVE  Swaps!Identity(logs[m]) # Swaps!Identity(logs[k])
    <3>1. m \in 1 .. n /\ k \in 1 .. n /\ m \notin here
      BY <1>1, <2>2, <2>3
    <3>2. logs[m] # l /\ logs[k] = l /\ logs[m] \in Logs /\ l \in Logs
      BY <1>1, <3>1 DEF OwnLogs
    <3>3. <<logs[m].branch, logs[m].block, logs[m].index>> # <<l.branch, l.block, l.index>>
      BY <3>2, SwapFacts
    <3> QED
      BY <3>2, <3>3 DEF Swaps!Identity
  <2>4. k \in DOMAIN logs /\ logs[k] = l
    BY <1>1
  <2> QED
    BY <2>3, <2>4 DEF Swaps!Deduped
<1>3. ASSUME NEW l \in Swaps!Deduped(logs) PROVE l \in OwnLogs(branch)
  <2>1. PICK k \in DOMAIN logs : l = logs[k]
    BY DEF Swaps!Deduped
  <2> QED
    BY <1>1, <2>1
<1> QED
  BY <1>2, <1>3

\* Some logs of one branch, in the order of the chain.
LEMMA ChainOrder ==
    ASSUME NEW branch, NEW kept \in SUBSET OwnLogs(branch)
    PROVE  LET s == Swaps!Sorted(kept)
               n == Cardinality(kept) IN
           /\ n \in Nat /\ s \in [1 .. n -> kept]
           /\ \A l \in kept : \E k \in 1 .. n : s[k] = l
           /\ \A k, m \in 1 .. n : k < m => Swaps!Precedes(s[k], s[m])
<1> DEFINE s == Swaps!Sorted(kept)
           n == Cardinality(kept)
           order == {p \in kept \X kept : Swaps!Precedes(p[1], p[2])}
           nth(k) == CHOOSE l \in kept : Cardinality(Swaps!Preceding(kept, l)) = k - 1
<1>1. IsFiniteSet(kept) /\ kept \in SUBSET Logs
  BY SwapFacts, FS_Subset DEF OwnLogs
<1>2. \A k, l \in kept : <<k, l>> \in order <=> Swaps!Precedes(k, l)
  OBVIOUS
<1> HIDE DEF order
<1>3. Orders(order, kept)
  <2>1. \A l \in kept : l.block \in Nat /\ l.index \in Nat /\ l.branch = branch
    BY <1>1, SwapFacts DEF OwnLogs
  <2>2. \A g \in kept : ~Swaps!Precedes(g, g)
    BY <2>1 DEF Swaps!Precedes
  <2>3. \A g1, g2, g3 \in kept :
           Swaps!Precedes(g1, g2) /\ Swaps!Precedes(g2, g3) => Swaps!Precedes(g1, g3)
    BY <2>1 DEF Swaps!Precedes
  <2>4. ASSUME NEW g1 \in kept, NEW g2 \in kept, g1 # g2
        PROVE  Swaps!Precedes(g1, g2) \/ Swaps!Precedes(g2, g1)
    <3>1. g1.block # g2.block \/ g1.index # g2.index
      BY <1>1, <2>1, <2>4, SwapFacts
    <3> QED
      BY <2>1, <3>1 DEF Swaps!Precedes
  <2> QED
    BY <1>2, <2>2, <2>3, <2>4 DEF Orders
<1>4. ASSUME NEW l \in kept
      PROVE  PlaceOf(kept, order, l) = Cardinality(Swaps!Preceding(kept, l))
  <2>1. Selection!Preceding(kept, order, l) = Swaps!Preceding(kept, l)
    BY <1>2 DEF Selection!Preceding, Swaps!Preceding
  <2> QED
    BY <2>1 DEF PlaceOf
<1>5. ASSUME NEW k \in 1 .. n PROVE nth(k) \in kept /\ PlaceOf(kept, order, nth(k)) = k - 1
  <2>1. \E l \in kept : PlaceOf(kept, order, l) = k - 1
    BY <1>1, <1>3, PlacesFilled
  <2>2. \E l \in kept : Cardinality(Swaps!Preceding(kept, l)) = k - 1
    BY <1>4, <2>1
  <2>3. nth(k) \in kept /\ Cardinality(Swaps!Preceding(kept, nth(k))) = k - 1
    BY <2>2
  <2> HIDE DEF nth
  <2> QED
    BY <1>4, <2>3
<1>6. s = [k \in 1 .. n |-> nth(k)]
  BY SwapCard DEF Swaps!Sorted
<1> HIDE DEF nth, s
<1>7. s \in [1 .. n -> kept] /\ \A k \in 1 .. n : PlaceOf(kept, order, s[k]) = k - 1
  BY <1>5, <1>6
<1>8. n \in Nat
  BY <1>1, FS_CardinalityType
<1>9. /\ \A l \in kept : \E k \in 1 .. n : s[k] = l
      /\ \A k, m \in 1 .. n : k < m => <<s[k], s[m]>> \in order /\ s[k] # s[m]
  <2>1. Placed(kept, order, s)
    BY <1>7 DEF Placed
  <2> QED
    BY <1>1, <1>3, <2>1, InPlaces
<1>10. \A k, m \in 1 .. n : k < m => Swaps!Precedes(s[k], s[m])
  BY <1>2, <1>7, <1>9
<1> QED
  BY <1>7, <1>8, <1>9, <1>10 DEF s

\* The swaps of an answer: one of each log that is accepted, in order.
LEMMA DecodedWhole ==
    ASSUME NEW branch, NEW logs \in Swaps!Answers(branch)
    PROVE  LET swaps == Swaps!Decoded(Swaps!Deduped(logs))
               kept == {l \in OwnLogs(branch) : Swaps!Accepted(l)} IN
           \E n \in Nat :
             /\ DOMAIN swaps = 1 .. n
             /\ \A k \in 1 .. n : swaps[k].log \in kept /\ swaps[k] = Swaps!Swap(swaps[k].log)
             /\ \A l \in kept : \E k \in 1 .. n : swaps[k].log = l
             /\ \A k, m \in 1 .. n : k < m => Swaps!Precedes(swaps[k].log, swaps[m].log)
<1> DEFINE swaps == Swaps!Decoded(Swaps!Deduped(logs))
           kept == {l \in OwnLogs(branch) : Swaps!Accepted(l)}
           s == Swaps!Sorted(kept)
           n == Cardinality(kept)
<1>1. /\ n \in Nat /\ s \in [1 .. n -> kept]
      /\ \A l \in kept : \E k \in 1 .. n : s[k] = l
      /\ \A k, m \in 1 .. n : k < m => Swaps!Precedes(s[k], s[m])
  BY ChainOrder
<1>2. swaps = [k \in DOMAIN s |-> Swaps!Swap(s[k])]
  BY DedupedWhole DEF Swaps!Decoded
<1> HIDE DEF swaps, kept, s, n
<1>3. DOMAIN swaps = 1 .. n /\ \A k \in 1 .. n : swaps[k] = Swaps!Swap(s[k])
  BY <1>1, <1>2
<1>4. \A l \in kept : Swaps!Swap(l).log = l
  BY DEF Swaps!Swap
<1>5. \A k \in 1 .. n : s[k] \in kept /\ swaps[k].log = s[k]
  BY <1>1, <1>3, <1>4
<1>6. /\ \A k \in 1 .. n : swaps[k].log \in kept /\ swaps[k] = Swaps!Swap(swaps[k].log)
      /\ \A l \in kept : \E k \in 1 .. n : swaps[k].log = l
      /\ \A k, m \in 1 .. n : k < m => Swaps!Precedes(swaps[k].log, swaps[m].log)
  BY <1>1, <1>3, <1>5
<1> QED
  BY <1>1, <1>3, <1>6 DEF swaps, kept
-----------------------------------------------------------------------------
(* The tables of the page.                                                 *)

\* What is summed up of each swap.
Column(swaps, c) == [n \in DOMAIN swaps |-> IF c = "count" THEN 1 ELSE swaps[n][c]]
InWay(swaps, chosen, way) == {n \in chosen : swaps[n].direction = way}

LEMMA SumIs ==
    ASSUME NEW swaps, NEW chosen, NEW way \in SwapWays, NEW c \in SwapColumns
    PROVE  Swaps!Sum(swaps, chosen)[way][c]
              = Swaps!Total(Column(swaps, c), InWay(swaps, chosen, way))
  BY DEF Swaps!Sum, SwapWays, SwapColumns, Column, InWay

\* Swaps as the page lists them.
SwapsListed(swaps) ==
    \E n \in Nat :
      /\ DOMAIN swaps = 1 .. n
      /\ \A k \in 1 .. n : /\ swaps[k].log.pool \in DOMAIN Catalog
                           /\ swaps[k].log.block \in SwapWindow
                           /\ swaps[k].base \in Nat /\ swaps[k].quote \in Nat

LEMMA ColumnsTyped ==
    ASSUME NEW swaps, SwapsListed(swaps), NEW c \in SwapColumns
    PROVE  /\ IsFiniteSet(DOMAIN swaps)
           /\ \A n \in DOMAIN swaps : Column(swaps, c)[n] \in Int
<1>1. PICK n \in Nat :
        /\ DOMAIN swaps = 1 .. n
        /\ \A k \in 1 .. n : swaps[k].base \in Nat /\ swaps[k].quote \in Nat
  BY DEF SwapsListed
<1>2. IsFiniteSet(1 .. n)
  BY <1>1, FS_Interval
<1>3. ASSUME NEW k \in 1 .. n PROVE Column(swaps, c)[k] \in Int
  <2>1. Column(swaps, c)[k] = IF c = "count" THEN 1 ELSE swaps[k][c]
    BY <1>1 DEF Column
  <2>2. c = "count" \/ c = "base" \/ c = "quote"
    BY DEF SwapColumns
  <2>3. swaps[k].base \in Nat /\ swaps[k].quote \in Nat
    BY <1>1
  <2>4. CASE c = "count"
    BY <2>1, <2>4
  <2>5. CASE c = "base"
    <3>1. swaps[k][c] = swaps[k].base
      BY <2>5
    <3> QED
      BY <2>1, <2>3, <2>5, <3>1
  <2>6. CASE c = "quote"
    <3>1. swaps[k][c] = swaps[k].quote
      BY <2>6
    <3> QED
      BY <2>1, <2>3, <2>6, <3>1
  <2> QED
    BY <2>2, <2>4, <2>5, <2>6
<1> QED
  BY <1>1, <1>2, <1>3

\* A table of sums adds up to the sum over what its buckets hold.
LEMMA TableAdds ==
    ASSUME NEW swaps, SwapsListed(swaps), NEW way \in SwapWays, NEW c \in SwapColumns,
           NEW B, IsFiniteSet(B), NEW bucket,
           \A b \in B : bucket[b] \in SUBSET DOMAIN swaps,
           \A a, b \in B : a # b => bucket[a] \cap bucket[b] = {},
           NEW f, DOMAIN f = B, \A b \in B : f[b] = Swaps!Sum(swaps, bucket[b])
    PROVE  Swaps!Total([x \in DOMAIN f |-> f[x][way][c]], DOMAIN f)
              = Swaps!Sum(swaps, UNION {bucket[b] : b \in B})[way][c]
<1> DEFINE F == Column(swaps, c)
           S == DOMAIN swaps
           part == [b \in B |-> InWay(swaps, bucket[b], way)]
           G == [x \in DOMAIN f |-> f[x][way][c]]
           held == UNION {bucket[b] : b \in B}
<1>1. IsFiniteSet(S) /\ \A x \in S : F[x] \in Int
  BY ColumnsTyped
<1>2. ASSUME NEW b \in B
      PROVE  part[b] \in SUBSET S /\ G[b] = Swaps!Total(F, part[b])
  <2>1. part[b] \in SUBSET S
    BY DEF InWay
  <2>2. G[b] = Swaps!Sum(swaps, bucket[b])[way][c]
    OBVIOUS
  <2> HIDE DEF G, F
  <2> QED
    BY <2>1, <2>2, SumIs DEF F
<1>3. ASSUME NEW a \in B, NEW b \in B, a # b PROVE part[a] \cap part[b] = {}
  <2>1. bucket[a] \cap bucket[b] = {}
    BY <1>3
  <2>2. part[a] = InWay(swaps, bucket[a], way) /\ part[b] = InWay(swaps, bucket[b], way)
    OBVIOUS
  <2> HIDE DEF part
  <2> QED
    BY <2>1, <2>2 DEF InWay
<1>4. UNION {part[b] : b \in B} = InWay(swaps, held, way)
  <2>1. ASSUME NEW x PROVE x \in UNION {part[b] : b \in B} <=> x \in InWay(swaps, held, way)
    BY DEF InWay
  <2> HIDE DEF part, held
  <2> QED
    BY <2>1
<1>5. DOMAIN f = B
  OBVIOUS
<1> HIDE DEF F, S, part, G
<1>6. Swaps!Total(G, B) = Swaps!Total(F, UNION {part[b] : b \in B})
  BY <1>1, <1>2, <1>3, TotalOfBuckets
<1> HIDE DEF held
<1>7. Swaps!Total(F, InWay(swaps, held, way)) = Swaps!Sum(swaps, held)[way][c]
  BY SumIs DEF F
<1> QED
  BY <1>4, <1>5, <1>6, <1>7 DEF G, held

\* Every size is in one bin, or above all.
LEMMA BinsPart ==
    /\ IsFiniteSet(Swaps!Bins)
    /\ \A x \in Swaps!Bins : x.top \in BinTops /\ x.low \in Nat
    /\ \A x, y \in Swaps!Bins : x # y =>
          \A v \in Nat : ~(x.low <= v /\ v < x.top /\ y.low <= v /\ v < y.top)
    /\ \A v \in Nat : (\E t \in BinTops : ~(v >= t)) <=>
                      (\E x \in Swaps!Bins : x.low <= v /\ v < x.top)
<1> DEFINE Under(t) == {0} \cup {u \in BinTops : u < t}
           Low(t) == Swaps!Max(Under(t))
           bin(t) == [low |-> Low(t), top |-> t]
<1>1. ASSUME NEW t \in BinTops
      PROVE  /\ t \in Nat /\ Low(t) \in Nat /\ (Low(t) = 0 \/ (Low(t) \in BinTops /\ Low(t) < t))
             /\ \A u \in BinTops : u < t => u <= Low(t)
  <2>1. t \in Nat /\ BinTops \in SUBSET Nat /\ \A u \in BinTops : u \in Nat
    BY SwapFacts
  <2>2. \E b \in Under(t) : \A u \in Under(t) : b >= u
    <3> DEFINE gaps == {t - u : u \in Under(t)}
    <3>1. gaps \in SUBSET Nat /\ gaps # {}
      <4>1. ASSUME NEW u \in Under(t) PROVE t - u \in Nat
        BY <2>1
      <4>2. t - 0 \in gaps
        OBVIOUS
      <4> QED
        BY <4>1, <4>2
    <3>2. PICK d \in gaps : \A e \in gaps : d <= e
      <4> HIDE DEF gaps
      <4> QED
        BY <3>1, LeastExists
    <3>3. PICK b \in Under(t) : d = t - b
      BY <3>2
    <3>4. ASSUME NEW u \in Under(t) PROVE b >= u
      <4>1. t - u \in gaps
        OBVIOUS
      <4>2. t - b <= t - u
        BY <3>2, <3>3, <4>1
      <4>3. u \in Nat /\ b \in Nat
        BY <2>1
      <4> QED
        BY <2>1, <4>2, <4>3
    <3> QED
      BY <3>4
  <2>3. Low(t) \in Under(t) /\ \A u \in Under(t) : Low(t) >= u
    <3> HIDE DEF Under
    <3> QED
      BY <2>2 DEF Swaps!Max
  <2> HIDE DEF Low
  <2>4. Low(t) \in Nat /\ (Low(t) = 0 \/ (Low(t) \in BinTops /\ Low(t) < t))
    <3>1. Low(t) \in {0} \/ Low(t) \in {u \in BinTops : u < t}
      BY <2>3
    <3>2. Low(t) = 0 \/ (Low(t) \in BinTops /\ Low(t) < t)
      BY <3>1
    <3>3. Low(t) = 0 \/ Low(t) \in BinTops
      BY <3>2
    <3>4. Low(t) \in Nat
      <4>1. CASE Low(t) = 0
        BY <4>1
      <4>2. CASE Low(t) \in BinTops
        BY <2>1, <4>2
      <4> QED
        BY <3>3, <4>1, <4>2
    <3> QED
      BY <3>2, <3>4
  <2>5. ASSUME NEW u \in BinTops, u < t PROVE u <= Low(t)
    BY <2>1, <2>3, <2>4, <2>5
  <2> QED
    BY <2>1, <2>4, <2>5
<1>2. Swaps!Bins = {bin(t) : t \in BinTops}
  BY DEF Swaps!Bins
<1> HIDE DEF Low
<1>3. ASSUME NEW x \in Swaps!Bins
      PROVE  x.top \in BinTops /\ x = bin(x.top) /\ x.low = Low(x.top) /\ x.low \in Nat
  <2>1. PICK t \in BinTops : x = bin(t)
    BY <1>2
  <2> QED
    BY <1>1, <2>1
<1>4. IsFiniteSet(Swaps!Bins)
  <2> DEFINE f == [t \in BinTops |-> bin(t)]
  <2>1. f \in Surjection(BinTops, Swaps!Bins)
    BY <1>2 DEF Surjection
  <2> HIDE DEF f
  <2> QED
    BY <2>1, SwapFacts, FS_Surjection
<1>5. ASSUME NEW x \in Swaps!Bins, NEW y \in Swaps!Bins, x # y, NEW v \in Nat,
             x.low <= v, v < x.top, y.low <= v, v < y.top
      PROVE  FALSE
  <2>1. /\ x.top \in BinTops /\ y.top \in BinTops /\ x.top # y.top
        /\ x.low = Low(x.top) /\ y.low = Low(y.top)
    BY <1>3, <1>5
  <2>2. /\ x.top \in Nat /\ y.top \in Nat /\ Low(x.top) \in Nat /\ Low(y.top) \in Nat
        /\ x.top < y.top => x.top <= Low(y.top)
        /\ y.top < x.top => y.top <= Low(x.top)
    BY <1>1, <2>1
  <2> QED
    BY <1>5, <2>1, <2>2
<1>6. ASSUME NEW v \in Nat, NEW t \in BinTops, ~(v >= t)
      PROVE  \E x \in Swaps!Bins : x.low <= v /\ v < x.top
  <2> DEFINE above == {u \in BinTops : v < u}
  <2>1. above \in SUBSET Nat /\ above # {} /\ BinTops \in SUBSET Nat
    BY <1>6, SwapFacts
  <2>2. PICK u \in above : \A w \in above : u <= w
    BY <2>1, LeastExists
  <2>3. u \in BinTops /\ v < u /\ u \in Nat
    BY <2>1
  <2>4. Low(u) \in Nat /\ (Low(u) = 0 \/ (Low(u) \in BinTops /\ Low(u) < u))
    BY <1>1, <2>3
  <2>5. Low(u) <= v
    <3>1. Low(u) \in BinTops /\ v < Low(u) => Low(u) \in above
      OBVIOUS
    <3> QED
      BY <2>2, <2>3, <2>4, <3>1
  <2>6. bin(u) \in Swaps!Bins /\ bin(u).low = Low(u) /\ bin(u).top = u
    BY <1>2, <2>3
  <2> QED
    BY <2>3, <2>5, <2>6
<1>7. ASSUME NEW v \in Nat, NEW x \in Swaps!Bins, x.low <= v, v < x.top
      PROVE  \E t \in BinTops : ~(v >= t)
  <2>1. x.top \in BinTops /\ x.top \in Nat
    BY <1>1, <1>3
  <2> QED
    BY <1>7, <2>1
<1> HIDE DEF bin
<1> QED
  BY <1>3, <1>4, <1>5, <1>6, <1>7

\* The tables of a list of swaps, each bucket's sum against the total's.
LEMMA TablesAddUp ==
    ASSUME NEW swaps, SwapsListed(swaps), NEW way \in SwapWays, NEW c \in SwapColumns
    PROVE  LET m == Swaps!Metrics(swaps)
               Adds(f) == Swaps!Total([x \in DOMAIN f |-> f[x][way][c]], DOMAIN f) IN
           /\ Adds(m.pool) = m.total[way][c]
           /\ Adds(m.block) = m.total[way][c]
           /\ Adds(m.minute) = m.total[way][c]
           /\ Adds(m.size) + m.large[way][c] = m.total[way][c]
<1> DEFINE D == DOMAIN swaps
           m == Swaps!Metrics(swaps)
           Adds(f) == Swaps!Total([x \in DOMAIN f |-> f[x][way][c]], DOMAIN f)
           perPool == [p \in DOMAIN Catalog |-> {n \in D : swaps[n].log.pool = p}]
           perBlock == [b \in SwapWindow |-> {n \in D : swaps[n].log.block = b}]
           perMinute == [t \in Minutes |-> {n \in D : MinuteOf[swaps[n].log.block] = t}]
           perBin == [x \in Swaps!Bins |-> {n \in D : x.low <= swaps[n].base /\ swaps[n].base < x.top}]
           above == {n \in D : \A t \in BinTops : swaps[n].base >= t}
<1>1. /\ m.total = Swaps!Sum(swaps, D)
      /\ m.pool = [p \in DOMAIN Catalog |-> Swaps!Sum(swaps, {n \in D : swaps[n].log.pool = p})]
      /\ m.block = [b \in SwapWindow |-> Swaps!Sum(swaps, {n \in D : swaps[n].log.block = b})]
      /\ m.minute =
           [t \in Minutes |-> Swaps!Sum(swaps, {n \in D : MinuteOf[swaps[n].log.block] = t})]
      /\ m.size = [x \in Swaps!Bins |->
                     Swaps!Sum(swaps, {n \in D : x.low <= swaps[n].base /\ swaps[n].base < x.top})]
      /\ m.large = Swaps!Sum(swaps, above)
  BY DEF Swaps!Metrics
<1>2. \A n \in D : /\ swaps[n].log.pool \in DOMAIN Catalog
                   /\ swaps[n].log.block \in SwapWindow
                   /\ MinuteOf[swaps[n].log.block] \in Minutes
                   /\ swaps[n].base \in Nat
  BY SwapFacts DEF SwapsListed
<1> HIDE DEF m
<1>3. Adds(m.pool) = m.total[way][c]
  <2> DEFINE f == m.pool
             B == DOMAIN Catalog
  <2>1. DOMAIN f = B /\ \A b \in B : f[b] = Swaps!Sum(swaps, perPool[b])
    BY <1>1
  <2>2. /\ \A b \in B : perPool[b] \in SUBSET D
        /\ \A a, b \in B : a # b => perPool[a] \cap perPool[b] = {}
        /\ UNION {perPool[b] : b \in B} = D
    <3>1. ASSUME NEW n \in D PROVE n \in perPool[swaps[n].log.pool] /\ swaps[n].log.pool \in B
      BY <1>2
    <3>2. \A b \in B : perPool[b] = {n \in D : swaps[n].log.pool = b}
      OBVIOUS
    <3> HIDE DEF perPool, B, D
    <3> QED
      BY <3>1, <3>2
  <2>3. IsFiniteSet(B)
    BY SwapFacts
  <2> HIDE DEF f, B, perPool
  <2>4. Adds(f) = Swaps!Sum(swaps, UNION {perPool[b] : b \in B})[way][c]
    BY <2>1, <2>2, <2>3, TableAdds
  <2> QED
    BY <1>1, <2>2, <2>4 DEF f
<1>4. Adds(m.block) = m.total[way][c]
  <2> DEFINE f == m.block
             B == SwapWindow
  <2>1. DOMAIN f = B /\ \A b \in B : f[b] = Swaps!Sum(swaps, perBlock[b])
    BY <1>1
  <2>2. /\ \A b \in B : perBlock[b] \in SUBSET D
        /\ \A a, b \in B : a # b => perBlock[a] \cap perBlock[b] = {}
        /\ UNION {perBlock[b] : b \in B} = D
    <3>1. ASSUME NEW n \in D PROVE n \in perBlock[swaps[n].log.block] /\ swaps[n].log.block \in B
      BY <1>2
    <3>2. \A b \in B : perBlock[b] = {n \in D : swaps[n].log.block = b}
      OBVIOUS
    <3> HIDE DEF perBlock, B, D
    <3> QED
      BY <3>1, <3>2
  <2>3. IsFiniteSet(B)
    BY SwapFacts
  <2> HIDE DEF f, B, perBlock
  <2>4. Adds(f) = Swaps!Sum(swaps, UNION {perBlock[b] : b \in B})[way][c]
    BY <2>1, <2>2, <2>3, TableAdds
  <2> QED
    BY <1>1, <2>2, <2>4 DEF f
<1>5. Adds(m.minute) = m.total[way][c]
  <2> DEFINE f == m.minute
             B == Minutes
  <2>1. DOMAIN f = B /\ \A b \in B : f[b] = Swaps!Sum(swaps, perMinute[b])
    BY <1>1
  <2>2. /\ \A b \in B : perMinute[b] \in SUBSET D
        /\ \A a, b \in B : a # b => perMinute[a] \cap perMinute[b] = {}
        /\ UNION {perMinute[b] : b \in B} = D
    <3>1. ASSUME NEW n \in D PROVE n \in perMinute[MinuteOf[swaps[n].log.block]] /\ MinuteOf[swaps[n].log.block] \in B
      BY <1>2
    <3>2. \A b \in B : perMinute[b] = {n \in D : MinuteOf[swaps[n].log.block] = b}
      OBVIOUS
    <3> HIDE DEF perMinute, B, D
    <3> QED
      BY <3>1, <3>2
  <2>3. IsFiniteSet(B)
    BY SwapFacts
  <2> HIDE DEF f, B, perMinute
  <2>4. Adds(f) = Swaps!Sum(swaps, UNION {perMinute[b] : b \in B})[way][c]
    BY <2>1, <2>2, <2>3, TableAdds
  <2> QED
    BY <1>1, <2>2, <2>4 DEF f
<1>6. Adds(m.size) = Swaps!Sum(swaps, D \ above)[way][c]
  <2> DEFINE f == m.size
             B == Swaps!Bins
  <2>1. DOMAIN f = B /\ \A b \in B : f[b] = Swaps!Sum(swaps, perBin[b])
    BY <1>1
  <2>2. /\ \A b \in B : perBin[b] \in SUBSET D
        /\ \A a, b \in B : a # b => perBin[a] \cap perBin[b] = {}
    BY <1>2, BinsPart
  <2>3. IsFiniteSet(B)
    BY BinsPart
  <2>4. UNION {perBin[b] : b \in B} = D \ above
    <3>1. ASSUME NEW n PROVE n \in UNION {perBin[b] : b \in B} <=> n \in D \ above
      <4>1. n \in UNION {perBin[b] : b \in B} <=>
              n \in D /\ \E b \in B : b.low <= swaps[n].base /\ swaps[n].base < b.top
        OBVIOUS
      <4>2. n \in D \ above <=> n \in D /\ \E t \in BinTops : ~(swaps[n].base >= t)
        OBVIOUS
      <4> HIDE DEF perBin, above
      <4> QED
        BY <1>2, <4>1, <4>2, BinsPart
    <3> HIDE DEF perBin, above
    <3> QED
      BY <3>1
  <2> HIDE DEF f, B, perBin, above
  <2>5. Adds(f) = Swaps!Sum(swaps, UNION {perBin[b] : b \in B})[way][c]
    BY <2>1, <2>2, <2>3, TableAdds
  <2> QED
    BY <2>4, <2>5 DEF f
<1>7. Swaps!Sum(swaps, D \ above)[way][c] + m.large[way][c] = m.total[way][c]
  <2> DEFINE F == Column(swaps, c)
             S == InWay(swaps, D, way)
             T == InWay(swaps, above, way)
  <2>1. IsFiniteSet(D) /\ \A n \in D : F[n] \in Int
    BY ColumnsTyped
  <2>2. /\ S \in SUBSET D /\ T \in SUBSET S
        /\ S \ T = InWay(swaps, D \ above, way)
    BY DEF InWay
  <2> HIDE DEF F, S, T
  <2> HIDE DEF D, above
  <2>3. /\ Swaps!Sum(swaps, D)[way][c] = Swaps!Total(F, S)
        /\ Swaps!Sum(swaps, above)[way][c] = Swaps!Total(F, T)
        /\ Swaps!Sum(swaps, D \ above)[way][c] = Swaps!Total(F, S \ T)
    <3>1. /\ Swaps!Sum(swaps, D)[way][c] = Swaps!Total(Column(swaps, c), S)
          /\ Swaps!Sum(swaps, above)[way][c] = Swaps!Total(Column(swaps, c), T)
          /\ Swaps!Sum(swaps, D \ above)[way][c]
                = Swaps!Total(Column(swaps, c), InWay(swaps, D \ above, way))
      BY SumIs DEF S, T
    <3> QED
      BY <2>2, <3>1 DEF F
  <2>4. /\ IsFiniteSet(S) /\ \A n \in S : F[n] \in Int
        /\ IsFiniteSet(T) /\ \A n \in T : F[n] \in Int
        /\ IsFiniteSet(S \ T) /\ \A n \in S \ T : F[n] \in Int
    BY <2>1, <2>2, FS_Subset
  <2>5. Swaps!Total(F, S) = Swaps!Total(F, T) + Swaps!Total(F, S \ T)
    BY <2>2, <2>4, TotalSplit
  <2>6. Swaps!Total(F, T) \in Int /\ Swaps!Total(F, S \ T) \in Int
    BY <2>4, TotalSame
  <2> QED
    BY <1>1, <2>3, <2>5, <2>6
<1> HIDE DEF Adds, above, D
<1> QED
  BY <1>3, <1>4, <1>5, <1>6, <1>7 DEF m, Adds
-----------------------------------------------------------------------------
(* What a run goes by, and what it publishes.                              *)

FromNode(t) == t.logs \in Swaps!Answers(t.node)

TakenSwaps == Swaps!Decoded(Swaps!Deduped(taken.logs))

\* What is cached is a whole answer; a run goes by one that is of the branch of
\* sources.json, and publishes what that yields.
SwapsInv ==
    /\ place \in {"idle", "decode", "write"}
    /\ cache # Swaps!NoFile => FromNode(cache)
    /\ place # "idle" => FromNode(taken) /\ taken.pinned = canonical
    /\ place = "write" =>
         page.swaps = TakenSwaps /\ page.metrics = Swaps!Metrics(page.swaps)

LEMMA SwapsInit == Init => SwapsInv
  BY DEF Init, Swaps!Init, SwapsInv

LEMMA TakenUnchanged ==
    ASSUME UNCHANGED <<canonical, taken>>
    PROVE  UNCHANGED TakenSwaps
  BY DEF TakenSwaps, Swaps!Decoded, Swaps!Accepted

LEMMA FetchKeeps ==
    ASSUME SwapsInv, NEW forced, Swaps!Fetch(forced)
    PROVE  SwapsInv'
<1>1. place = "idle" /\ UNCHANGED <<canonical, page>>
  BY DEF Swaps!Fetch, Swaps!Begins
<1>2. CASE UNCHANGED <<cache, place, taken>>
  BY <1>1, <1>2 DEF SwapsInv, FromNode
<1>3. ASSUME NEW branch \in Branches, NEW logs \in Swaps!Answers(branch),
             cache' = [pinned |-> canonical, node |-> branch, logs |-> logs],
             place' = "decode", taken' = cache'
      PROVE  SwapsInv'
  <2>1. FromNode(cache)' /\ FromNode(taken)' /\ taken'.pinned = canonical'
    BY <1>1, <1>3 DEF FromNode
  <2> QED
    BY <1>3, <2>1 DEF SwapsInv
<1> QED
  BY <1>2, <1>3 DEF Swaps!Fetch

LEMMA SwapPagesKeep ==
    ASSUME SwapsInv, Swaps!Publish
    PROVE  SwapsInv'
<1>1. place = "decode" /\ UNCHANGED <<canonical, cache, taken>>
  BY DEF Swaps!Publish
<1>2. \/ place' = "idle"
      \/ /\ place' = "write"
         /\ page' = [swaps |-> TakenSwaps, metrics |-> Swaps!Metrics(TakenSwaps),
                     of |-> canonical]
  BY DEF Swaps!Publish, TakenSwaps
<1>3. UNCHANGED TakenSwaps
  BY <1>1, TakenUnchanged
<1>4. CASE place' = "idle"
  BY <1>1, <1>4 DEF SwapsInv, FromNode
<1>5. CASE place' = "write" /\ page' = [swaps |-> TakenSwaps,
                                        metrics |-> Swaps!Metrics(TakenSwaps), of |-> canonical]
  <2>1. page'.swaps = TakenSwaps' /\ page'.metrics = Swaps!Metrics(page'.swaps)
    BY <1>3, <1>5
  <2>2. FromNode(taken)' /\ taken'.pinned = canonical' /\ (cache' # Swaps!NoFile => FromNode(cache)')
    BY <1>1 DEF SwapsInv, FromNode
  <2> QED
    BY <1>5, <2>1, <2>2 DEF SwapsInv, Swaps!Metrics
<1> QED
  BY <1>2, <1>4, <1>5

LEMMA SwapsKept == SwapsInv /\ [Next]_vars => SwapsInv'
<1> SUFFICES ASSUME SwapsInv, [Next]_vars PROVE SwapsInv'
  OBVIOUS
<1>1. ASSUME UNCHANGED <<canonical, cache, page, place, taken>> PROVE SwapsInv'
  BY <1>1, TakenUnchanged DEF SwapsInv, FromNode, Swaps!Metrics
<1>2. CASE UNCHANGED swapVars
  BY <1>1, <1>2 DEF swapVars
<1>3. CASE Swaps!WriteTrades
  BY <1>3 DEF Swaps!WriteTrades, SwapsInv, FromNode
<1>4. CASE Swaps!ReuseCache
  <2>1. UNCHANGED <<canonical, cache, page>> /\ cache # Swaps!NoFile /\ place = "idle"
    BY <1>4 DEF Swaps!ReuseCache, Swaps!Begins
  <2>2. CASE cache.pinned = canonical
    <3>1. place' = "decode" /\ taken' = cache
      BY <1>4, <2>2 DEF Swaps!ReuseCache
    <3> QED
      BY <2>1, <2>2, <3>1 DEF SwapsInv, FromNode
  <2>3. CASE cache.pinned # canonical
    <3>1. UNCHANGED <<place, taken>>
      BY <1>4, <2>3 DEF Swaps!ReuseCache
    <3> QED
      BY <1>1, <2>1, <3>1
  <2> QED
    BY <2>2, <2>3
<1>5. CASE Swaps!Stops
  BY <1>5 DEF Swaps!Stops, SwapsInv, FromNode
<1>6. CASE Swaps!SourcesChange
  BY <1>6 DEF Swaps!SourcesChange, SwapsInv, FromNode
<1> QED
  BY <1>2, <1>3, <1>4, <1>5, <1>6, FetchKeeps, SwapPagesKeep, OwnSteps DEF Swaps!Next

\* What is published of an answer can be summed up.
LEMMA PageListed ==
    ASSUME SwapsInv, place = "write"
    PROVE  SwapsListed(page.swaps)
<1> DEFINE swaps == page.swaps
           kept == {l \in OwnLogs(taken.node) : Swaps!Accepted(l)}
<1>1. taken.logs \in Swaps!Answers(taken.node) /\ swaps = Swaps!Decoded(Swaps!Deduped(taken.logs))
  BY DEF SwapsInv, FromNode, TakenSwaps
<1>2. PICK n \in Nat :
        /\ DOMAIN swaps = 1 .. n
        /\ \A k \in 1 .. n : swaps[k].log \in kept /\ swaps[k] = Swaps!Swap(swaps[k].log)
  <2> HIDE DEF swaps
  <2> QED
    BY <1>1, DecodedWhole
<1> HIDE DEF swaps
<1>3. ASSUME NEW k \in 1 .. n
      PROVE  /\ swaps[k].log.pool \in DOMAIN Catalog /\ swaps[k].log.block \in SwapWindow
             /\ swaps[k].base \in Nat /\ swaps[k].quote \in Nat
  <2> DEFINE l == swaps[k].log
             s == Swaps!Swap(l)
  <2>1. l \in Logs /\ Swaps!Accepted(l) /\ swaps[k] = s
    BY <1>2 DEF OwnLogs
  <2> HIDE DEF l
  <2>2. l.weth \in Int /\ l.usdc \in Int
    BY <2>1, SwapFacts
  <2>3. /\ s.base = (IF l.weth < 0 THEN -l.weth ELSE l.weth)
        /\ s.quote = (IF l.usdc < 0 THEN -l.usdc ELSE l.usdc)
    BY DEF Swaps!Swap
  <2>4. l.pool \in DOMAIN Catalog /\ l.block \in SwapWindow
    BY <2>1 DEF Swaps!Accepted
  <2> HIDE DEF s
  <2>5. s.base \in Nat /\ s.quote \in Nat
    BY <2>2, <2>3
  <2> QED
    BY <2>1, <2>4, <2>5 DEF l
<1> QED
  BY <1>2, <1>3 DEF SwapsListed, swaps

LEMMA PageExact == SwapsInv => Swaps!SwapsExact
<1> SUFFICES ASSUME SwapsInv, place = "write", taken.node = taken.pinned
             PROVE  /\ {s.log : s \in Swaps!Range1(page.swaps)} = {l \in Logs : Swaps!Accepted(l)}
                    /\ \A m, n \in DOMAIN page.swaps :
                          m < n => Swaps!Precedes(page.swaps[m].log, page.swaps[n].log)
  BY DEF Swaps!SwapsExact
<1> DEFINE swaps == page.swaps
           kept == {l \in OwnLogs(taken.node) : Swaps!Accepted(l)}
<1>1. /\ taken.logs \in Swaps!Answers(taken.node) /\ taken.node = canonical
      /\ swaps = Swaps!Decoded(Swaps!Deduped(taken.logs))
  BY DEF SwapsInv, FromNode, TakenSwaps
<1>2. PICK n \in Nat :
        /\ DOMAIN swaps = 1 .. n
        /\ \A k \in 1 .. n : swaps[k].log \in kept
        /\ \A l \in kept : \E k \in 1 .. n : swaps[k].log = l
        /\ \A k, m \in 1 .. n : k < m => Swaps!Precedes(swaps[k].log, swaps[m].log)
  <2> HIDE DEF swaps
  <2> QED
    BY <1>1, DecodedWhole
<1>3. kept = {l \in Logs : Swaps!Accepted(l)}
  <2>1. \A l \in Logs : Swaps!Accepted(l) => l.branch = canonical
    BY DEF Swaps!Accepted
  <2> QED
    BY <1>1, <2>1 DEF OwnLogs
<1> HIDE DEF swaps, kept
<1>4. {s.log : s \in Swaps!Range1(swaps)} = kept
  <2>1. Swaps!Range1(swaps) = {swaps[k] : k \in 1 .. n}
    BY <1>2 DEF Swaps!Range1
  <2>2. ASSUME NEW l PROVE l \in {s.log : s \in Swaps!Range1(swaps)} <=> \E k \in 1 .. n : l = swaps[k].log
    BY <2>1
  <2>3. ASSUME NEW l PROVE l \in {s.log : s \in Swaps!Range1(swaps)} <=> l \in kept
    BY <1>2, <2>2
  <2> QED
    BY <2>3
<1> QED
  BY <1>2, <1>3, <1>4 DEF swaps

LEMMA PageAddsUp == SwapsInv => Swaps!BucketsAddUp
<1> SUFFICES ASSUME SwapsInv, place = "write" PROVE Swaps!BucketsAddUp
  BY DEF Swaps!BucketsAddUp
<1> DEFINE m == page.metrics
           Adds(f, way, c) == Swaps!Total([x \in DOMAIN f |-> f[x][way][c]], DOMAIN f)
<1>1. m = Swaps!Metrics(page.swaps) /\ SwapsListed(page.swaps)
  BY PageListed DEF SwapsInv
<1>2. m.total = Swaps!Sum(page.swaps, DOMAIN page.swaps)
  BY <1>1 DEF Swaps!Metrics
<1> HIDE DEF m
<1>3. /\ DOMAIN m.total = SwapWays
      /\ \A way \in SwapWays : DOMAIN m.total[way] = SwapColumns
  BY <1>2 DEF Swaps!Sum, SwapWays, SwapColumns
<1>4. ASSUME NEW way \in SwapWays, NEW c \in SwapColumns
      PROVE  /\ Adds(m.pool, way, c) = m.total[way][c]
             /\ Adds(m.block, way, c) = m.total[way][c]
             /\ Adds(m.minute, way, c) = m.total[way][c]
             /\ Adds(m.size, way, c) + m.large[way][c] = m.total[way][c]
  BY <1>1, TablesAddUp
<1> HIDE DEF Adds
<1>5. \A way \in DOMAIN m.total : \A c \in DOMAIN m.total[way] :
        /\ Adds(m.pool, way, c) = m.total[way][c]
        /\ Adds(m.block, way, c) = m.total[way][c]
        /\ Adds(m.minute, way, c) = m.total[way][c]
        /\ Adds(m.size, way, c) + m.large[way][c] = m.total[way][c]
  BY <1>3, <1>4
<1> QED
  BY <1>5 DEF Swaps!BucketsAddUp, m, Adds

\* Whatever the node repeats or reorders, whatever earlier runs cached and however
\* often sources.json is made anew: if the node was on its branch, the page has
\* every swap of it once, in the order of the chain, and none of another, and
\* every table of sums adds up to the total (validate_cache, run_experiment).
THEOREM SwapsAreExact == Spec => []SwapsExact
<1>1. SwapsInv => SwapsExact
  BY PageExact, PageAddsUp DEF SwapsExact
<1> QED
  BY <1>1, SwapsInit, SwapsKept, PTL DEF Spec
=============================================================================
