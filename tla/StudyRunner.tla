----------------------------- MODULE StudyRunner -----------------------------
(***************************************************************************)
(* The serial loop of run_study (historical_study.py): block after block,  *)
(* the acquisition stages that are not yet done under the inventories as   *)
(* they are, the block's coverage, then its quotes, each kept with the     *)
(* inventory identity it was asked under and the digest of its report.     *)
(*                                                                         *)
(* The runs of one directory may acquire, quote offline or do both: none   *)
(* of that is part of config_identity.  Stages and other programs change   *)
(* the inventories at any time.  An inventory identity is the edition it   *)
(* was computed from, a report's digest the edition its quote was made on. *)
(***************************************************************************)
EXTENDS Naturals, FiniteSets

CONSTANTS NumBlocks,    \* planned_blocks, numbered in their order
          NumStages,    \* STAGE_MODULES, numbered in their order
          NumJobs,      \* scenarios and solvers of a block, in their order
          Limits,       \* values of max_blocks_this_run, NumBlocks standing for None
          MaxVersion,   \* bound: editions of the inventories
          MaxRuns,      \* bound: runs of the directory
          MaxMishaps    \* bound: failures, interrupts, crashes, full disks, removed reports

StudyRunnerAssumption ==
    /\ {NumBlocks, NumStages, NumJobs, MaxVersion} \subseteq Nat \ {0}
    /\ Limits \subseteq Nat \ {0}
    /\ {MaxRuns, MaxMishaps} \subseteq Nat

Planned == 1 .. NumBlocks
Stages == 1 .. NumStages
Jobs == 1 .. NumJobs
Modes == {"acquire_only", "acquire", "offline"}

VARIABLES
    blocks,     \* blocks/<n>.json
    book,       \* manifest.json: the blocks it knows a shard of, and their coverage
    quotes,     \* quotes[n][j]: digest of the report on disk, 0 while there is none
    edition,    \* of the inventory files
    at,         \* where the run is
    known,      \* manifest['blocks'] of the running process
    block,      \* the block in hand
    here,       \* its number, stage, job and inventory identity
    run,        \* mode, limit, blocks taken up and whether the run was cut short
    ran,        \* runs so far, and the edition the last one began with
    started,    \* history: stages started, per block and stage
    troubles    \* history: what has gone wrong so far

runnerDisk == <<blocks, book, quotes, edition>>
runnerLocals == <<known, block, here, run>>
runnerVars == <<runnerDisk, at, runnerLocals, ran, started, troubles>>

Editions == 0 .. MaxVersion
StageRows == [status : {"none", "running", "completed", "failed"}, attempts : Nat]
Quotes == [status : {"none", "planned", "completed", "failed"}, inventory : Editions,
           digest : Editions]
BlockFiles == [stages : [Stages -> StageRows], inventory : Editions,
               complete : BOOLEAN, scenarios : [Jobs -> Quotes]]
NewBlock == [stages |-> [s \in Stages |-> [status |-> "none", attempts |-> 0]],
             inventory |-> 0, complete |-> FALSE,
             scenarios |-> [j \in Jobs |-> [status |-> "none", inventory |-> 0, digest |-> 0]]]

Unknown == [shard |-> FALSE, complete |-> FALSE, completed |-> 0]
NoBook == [n \in Planned |-> Unknown]
Idle == [number |-> 1, stage |-> 1, job |-> 1, inventory |-> 0]
NoRun == [mode |-> "offline", limit |-> 0, processed |-> 0, stopped |-> FALSE]

Quiet == {"off", "returned"}
Acquires == run.mode # "offline"
Quotable == run.mode # "acquire_only"

TypeOK ==
    /\ blocks \in [Planned -> BlockFiles] /\ block \in BlockFiles
    /\ {book, known} \subseteq
          [Planned -> [shard : BOOLEAN, complete : BOOLEAN, completed : 0 .. NumJobs]]
    /\ quotes \in [Planned -> [Jobs -> Editions]]
    /\ edition \in Editions
    /\ at \in Quiet \cup {"next", "opened", "stage", "staging", "cover", "quote",
                          "quoting", "filed", "closed", "close", "finish", "begun"}
    /\ here \in [number : 1 .. NumBlocks + 1, stage : 1 .. NumStages + 1,
                 job : 1 .. NumJobs + 1, inventory : Editions]
    /\ run \in [mode : Modes, limit : Limits \cup {0}, processed : Nat, stopped : BOOLEAN]
    /\ ran \in [count : 0 .. MaxRuns, opened : Editions]
    /\ started \in [Planned -> [Stages -> Nat]]
    /\ troubles \in 0 .. MaxMishaps

Init ==
    /\ blocks = [n \in Planned |-> NewBlock] /\ block = NewBlock
    /\ book = NoBook /\ known = NoBook
    /\ quotes = [n \in Planned |-> [j \in Jobs |-> 0]]
    /\ edition = 1
    /\ at = "off" /\ here = Idle /\ run = NoRun
    /\ ran = [count |-> 0, opened |-> 0]
    /\ started = [n \in Planned |-> [s \in Stages |-> 0]]
    /\ troubles = 0
-----------------------------------------------------------------------------
Trouble == troubles < MaxMishaps /\ troubles' = troubles + 1

\* _checkpoint_block: the shard on disk, its summary in memory.
Summarised(b) ==
    [shard |-> TRUE, complete |-> b.complete,
     completed |-> Cardinality({j \in Jobs : b.scenarios[j].status = "completed"})]
File(b) ==
    /\ blocks' = [blocks EXCEPT ![here.number] = b]
    /\ known' = [known EXCEPT ![here.number] = Summarised(b)]

\* A stage that need not be repeated under inventories of edition e.
Done(b, s, e) == b.stages[s].status = "completed" /\ b.inventory = e
StagesReady(b, e) == b.inventory = e /\ (Acquires => \A s \in Stages : Done(b, s, e))

Stored(n) == IF known[n].shard THEN blocks[n] ELSE NewBlock

\* Mutant: the report on disk is not looked at.
CompleteOnRecord(q, e, report) == q.status = "completed" /\ q.inventory = e

\* _complete: the quote was asked for under these inventories, and its report
\* is the one that was filed.
Complete(q, e, report) ==
    q.status = "completed" /\ q.inventory = e /\ report # 0 /\ q.digest = report
-----------------------------------------------------------------------------
\* run_study up to the loop.
Start ==
    /\ at \in Quiet /\ ran.count < MaxRuns
    /\ ran' = [count |-> ran.count + 1, opened |-> edition]
    /\ \E m \in Modes, l \in Limits :
          run' = [mode |-> m, limit |-> l, processed |-> 0, stopped |-> FALSE]
    /\ known' = book /\ here' = Idle /\ block' = NewBlock
    /\ at' = "next"
    /\ UNCHANGED <<runnerDisk, started, troubles>>

Looping == at = "next" /\ here.number <= NumBlocks
Skipping == ~Quotable /\ StagesReady(Stored(here.number), edition)

\* The disk is nearly full: the manifest says so and the loop ends.
DiskFull ==
    /\ Looping
    /\ book' = known
    /\ run' = [run EXCEPT !.stopped = TRUE]
    /\ at' = "finish"
    /\ Trouble
    /\ UNCHANGED <<blocks, quotes, edition, known, block, here, ran, started>>

SkipAcquired ==
    /\ Looping /\ Skipping
    /\ File(Stored(here.number))
    /\ here' = [here EXCEPT !.number = @ + 1]
    /\ UNCHANGED <<book, quotes, edition, at, block, run, ran, started, troubles>>

LimitReached ==
    /\ Looping /\ ~Skipping /\ run.processed >= run.limit
    /\ at' = "finish"
    /\ UNCHANGED <<runnerDisk, runnerLocals, ran, started, troubles>>

Open ==
    /\ Looping /\ ~Skipping /\ run.processed < run.limit
    /\ run' = [run EXCEPT !.processed = @ + 1]
    /\ block' = Stored(here.number) /\ File(block')
    /\ here' = [here EXCEPT !.stage = 1, !.job = 1, !.inventory = edition]
    /\ at' = "opened"
    /\ UNCHANGED <<book, quotes, edition, ran, started, troubles>>

\* Mutant: the manifest is written when the block is closed.
OpenedUnwritten ==
    /\ at = "opened"
    /\ at' = IF Acquires /\ ~StagesReady(block, here.inventory) THEN "stage" ELSE "cover"
    /\ UNCHANGED <<runnerDisk, runnerLocals, ran, started, troubles>>

\* The manifest knows the shard before any stage of the block runs.
Opened ==
    /\ at = "opened"
    /\ book' = known
    /\ at' = IF Acquires /\ ~StagesReady(block, here.inventory) THEN "stage" ELSE "cover"
    /\ UNCHANGED <<blocks, quotes, edition, runnerLocals, ran, started, troubles>>
-----------------------------------------------------------------------------
Staging == at = "stage" /\ here.stage <= NumStages

SkipStage ==
    /\ Staging /\ Done(block, here.stage, here.inventory)
    /\ here' = [here EXCEPT !.stage = @ + 1]
    /\ UNCHANGED <<runnerDisk, at, known, block, run, ran, started, troubles>>

\* The running attempt joins those on record, the ones a crash left included.
BeginStage ==
    /\ Staging /\ ~Done(block, here.stage, here.inventory)
    /\ block' = [block EXCEPT !.stages[here.stage] =
                    [status |-> "running", attempts |-> @.attempts + 1]]
    /\ File(block')
    /\ at' = "begun"
    /\ UNCHANGED <<book, quotes, edition, here, run, ran, started, troubles>>

CallStage ==
    /\ at = "begun"
    /\ started' = [started EXCEPT ![here.number][here.stage] = @ + 1]
    /\ at' = "staging"
    /\ UNCHANGED <<runnerDisk, runnerLocals, ran, troubles>>

\* The stage returns, or raises an Exception: its outcome replaces the attempt.
EndStage ==
    /\ at = "staging"
    /\ \/ block' = [block EXCEPT !.stages[here.stage].status = "completed"]
          /\ UNCHANGED troubles
       \/ block' = [block EXCEPT !.stages[here.stage].status = "failed"]
          /\ Trouble
    /\ File(block')
    /\ here' = [here EXCEPT !.stage = @ + 1]
    /\ at' = "stage"
    /\ UNCHANGED <<book, quotes, edition, run, ran, started>>

\* After the stages, whatever came of them: stage_inventory_identity.
StagesEnd ==
    /\ at = "stage" /\ here.stage > NumStages
    /\ block' = [block EXCEPT !.inventory = edition]
    /\ at' = "cover"
    /\ UNCHANGED <<runnerDisk, known, here, run, ran, started, troubles>>

\* Mutant: completed stages are enough.
CoverByStatus ==
    /\ at = "cover"
    /\ here' = [here EXCEPT !.inventory = edition]
    /\ block' = [block EXCEPT !.complete = \A s \in Stages : block.stages[s].status = "completed"]
    /\ at' = IF Quotable THEN "quote" ELSE "close"
    /\ UNCHANGED <<runnerDisk, known, run, ran, started, troubles>>

\* Coverage under the inventories as they are by now.
Cover ==
    /\ at = "cover"
    /\ here' = [here EXCEPT !.inventory = edition]
    /\ block' = [block EXCEPT !.complete = \A s \in Stages : Done(block, s, edition)]
    /\ at' = IF Quotable THEN "quote" ELSE "close"
    /\ UNCHANGED <<runnerDisk, known, run, ran, started, troubles>>
-----------------------------------------------------------------------------
Quoting == at = "quote" /\ here.job <= NumJobs
Kept == Complete(block.scenarios[here.job], here.inventory, quotes[here.number][here.job])

KeepQuote ==
    /\ Quoting /\ Kept
    /\ here' = [here EXCEPT !.job = @ + 1]
    /\ UNCHANGED <<runnerDisk, at, known, block, run, ran, started, troubles>>

AskQuote ==
    /\ Quoting /\ ~Kept
    /\ block' = [block EXCEPT !.scenarios[here.job] =
                    [status |-> "planned", inventory |-> here.inventory, digest |-> 0]]
    /\ at' = "quoting"
    /\ UNCHANGED <<runnerDisk, known, here, run, ran, started, troubles>>

\* The optimizer reads the inventories itself; its report takes the place of
\* the one on disk.
MakeQuote ==
    /\ at = "quoting"
    /\ quotes' = [quotes EXCEPT ![here.number][here.job] = edition]
    /\ at' = "filed"
    /\ UNCHANGED <<blocks, book, edition, runnerLocals, ran, started, troubles>>

\* The entry, with the digest of the report; the shard at once.
FileQuote ==
    /\ at = "filed"
    /\ block' = [block EXCEPT !.scenarios[here.job].status = "completed",
                              !.scenarios[here.job].digest = quotes[here.number][here.job]]
    /\ File(block')
    /\ here' = [here EXCEPT !.job = @ + 1]
    /\ at' = "quote"
    /\ UNCHANGED <<book, quotes, edition, run, ran, started, troubles>>

\* No report, network requests offline, or a write that failed after the report
\* was in place.
FailQuote ==
    /\ at \in {"quoting", "filed"}
    /\ block' = [block EXCEPT !.scenarios[here.job].status = "failed"]
    /\ File(block')
    /\ here' = [here EXCEPT !.job = @ + 1]
    /\ at' = "quote"
    /\ Trouble
    /\ UNCHANGED <<book, quotes, edition, run, ran, started>>
-----------------------------------------------------------------------------
CloseBlock ==
    /\ at = "close" \/ (at = "quote" /\ here.job > NumJobs)
    /\ File(block)
    /\ at' = "closed"
    /\ UNCHANGED <<book, quotes, edition, block, here, run, ran, started, troubles>>

NextBlock ==
    /\ at = "closed"
    /\ book' = known
    /\ here' = [Idle EXCEPT !.number = here.number + 1]
    /\ at' = "next"
    /\ UNCHANGED <<blocks, quotes, edition, known, block, run, ran, started, troubles>>

Finish ==
    /\ at = "finish" \/ (at = "next" /\ here.number > NumBlocks)
    /\ book' = known
    /\ at' = "returned"
    /\ UNCHANGED <<blocks, quotes, edition, runnerLocals, ran, started, troubles>>

\* The process is gone: its memory too.
Gone ==
    /\ at' = "off"
    /\ known' = NoBook /\ block' = NewBlock /\ here' = Idle /\ run' = NoRun
    /\ Trouble
    /\ UNCHANGED <<blocks, edition, ran, started>>

\* A stage is interrupted: shard and manifest are written, the row still running.
InterruptStage == at = "staging" /\ Gone /\ book' = known /\ UNCHANGED quotes

\* Interrupted elsewhere, or killed.
Killed == at \notin Quiet /\ Gone /\ UNCHANGED <<book, quotes>>

\* Between runs somebody removes a report: the directory is no longer as the
\* run left it.
QuoteRemoved(n, j) ==
    /\ at \in Quiet /\ quotes[n][j] # 0
    /\ quotes' = [quotes EXCEPT ![n][j] = 0]
    /\ Gone /\ UNCHANGED book

EditionChanges ==
    /\ edition < MaxVersion
    /\ edition' = edition + 1
    /\ UNCHANGED <<blocks, book, quotes, at, runnerLocals, ran, started, troubles>>

RunnerStep ==
    \/ SkipAcquired \/ LimitReached \/ Open \/ Opened
    \/ SkipStage \/ BeginStage \/ CallStage \/ EndStage \/ StagesEnd \/ Cover
    \/ KeepQuote \/ AskQuote \/ MakeQuote \/ FileQuote \/ FailQuote
    \/ CloseBlock \/ NextBlock \/ Finish

Next ==
    \/ Start \/ RunnerStep \/ DiskFull \/ InterruptStage \/ Killed \/ EditionChanges
    \/ \E n \in Planned, j \in Jobs : QuoteRemoved(n, j)

\* The loop runs on: stages and quotes return or raise.
Fairness == WF_runnerVars(RunnerStep)

Spec == Init /\ [][Next]_runnerVars
FairSpec == Spec /\ Fairness
-----------------------------------------------------------------------------
FullRun == at = "returned" /\ ~run.stopped /\ here.number > NumBlocks

\* A run that went through all planned blocks leaves every quote settled; those
\* it calls completed have their report on disk, with the digest on record,
\* made on inventories no older than the ones it was asked under or than those
\* the run began with, whatever earlier runs left behind.
QuotesBacked ==
    FullRun /\ Quotable =>
       \A n \in Planned, j \in Jobs :
          LET q == blocks[n].scenarios[j] IN
             /\ q.status \in {"completed", "failed"}
             /\ q.status = "completed" => /\ quotes[n][j] = q.digest
                                          /\ q.digest >= q.inventory
                                          /\ q.inventory >= ran.opened

\* Where such a run claims complete coverage, every stage is completed and the
\* block's stages ended under inventories no older than the run's first.
CoverageCurrent ==
    FullRun => \A n \in Planned :
       /\ book[n] = Summarised(blocks[n])
       /\ book[n].complete => /\ blocks[n].inventory >= ran.opened
                              /\ \A s \in Stages : blocks[n].stages[s].status = "completed"

\* A run returns or dies: the loop never waits for itself.
LoopEnds == at = "next" ~> at \in Quiet
-----------------------------------------------------------------------------
\* What the directory says of a stage of a block it knows of.
Row(i) == IF book[i[1]].shard THEN blocks[i[1]].stages[i[2]] ELSE NewBlock.stages[i[2]]
Ledger == INSTANCE AttemptLedger WITH
    Items <- Planned \X Stages,
    logged <- [i \in Planned \X Stages |-> Row(i).attempts],
    made <- [i \in Planned \X Stages |-> started[i[1]][i[2]]],
    claimed <- {i \in Planned \X Stages : Row(i).status = "completed"}
=============================================================================
