-------------------------------- MODULE Study --------------------------------
(***************************************************************************)
(* The directory of a study.  Its config_identity says whether states are  *)
(* collected, by a pool (StudyCollector), or blocks are worked off one by  *)
(* one, with stages and quotes (StudyRunner); a directory of one kind is   *)
(* refused by runs of the other.                                           *)
(***************************************************************************)
EXTENDS StudyCollector

CONSTANTS NumStages, NumJobs,
          SerialBlocks, SerialLimits, SerialVersions, SerialMishaps

VARIABLES blocks, book, quotes, edition, at, known, block, here, run, ran, started,
          troubles, kind

Serial == INSTANCE StudyRunner WITH
    NumBlocks <- SerialBlocks, Limits <- SerialLimits,
    MaxVersion <- SerialVersions, MaxMishaps <- SerialMishaps

ASSUME SerialAssumption == Serial!StudyRunnerAssumption

serialVars == <<blocks, book, quotes, edition, at, known, block, here, run, ran, started,
                troubles>>

StudyInit == Init /\ Serial!Init /\ kind \in {"state_only", "full"}

StudyNext ==
    \/ kind = "state_only" /\ Next /\ UNCHANGED <<serialVars, kind>>
    \/ kind = "full" /\ Serial!Next /\ UNCHANGED <<vars, kind>>

StudySpec ==
    /\ StudyInit /\ [][StudyNext]_<<vars, serialVars, kind>>
    /\ Fairness /\ Serial!Fairness

\* Work that costs requests is on record before it is made and is never
\* forgotten, whichever way the directory is filled (begin and record of the
\* parallel collection, the stage loop and _checkpoint_block of the serial one).
ImplementsLedger == Ledger!Spec /\ Serial!Ledger!Spec

\* A full run of the serial loop has settled every quote, and those it calls
\* completed are on disk as they were filed (run_study, _complete).
QuotesBacked == Serial!QuotesBacked

\* A full run, of either kind, that claims complete coverage has seen every
\* block under inventories no older than those it began with (_summarize).
FullRunsClaimCurrent == FullRunClaimsCurrent /\ Serial!CoverageCurrent

\* Runs of either kind end.
RunsEnd == RunEnds /\ Serial!LoopEnds
=============================================================================
