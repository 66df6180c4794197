-------------------------------- MODULE MCReads --------------------------------
(***************************************************************************)
(* Reading from a node: the waves of reads of acquire (Acquire), the       *)
(* batches each wave is made of (Multicall), which one step of an          *)
(* extension stands for, and ranges of logs (RpcLogs).  A behaviour is one *)
(* of the three: four pools of one to three waves; five reads in batches   *)
(* of four, of which two revert, with and without repeats; the logs of     *)
(* three blocks in chunks of two.                                          *)
(***************************************************************************)
EXTENDS Acquire, RpcLogs, TLC

CONSTANTS Subcalls, Reverting, Requests, ChunkSize,
          univ3, litepsm, broken, inactive,
          slot0, bitmap, ticks, pocket, balance, gone, more, code, s1, s2, s3, s4, s5

VARIABLES cache, at, request, results, missing, offset, size, chunk, reading

Batches == INSTANCE Multicall WITH Specs <- Subcalls, pc <- at

batchVars == <<cache, at, request, results, missing, offset, size, chunk>>

ASSUME BatchesAssumption == Batches!MulticallAssumption

ReadsInit ==
    /\ Init /\ Batches!Init /\ LogsInit
    /\ reading \in {"waves", "batches", "logs"}

ReadsNext ==
    \/ reading = "waves" /\ Next /\ UNCHANGED <<batchVars, logsVars, reading>>
    \/ reading = "batches" /\ Batches!Next /\ UNCHANGED <<vars, logsVars, reading>>
    \/ reading = "logs" /\ LogsNext /\ UNCHANGED <<vars, batchVars, reading>>

ReadsSpec ==
    /\ ReadsInit /\ [][ReadsNext]_<<vars, batchVars, logsVars, reading>>
    /\ \A p \in Processes : WF_vars(AcquireStep(p))
    /\ WF_batchVars(Batches!CallStep)
    /\ LogsFairness

\* What a batched call returns is what direct calls would have, and no failure
\* inside a batch is believed that was not seen alone (call, _call_chunk).
ReturnedAsDirect == Batches!ReturnedAsDirect /\ Batches!FailuresConfirmedAlone

\* What acquire returns has every read of every pool it does not report, and is
\* what the store has published (acquire, SnapshotStore.extend).
AcquiredIsWhole == AcquiredIsComplete /\ AcquiredIsStored

\* Acquisitions and batched calls end, however often batches fail.
ReadsEnd == AcquireEnds /\ Batches!CallEnds

\* multicall.py:72 asserts that every requested place has a result, also when a
\* request repeats a read.
EveryPlaceFilled == Batches!EveryPlaceFilled
-----------------------------------------------------------------------------
\* A Uniswap V3 pool (three waves), a LitePSM (two), a pool whose first read fails, an
\* inactive pool; as many phases as the deepest adapter needs.
MCWave == univ3 :> <<{slot0}, {bitmap}, {ticks}>>
            @@ litepsm :> <<{pocket}, {balance}>>
            @@ broken :> <<{gone}, {more}>>
            @@ inactive :> <<{code}>>

MCWaveTwo == univ3 :> <<{slot0}, {bitmap}, {ticks}>>
               @@ litepsm :> <<{pocket}, {balance}>>

MCHints == {{}, {bitmap, pocket}}

MCRanges == {[first |-> 1, last |-> 3, chunk |-> 2]}
MCRangesTwo == {[first |-> 1, last |-> 2, chunk |-> 2]}

MCRequests == {<<s1, s2, s3, s4, s5>>, <<s3, s1, s3, s2>>, <<s4, s1>>}
=============================================================================
