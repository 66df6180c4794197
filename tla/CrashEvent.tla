------------------------------ MODULE CrashEvent ------------------------------
(***************************************************************************)
(* One event of five_crash_liquidity.py.  run_dense_event has a pool of    *)
(* workers process the blocks of the window, files what comes back in      *)
(* checkpoint.json, and publishes all rows in sources.json; it may be asked *)
(* for some of the blocks only, fail, or be killed, and is started again.  *)
(* The representative check processes one block, and prepares the event's  *)
(* inventories anew; nothing else runs meanwhile.                          *)
(*                                                                         *)
(* A block's row is told by the inventories it was made of, edition by     *)
(* file; so are its two artifacts (direct quotes and aggregates), and so   *)
(* is the fingerprint.                                                     *)
(***************************************************************************)
EXTENDS Naturals, FiniteSets

CONSTANTS NumBlocks,      \* of the window
          NumFiles,       \* inventories, numbered in their order
          PoolSize,       \* workers
          MaxEdition,     \* bound: editions of data/discovery
          MaxRuns, MaxFaults,    \* bounds: runs of the script; failures and crashes
          PrepareDies     \* may a run die while it prepares the inventories

CrashEventAssumption ==
    /\ {NumBlocks, NumFiles, PoolSize, MaxEdition} \subseteq Nat \ {0}
    /\ {MaxRuns, MaxFaults} \subseteq Nat /\ PrepareDies \in BOOLEAN

Blocks == 1 .. NumBlocks
Inventories == [1 .. NumFiles -> 0 .. MaxEdition]   \* 0: no such file
NoInventory == [f \in 1 .. NumFiles |-> 0]

VARIABLES discovery,    \* edition of data/discovery/1
          inventory,    \* inventories/<event>
          raw,          \* raw/<hash>.json.gz, by block
          aggregates,   \* aggregate-raw/<hash>.json.gz
          checkpoint,   \* the fingerprint of each block's record
          sources,      \* the rows of sources.json
          index,        \* the event's status in index.json
          run,          \* the run
          work,         \* its workers, by block
          runs, faults

eventVars == <<discovery, inventory, raw, aggregates, checkpoint, sources, index, run, work,
               runs, faults>>

Quiet == {"idle", "returned", "raised"}
Runs == [at : Quiet \cup {"prepare", "resume", "pool", "drain", "check", "publish",
                       "index"},
         wanted : SUBSET Blocks,             \* wanted_blocks
         file : 1 .. NumFiles + 1,           \* next inventory to write
         fingerprint : Inventories,
         completed : [Blocks -> Inventories],   \* completed_blocks
         pending : SUBSET Blocks]
NoRun == [at |-> "idle", wanted |-> {}, file |-> 1, fingerprint |-> NoInventory,
          completed |-> [b \in Blocks |-> NoInventory], pending |-> {}]
Works == [at : {"none", "direct", "routed", "done", "failed"}, made : Inventories]
NoWork == [b \in Blocks |-> [at |-> "none", made |-> NoInventory]]

TypeOK ==
    /\ discovery \in 1 .. MaxEdition
    /\ inventory \in Inventories
    /\ {raw, aggregates, checkpoint, sources} \subseteq [Blocks -> Inventories]
    /\ index \in {"pending", "partial", "completed"}
    /\ run \in Runs /\ work \in [Blocks -> Works]
    /\ runs \in 0 .. MaxRuns /\ faults \in 0 .. MaxFaults

Init ==
    /\ discovery = 1 /\ inventory = NoInventory
    /\ raw = [b \in Blocks |-> NoInventory] /\ aggregates = raw
    /\ checkpoint = raw /\ sources = raw
    /\ index = "pending" /\ run = NoRun /\ work = NoWork
    /\ runs = 0 /\ faults = 0
-----------------------------------------------------------------------------
Products == <<raw, aggregates, checkpoint, sources, index>>
Fault == faults < MaxFaults /\ faults' = faults + 1
Rows(f) == {b \in Blocks : f[b] # NoInventory}

\* Mutant: whatever code and inventories it was made with.
RecordTrusted(b) == raw[b] # NoInventory /\ raw[b] = checkpoint[b] /\ aggregates[b] = checkpoint[b]

\* _checkpoint_record_is_valid: made under this fingerprint, and the artifacts
\* are those of then.
RecordIsValid(b) ==
    checkpoint[b] = run.fingerprint /\ raw[b] = checkpoint[b] /\ aggregates[b] = checkpoint[b]

Prepared == inventory # NoInventory

\* main and run_dense_event, for the window or for --blocks.
StartDense(wanted) ==
    /\ run.at \in Quiet /\ runs < MaxRuns /\ runs' = runs + 1
    /\ run' = [NoRun EXCEPT !.at = IF Prepared THEN "resume" ELSE "prepare", !.wanted = wanted,
                            !.fingerprint = IF Prepared THEN inventory ELSE NoInventory]
    /\ UNCHANGED <<discovery, inventory, Products, work, faults>>

\* run_representative_check, as far as this event goes.
StartCheck ==
    /\ run.at \in Quiet /\ runs < MaxRuns /\ runs' = runs + 1
    /\ run' = [NoRun EXCEPT !.at = "prepare"]
    /\ UNCHANGED <<discovery, inventory, Products, work, faults>>

\* prepare_event_inventory: one file after the other.
PrepareFile ==
    /\ run.at = "prepare" /\ run.file <= NumFiles
    /\ inventory' = [inventory EXCEPT ![run.file] = discovery]
    /\ run' = [run EXCEPT !.file = @ + 1]
    /\ UNCHANGED <<discovery, Products, work, runs, faults>>

\* The fingerprint, or the one block of a check.
PreparedNow ==
    /\ run.at = "prepare" /\ run.file > NumFiles
    /\ \/ /\ run.wanted # {}
          /\ run' = [run EXCEPT !.at = "resume", !.fingerprint = inventory]
          /\ UNCHANGED work
       \/ /\ run.wanted = {}
          /\ run' = [run EXCEPT !.at = "check"]
          /\ work' = [NoWork EXCEPT ![1] = [at |-> "direct", made |-> inventory]]
    /\ UNCHANGED <<discovery, inventory, Products, runs, faults>>

\* The records of the wanted blocks that are valid are kept.
Resume ==
    /\ run.at = "resume"
    /\ LET valid == {b \in run.wanted : RecordIsValid(b)} IN
       run' = [run EXCEPT !.at = IF valid = run.wanted THEN "publish" ELSE "pool",
                  !.completed = [b \in Blocks |-> IF b \in valid THEN checkpoint[b] ELSE NoInventory],
                  !.pending = run.wanted \ valid]
    /\ UNCHANGED <<discovery, inventory, Products, work, runs, faults>>
-----------------------------------------------------------------------------
Busy == {b \in Blocks : work[b].at \in {"direct", "routed"}}

\* A worker takes a block: references, collect_block over the inventories,
\* supplements, the context.
Take(b) ==
    /\ run.at \in {"pool", "drain"} /\ b \in run.pending /\ work[b].at = "none"
    /\ Cardinality(Busy) < PoolSize
    /\ \A c \in run.pending : c < b => work[c].at # "none"
    /\ work' = [work EXCEPT ![b] = [at |-> "direct", made |-> inventory]]
    /\ UNCHANGED <<discovery, inventory, Products, run, runs, faults>>

Direct(b) ==
    /\ work[b].at = "direct"
    /\ raw' = [raw EXCEPT ![b] = work[b].made]
    /\ work' = [work EXCEPT ![b].at = "routed"]
    /\ UNCHANGED <<discovery, inventory, aggregates, checkpoint, sources, index, run, runs, faults>>

Routed(b) ==
    /\ work[b].at = "routed"
    /\ aggregates' = [aggregates EXCEPT ![b] = work[b].made]
    /\ work' = [work EXCEPT ![b].at = "done"]
    /\ UNCHANGED <<discovery, inventory, raw, checkpoint, sources, index, run, runs, faults>>

Filed(b) == [run EXCEPT !.completed[b] = run.fingerprint, !.pending = @ \ {b},
                        !.at = IF run.pending = {b} THEN "publish" ELSE "pool"]

\* Mutant: the checkpoint is that of the blocks this run has processed.
FileNew(b) ==
    /\ run.at = "pool" /\ b \in run.pending /\ work[b].at = "done"
    /\ run' = Filed(b)
    /\ checkpoint' = [c \in Blocks |-> IF work[c].at = "done" THEN Filed(b).completed[c] ELSE NoInventory]
    /\ UNCHANGED <<discovery, inventory, raw, aggregates, sources, index, work, runs, faults>>

\* as_completed: the row, under the run's fingerprint, and a checkpoint of the
\* rows there are so far.
FileRow(b) ==
    /\ run.at = "pool" /\ b \in run.pending /\ work[b].at = "done"
    /\ run' = Filed(b)
    /\ checkpoint' = Filed(b).completed
    /\ UNCHANGED <<discovery, inventory, raw, aggregates, sources, index, work, runs, faults>>

\* Quotes that fail a check, a pool that is unsupported, an RPC error.
WorkFails(b) ==
    /\ work[b].at \in {"direct", "routed"} /\ Fault
    /\ work' = [work EXCEPT ![b].at = "failed"]
    /\ UNCHANGED <<discovery, inventory, Products, run, runs>>

\* Mutant: it is logged, and the loop goes on.
FailSkipped(b) ==
    /\ run.at = "pool" /\ work[b].at = "failed"
    /\ UNCHANGED eventVars

\* Its result raises; the pool works off what was submitted all the same, and
\* nothing more is filed.
FailSeen(b) ==
    /\ run.at = "pool" /\ work[b].at = "failed"
    /\ run' = [run EXCEPT !.at = "drain"]
    /\ UNCHANGED <<discovery, inventory, Products, work, runs, faults>>

\* Also when the one block of a check fails.
Raise ==
    /\ \/ run.at = "drain" /\ \A b \in run.pending : work[b].at \in {"done", "failed"}
       \/ run.at = "check" /\ work[1].at = "failed"
    /\ run' = [NoRun EXCEPT !.at = "raised"] /\ work' = NoWork
    /\ UNCHANGED <<discovery, inventory, Products, runs, faults>>

\* sources.json, oracle-references.json, sources.csv.
Publish ==
    /\ run.at = "publish"
    /\ sources' = run.completed
    /\ run' = [run EXCEPT !.at = "index"]
    /\ UNCHANGED <<discovery, inventory, raw, aggregates, checkpoint, index, work, runs, faults>>

\* write_index_json goes by the rows of sources.json.
Indexed == IF Rows(sources) = Blocks THEN "completed"
           ELSE IF Rows(sources) = {} THEN index ELSE "partial"

Index ==
    /\ run.at = "index" \/ (run.at = "check" /\ work[1].at = "done")
    /\ index' = Indexed
    /\ run' = [NoRun EXCEPT !.at = "returned"] /\ work' = NoWork
    /\ UNCHANGED <<discovery, inventory, raw, aggregates, checkpoint, sources, runs, faults>>

Crash ==
    /\ run.at \notin Quiet /\ (run.at = "prepare" => PrepareDies) /\ Fault
    /\ run' = NoRun /\ work' = NoWork
    /\ UNCHANGED <<discovery, inventory, Products, runs>>

DiscoveryChanges ==
    /\ run.at # "prepare"
    /\ discovery' \in 1 .. MaxEdition \ {discovery}
    /\ UNCHANGED <<inventory, Products, run, work, runs, faults>>

EventStep ==
    \/ PrepareFile \/ PreparedNow \/ Resume \/ Raise \/ Publish \/ Index
    \/ \E b \in Blocks : Take(b) \/ Direct(b) \/ Routed(b) \/ FileRow(b) \/ FailSeen(b)

Next ==
    \/ EventStep \/ StartCheck \/ Crash \/ DiscoveryChanges
    \/ \E wanted \in SUBSET Blocks \ {{}} : StartDense(wanted)
    \/ \E b \in Blocks : WorkFails(b)

Fairness == WF_eventVars(EventStep)
Spec == Init /\ [][Next]_eventVars /\ Fairness
-----------------------------------------------------------------------------
\* What a run publishes was all made of the inventories there are, and the raw
\* artifacts its rows point to are the ones they were made with, whatever was
\* resumed, failed, was checked or was prepared anew in between
\* (_checkpoint_record_is_valid, _code_fingerprint).
PublishedCoherent ==
    run.at = "index" =>
       \A b \in Rows(sources) : {sources[b], raw[b], aggregates[b]} = {inventory}

\* What a run has resumed or filed is in the checkpoint with the artifacts it needs,
\* and no step of the run takes it out: where it fails or dies the next one goes
\* on from there ("resumable per-block checkpoints", five_crash_liquidity.py:21).
RecordsKept ==
    [][run.at \in {"pool", "drain", "publish", "index"} =>
          \A b \in run.wanted \ run.pending :
              RecordIsValid(b) /\ checkpoint'[b] = checkpoint[b]]_eventVars

\* The inventories an event is priced from are all there ("Full October
\* routing universe", five_crash_liquidity.py:13).
InventoriesWhole ==
    \A b \in Rows(sources), f \in 1 .. NumFiles : sources[b][f] # 0
=============================================================================
