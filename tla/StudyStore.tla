----------------------------- MODULE StudyStore -----------------------------
(***************************************************************************)
(* The run directory of a study (historical_study.py, manifest version 2): *)
(* one shard per block, written first, and the manifest, which summarises  *)
(* the shards and is written after them, each replaced as a whole.  A      *)
(* process keeps the manifest in memory (entries) between its writes.      *)
(*                                                                         *)
(* A block is its acquisition row: where it stands, its attempts, the      *)
(* inventory identity its stages were run under and whether its coverage   *)
(* is complete.  The code identity is the same in all rows of a directory: *)
(* run_study refuses a manifest of other code.  A row's block_hash is that *)
(* of the cached header; collection asks for headers by number, which are  *)
(* filed once, so a completed row's hash is the header's from then on.     *)
(***************************************************************************)
EXTENDS Naturals, Sequences, SequencesExt

CONSTANTS NumBlocks,    \* planned_blocks, numbered in their order
          Qualified,    \* blocks whose hash the inventories mention
          MaxVersion    \* bound: editions of the inventories

ASSUME StudyStoreAssumption ==
    /\ NumBlocks \in Nat \ {0}
    /\ Qualified \subseteq 1 .. NumBlocks
    /\ MaxVersion \in Nat \ {0}

Blocks == 1 .. NumBlocks

VARIABLES shards,      \* shards[n]: blocks/<n>.json, EmptyBlock while there is none
          manifest,    \* manifest.json: its entries, NoManifest before the first run
          entries,     \* manifest['blocks'] of the running process
          headers,     \* cached headers, of the blocks where they matter
          version,     \* edition of the inventory files
          reports      \* reports[n]: edition the stored report was collected from, 0 if none

disk == <<shards, manifest, headers, version, reports>>
storeVars == <<disk, entries>>

Statuses == {"none", "running", "completed", "failed"}
Attempts == [status : Statuses \ {"none"}, log : Nat]
Identities == [edition : 0 .. MaxVersion, mentioned : BOOLEAN]
BlockRows == [status : Statuses, attempts : Seq(Attempts),
              stageIdentity : Identities, complete : BOOLEAN]

\* The identity of a block no stage has run for.
NoIdentity == [edition |-> 0, mentioned |-> FALSE]
EmptyBlock == [status |-> "none", attempts |-> <<>>,
               stageIdentity |-> NoIdentity, complete |-> FALSE]

\* Entries of the manifest: none, a block kept inline, or the summary of a shard.
Absent == [shard |-> FALSE, inline |-> FALSE, complete |-> FALSE, attempts |-> 0]
Inline == [Absent EXCEPT !.inline = TRUE]
Entries == [shard : BOOLEAN, inline : BOOLEAN, complete : BOOLEAN, attempts : Nat]
NoManifest == [n \in Blocks |-> Absent]
-----------------------------------------------------------------------------
\* _effective_inventory_identity(header_hash(n)): the inventories, with what
\* they say about the hash of this block if its header is cached.
EffectiveIdentity(n) ==
    [edition |-> version, mentioned |-> n \in headers]

Summary(block) ==
    [shard |-> TRUE, inline |-> FALSE, complete |-> block.complete,
     attempts |-> Len(block.attempts)]

\* _checkpoint_block: the shard on disk, its summary in memory.
Checkpoint(n, block) ==
    /\ shards' = [shards EXCEPT ![n] = block]
    /\ entries' = [entries EXCEPT ![n] = Summary(block)]

\* stored_block, whose setdefault leaves an inline entry behind.
StoredBlock(n) == IF entries[n].shard THEN shards[n] ELSE EmptyBlock
Materialised(n) == IF entries[n].shard THEN entries[n] ELSE Inline

\* all_stage_coverage_complete of _summarize.
ClaimsCoverage(rows) == \A n \in Blocks : rows[n].complete

\* Mutant: whatever the inventories say now.
ReadyAnyInventory(n, block) == block.status = "completed" /\ reports[n] # 0

\* A row that acquisition may pass over, its report still there.
Ready(n, block) ==
    /\ block.stageIdentity = EffectiveIdentity(n)
    /\ block.status = "completed"
    /\ reports[n] # 0
-----------------------------------------------------------------------------
Running == [status |-> "running", log |-> 0]

\* begin: the attempt is on record before it makes a request.
Begun(block) ==
    [block EXCEPT !.status = "running", !.attempts = Append(@, Running)]

\* record's attempts: without the one begin appended.
Ended(attempts) ==
    IF attempts # <<>> /\ Last(attempts).status = "running"
    THEN Front(attempts) ELSE attempts

\* Mutant: the identity is computed when the report is there.
RecordedAfterwards(n, block, before, succeeded) ==
    LET attempts == Ended(block.attempts)
        status   == IF succeeded THEN "completed" ELSE "failed"
    IN  [status        |-> status,
         attempts      |-> Append(attempts, [status |-> status,
                                             log |-> Len(attempts) + 1]),
         stageIdentity |-> IF succeeded THEN EffectiveIdentity(n) ELSE block.stageIdentity,
         complete      |-> succeeded]

\* record: the outcome takes the place of the running attempt, under a log of
\* its own; before is the inventory identity when the block was taken up.
Recorded(n, block, before, succeeded) ==
    LET attempts == Ended(block.attempts)
        status   == IF succeeded THEN "completed" ELSE "failed"
        stage    == IF succeeded THEN before ELSE block.stageIdentity
    IN  [status        |-> status,
         attempts      |-> Append(attempts, [status |-> status,
                                             log |-> Len(attempts) + 1]),
         stageIdentity |-> stage,
         complete      |-> succeeded /\ stage = EffectiveIdentity(n)]

StoreTypeOK ==
    /\ shards \in [Blocks -> BlockRows]
    /\ manifest \in [Blocks -> Entries]
    /\ entries \in [Blocks -> Entries]
    /\ headers \subseteq Qualified
    /\ version \in 1 .. MaxVersion
    /\ reports \in [Blocks -> 0 .. MaxVersion]

StoreInit ==
    /\ shards = [n \in Blocks |-> EmptyBlock]
    /\ manifest = NoManifest
    /\ entries = NoManifest
    /\ headers \in SUBSET Qualified
    /\ version = 1
    /\ reports = [n \in Blocks |-> 0]

\* Discovery, or a person, changes the inventories.
InventoryChanges ==
    /\ version < MaxVersion
    /\ version' = version + 1
    /\ UNCHANGED <<shards, manifest, entries, headers, reports>>
=============================================================================
