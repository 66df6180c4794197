--------------------------- MODULE StudyCollector ---------------------------
(***************************************************************************)
(* _parallel_state_collection (historical_study.py): one thread plans      *)
(* blocks, keeps the manifest and the shards, and hands blocks to a pool;  *)
(* each worker runs collect_block for one of them.  The first block is     *)
(* collected alone, by the planning thread itself.                         *)
(*                                                                         *)
(* The reports handed to workers as read plans (seed) carry no values and  *)
(* are left out.                                                           *)
(*                                                                         *)
(* A run may be stopped by its own limit or by a full disk, be interrupted *)
(* (its pool then finishes, unrecorded), or die; another run of the same   *)
(* directory goes on from what is on disk, while inventories change.       *)
(***************************************************************************)
EXTENDS StudyStore, FiniteSets

CONSTANTS Workers,     \* the workers of a run
          Limits,      \* values of max_blocks_this_run, NumBlocks standing for None
          MaxRuns,     \* bound: runs of the directory
          MaxMishaps   \* bound: failures, interrupts, crashes, full disks, removed reports

ASSUME StudyCollectorAssumption ==
    /\ Workers \in Nat \ {0}
    /\ Limits \subseteq Nat \ {0}
    /\ MaxRuns \in Nat
    /\ MaxMishaps \in Nat

VARIABLES pc,          \* where the planning thread is
          next,        \* the iterator over planned_blocks
          limit, processed,
          stopped,     \* scheduling_stopped
          pooled,      \* the bootstrap block is done, the pool open
          raising,     \* the block being recorded ends the run
          taken,       \* the block taken up or being recorded, and its before
          tasks,       \* active: tasks[n], NoTask unless handed out
          done,        \* futures of the last wait that are not yet recorded
          runs,
          begun,       \* history: collections started per block
          opened,      \* history: edition of the inventories at Start
          mishaps      \* history: what has gone wrong so far

locals == <<next, limit, processed, stopped, pooled, raising, taken, tasks, done>>
history == <<runs, begun, opened, mishaps>>
vars == <<storeVars, pc, locals, history>>

NoTask == [state |-> "none", before |-> NoIdentity]
TaskStates == {"none", "collecting", "ok", "error"}
Nothing == [number |-> 0, before |-> NoIdentity]

AtRest == {"off", "returned"}
Active == {n \in Blocks : tasks[n].state # "none"}
Finished == {n \in Blocks : tasks[n].state \in {"ok", "error"}}
Slots == IF pooled THEN Workers ELSE 1

TypeOK ==
    /\ StoreTypeOK
    /\ pc \in AtRest \cup {"plan", "begin", "submit", "wait", "record", "recorded",
                           "close", "unwind"}
    /\ next \in 1 .. NumBlocks + 1
    /\ limit \in Limits \cup {0} /\ processed \in 0 .. limit
    /\ stopped \in BOOLEAN /\ pooled \in BOOLEAN /\ raising \in BOOLEAN
    /\ taken \in [number : 0 .. NumBlocks, before : Identities]
    /\ tasks \in [Blocks -> [state : TaskStates, before : Identities]]
    /\ done \subseteq Blocks
    /\ runs \in 0 .. MaxRuns
    /\ begun \in [Blocks -> Nat]
    /\ opened \in 0 .. MaxVersion
    /\ mishaps \in 0 .. MaxMishaps

Init ==
    /\ StoreInit
    /\ pc = "off"
    /\ next = 1 /\ limit = 0 /\ processed = 0
    /\ stopped = FALSE /\ pooled = FALSE /\ raising = FALSE
    /\ taken = Nothing
    /\ tasks = [n \in Blocks |-> NoTask]
    /\ done = {}
    /\ runs = 0
    /\ begun = [n \in Blocks |-> 0]
    /\ opened = 0 /\ mishaps = 0
-----------------------------------------------------------------------------
Mishap ==
    /\ mishaps < MaxMishaps
    /\ mishaps' = mishaps + 1
    /\ UNCHANGED <<runs, begun, opened>>

\* The collector's locals as it begins.
Reset ==
    /\ next' = 1 /\ processed' = 0
    /\ stopped' = FALSE /\ pooled' = FALSE /\ raising' = FALSE
    /\ taken' = Nothing
    /\ tasks' = [n \in Blocks |-> NoTask]
    /\ done' = {}

\* run_study up to the collector: the manifest is read, or made, and written.
Start ==
    /\ pc \in AtRest /\ runs < MaxRuns
    /\ runs' = runs + 1
    /\ Reset /\ limit' \in Limits
    /\ entries' = manifest
    /\ pc' = "plan"
    /\ opened' = version
    /\ UNCHANGED <<disk, begun, mishaps>>

\* next_pending is asked for a block while the pool has room.
HasRoom == Cardinality(Active) < Slots
\* Mutant: one block more than the limit.
MayScheduleOneMore == ~stopped /\ processed <= limit /\ next <= NumBlocks
MaySchedule == ~stopped /\ processed < limit /\ next <= NumBlocks
Planning == pc = "plan" /\ HasRoom /\ MaySchedule

\* Mutant: wait() is called with nothing in the pool.
NothingToScheduleWaits ==
    /\ pc = "plan" /\ ~(HasRoom /\ MaySchedule)
    /\ pc' = "wait"
    /\ UNCHANGED <<storeVars, locals, history>>

\* No block, or no room: the run waits for its workers, or has none and closes.
NothingToSchedule ==
    /\ pc = "plan" /\ ~(HasRoom /\ MaySchedule)
    /\ pc' = IF Active = {} THEN "close" ELSE "wait"
    /\ UNCHANGED <<storeVars, locals, history>>

\* Mutant: a ready block's summary is left as it is.
SkipReadyUnrefreshed ==
    /\ Planning
    /\ Ready(next, StoredBlock(next))
    /\ next' = next + 1
    /\ UNCHANGED <<storeVars, pc, limit, processed, stopped, pooled, raising, taken, tasks,
                   done, history>>

\* A block that needs nothing: its summary is brought up to date.
SkipReady ==
    /\ Planning
    /\ Ready(next, StoredBlock(next))
    /\ Checkpoint(next, StoredBlock(next))
    /\ next' = next + 1
    /\ UNCHANGED <<manifest, headers, version, reports, pc, limit, processed, stopped,
                   pooled, raising, taken, tasks, done, history>>

\* Free space below min_free_gb: nothing more is scheduled in this run.
DiskFull ==
    /\ Planning
    /\ ~Ready(next, StoredBlock(next))
    /\ stopped' = TRUE
    /\ next' = next + 1
    /\ entries' = [entries EXCEPT ![next] = Materialised(next)]
    /\ manifest' = entries'
    /\ Mishap
    /\ UNCHANGED <<shards, headers, version, reports, pc, limit, processed, pooled,
                   raising, taken, tasks, done>>

TakeBlock ==
    /\ Planning
    /\ ~Ready(next, StoredBlock(next))
    /\ taken' = [number |-> next, before |-> EffectiveIdentity(next)]
    /\ entries' = [entries EXCEPT ![next] = Materialised(next)]
    /\ processed' = processed + 1
    /\ next' = next + 1
    /\ pc' = "begin"
    /\ UNCHANGED <<disk, limit, stopped, pooled, raising, tasks, done, history>>

\* begin: the running attempt is written to the shard, then to the manifest,
\* and only then is the block handed to a worker.
BeginBlock ==
    LET n == taken.number IN
    /\ pc = "begin"
    /\ Checkpoint(n, Begun(StoredBlock(n)))
    /\ pc' = "submit"
    /\ UNCHANGED <<manifest, headers, version, reports, locals, history>>

\* Mutant: the worker is started before the manifest is written.
SubmitFirst ==
    LET n == taken.number IN
    /\ pc = "submit"
    /\ tasks' = [tasks EXCEPT ![n] = [state |-> "collecting", before |-> taken.before]]
    /\ begun' = [begun EXCEPT ![n] = @ + 1]
    /\ pc' = IF pooled THEN "plan" ELSE "wait"
    /\ taken' = Nothing
    /\ UNCHANGED <<disk, entries, next, limit, processed, stopped, pooled, raising, done,
                   runs, opened, mishaps>>

Submit ==
    LET n == taken.number IN
    /\ pc = "submit"
    /\ manifest' = entries
    /\ tasks' = [tasks EXCEPT ![n] = [state |-> "collecting", before |-> taken.before]]
    /\ begun' = [begun EXCEPT ![n] = @ + 1]
    /\ pc' = IF pooled THEN "plan" ELSE "wait"
    /\ taken' = Nothing
    /\ UNCHANGED <<shards, entries, headers, version, reports, next, limit, processed,
                   stopped, pooled, raising, done, runs, opened, mishaps>>

\* wait(active, FIRST_COMPLETED) returns all that have finished by then.
Wait ==
    /\ pc = "wait" /\ Finished # {}
    /\ done' = Finished
    /\ pc' = "record"
    /\ UNCHANGED <<storeVars, next, limit, processed, stopped, pooled, raising, taken,
                   tasks, history>>

\* record, up to the shard.
Record(n) ==
    /\ pc = "record" /\ n \in done
    /\ Checkpoint(n, Recorded(n, shards[n], tasks[n].before, tasks[n].state = "ok"))
    /\ taken' = [number |-> n, before |-> tasks[n].before]
    /\ pc' = "recorded"
    /\ UNCHANGED <<manifest, headers, version, reports, next, limit, processed, stopped,
                   pooled, raising, tasks, done, history>>

\* A write of record fails, or it is interrupted, after the row was made: the
\* except clause records a failure after the success, and an interrupt goes on.
\* (Before the row was made, it is as if the collection had failed.)
RecordAgain ==
    LET n == taken.number IN
    /\ pc = "recorded" /\ shards[n].status = "completed"
    /\ Checkpoint(n, Recorded(n, shards[n], taken.before, FALSE))
    /\ raising' \in BOOLEAN
    /\ Mishap
    /\ UNCHANGED <<manifest, headers, version, reports, pc, next, limit, processed,
                   stopped, pooled, taken, tasks, done>>

\* record's manifest; after the last future of the wait, blocks are planned again.
Settle ==
    /\ pc = "recorded"
    /\ manifest' = entries
    /\ tasks' = [tasks EXCEPT ![taken.number] = NoTask]
    /\ done' = done \ {taken.number}
    /\ pooled' = TRUE
    /\ taken' = Nothing
    /\ pc' = IF raising THEN "unwind" ELSE IF done' = {} THEN "plan" ELSE "record"
    /\ UNCHANGED <<shards, entries, headers, version, reports, next, limit, processed,
                   stopped, raising, history>>

Close ==
    /\ pc = "close"
    /\ manifest' = entries
    /\ pc' = "returned"
    /\ UNCHANGED <<shards, entries, headers, version, reports, locals, history>>
-----------------------------------------------------------------------------
\* collect_block: the header is cached, the inventories are read, the report
\* replaces that of an earlier attempt.
Collect(n) ==
    /\ tasks[n].state = "collecting"
    /\ headers' = headers \cup ({n} \cap Qualified)
    /\ reports' = [reports EXCEPT ![n] = version]
    /\ tasks' = [tasks EXCEPT ![n].state = "ok"]
    /\ UNCHANGED <<shards, manifest, entries, version, pc, next, limit, processed, stopped,
                   pooled, raising, taken, done, history>>

\* It raises before it has a header, or after.
CollectFails(n) ==
    /\ tasks[n].state = "collecting"
    /\ headers' \in {headers, headers \cup ({n} \cap Qualified)}
    /\ tasks' = [tasks EXCEPT ![n].state = "error"]
    /\ Mishap
    /\ UNCHANGED <<shards, manifest, entries, version, reports, pc, next, limit, processed,
                   stopped, pooled, raising, taken, done>>
-----------------------------------------------------------------------------
\* The bootstrap block is interrupted: recorded as failed, then raised.
InterruptBootstrap(n) ==
    /\ pc = "wait" /\ ~pooled /\ tasks[n].state = "collecting"
    /\ tasks' = [tasks EXCEPT ![n].state = "error"]
    /\ raising' = TRUE
    /\ Mishap
    /\ UNCHANGED <<storeVars, pc, next, limit, processed, stopped, pooled, taken, done>>

\* An interrupt, or a write that fails where nothing catches it.
Abort ==
    /\ \/ pc \in {"plan", "begin", "submit", "record", "close"}
       \/ pc = "wait" /\ pooled
       \/ pc = "recorded" /\ shards[taken.number].status = "failed"
    /\ pc' = "unwind"
    /\ Mishap
    /\ UNCHANGED <<storeVars, locals>>

\* The process is gone: its memory too.
Gone ==
    /\ pc' = "off"
    /\ Reset /\ limit' = 0
    /\ entries' = NoManifest
    /\ UNCHANGED disk

\* The pool's __exit__ waits for its workers; what they return is dropped.
Unwind ==
    /\ pc = "unwind" /\ \A n \in Blocks : tasks[n].state # "collecting"
    /\ Gone
    /\ UNCHANGED history

Crash == pc \notin AtRest /\ Gone /\ Mishap

\* Between runs somebody removes a report.
ReportRemoved(n) ==
    /\ pc \in AtRest /\ reports[n] # 0
    /\ reports' = [reports EXCEPT ![n] = 0]
    /\ Mishap
    /\ UNCHANGED <<shards, manifest, entries, headers, version, pc, locals>>

PlannerStep ==
    \/ NothingToSchedule \/ SkipReady \/ DiskFull \/ TakeBlock \/ BeginBlock \/ Submit
    \/ Wait \/ (\E n \in Blocks : Record(n)) \/ RecordAgain \/ Settle \/ Close \/ Unwind

WorkerStep(n) == Collect(n) \/ CollectFails(n)

Next ==
    \/ Start \/ PlannerStep \/ Abort \/ Crash
    \/ \E n \in Blocks : WorkerStep(n) \/ InterruptBootstrap(n) \/ ReportRemoved(n)
    \/ InventoryChanges /\ UNCHANGED <<pc, locals, history>>

\* The planning thread and the workers run on; a request times out.
Fairness == WF_vars(PlannerStep) /\ \A n \in Blocks : WF_vars(WorkerStep(n))

Spec == Init /\ [][Next]_vars
FairSpec == Spec /\ Fairness
-----------------------------------------------------------------------------
Full == pc = "returned" /\ ~stopped /\ next > NumBlocks

\* Attempts that reached the network are never lost: each collection that was
\* started is counted in the manifest on disk, whatever was interrupted or
\* died, and no two attempts of a block share a log (begin, record, the order
\* of shard, manifest and submit).
AttemptsKept ==
    \A n \in Blocks :
       /\ begun[n] <= manifest[n].attempts
       /\ manifest[n].attempts <= Len(shards[n].attempts)
       /\ \A i, j \in DOMAIN shards[n].attempts :
             /\ i # j
             /\ shards[n].attempts[i].status # "running"
             => shards[n].attempts[i].log # shards[n].attempts[j].log

\* Coverage names its inventory: where a row is completed and its coverage
\* complete, the report was collected from the edition of the inventories the
\* row names, although the worker and the planning thread read them at
\* different times.
CompleteFromNamedInventory ==
    \A n \in Blocks :
       shards[n].status = "completed" /\ shards[n].complete /\ reports[n] # 0
       => reports[n] = shards[n].stageIdentity.edition

\* A run that went through all planned blocks leaves none of them running or
\* untouched, and a manifest that agrees with every shard, whatever earlier
\* runs left on disk (no future of the pool is forgotten).
FullRunSettles ==
    Full => \A n \in Blocks :
               /\ shards[n].status \in {"completed", "failed"}
               /\ manifest[n] = Summary(shards[n])

\* When such a run claims complete coverage, every block was collected from
\* inventories no older than those the run found when it began.
FullRunClaimsCurrent ==
    Full /\ ClaimsCoverage(manifest) =>
       \A n \in Blocks : /\ shards[n].status = "completed"
                         /\ shards[n].stageIdentity.edition >= opened

\* The same of every run that returns, limited and stopped ones included.
ClaimIsCurrent ==
    pc = "returned" /\ ClaimsCoverage(manifest) =>
       \A n \in Blocks : /\ shards[n].status = "completed"
                         /\ shards[n].stageIdentity.edition >= opened

\* A run ends: the pool is never waited for with no worker in it.
RunEnds == pc = "plan" ~> pc \in AtRest
-----------------------------------------------------------------------------
\* The attempts of a block are on record in the manifest's summary of it.
Logged == [n \in Blocks |-> manifest[n].attempts]
Completed == {n \in Blocks : shards[n].status = "completed"}
Ledger == INSTANCE AttemptLedger WITH
    Items <- Blocks, logged <- Logged, made <- begun, claimed <- Completed
=============================================================================
