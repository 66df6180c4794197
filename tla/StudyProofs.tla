----------------------------- MODULE StudyProofs -----------------------------
(***************************************************************************)
(* The directory of a study, filled in either way.                         *)
(*                                                                         *)
(* The parallel collector, for any number of blocks, workers, runs, crashes *)
(* and changes of the inventories: what a started collection leaves on disk *)
(* is never lost, a complete row names the inventories its report was       *)
(* collected from, and a run that has passed all blocks has settled them.   *)
(* The proof is in four layers, each citing the ones before: types, the     *)
(* attempts, the reports, and what a run has settled.  It implements the    *)
(* ledger of attempts: a step either leaves what the ledger speaks of       *)
(* alone, or writes the manifest, or replaces a shard.                      *)
(*                                                                         *)
(* The serial loop does too, and what it has passed it has settled: stages, *)
(* coverage and quotes.  Its invariant is in three parts, each citing the   *)
(* ones before: SerialTypes, SerialLedgerInv, SerialRunInv.                 *)
(***************************************************************************)
EXTENDS Study, SequenceTheorems, FiniteSetTheorems, TLAPS

Handling == {"begin", "submit", "recorded"}

\* A block being begun, handed out or recorded is a block.
TakenInv == pc \in Handling => taken.number \in Blocks

TypeInv == TypeOK /\ TakenInv

\* Attempt i has log i once it has ended, and log 0 until then.
NumberedRow(attempts) ==
    \A i \in DOMAIN attempts :
        attempts[i].log = IF attempts[i].status = "running" THEN 0 ELSE i

Numbered == \A n \in Blocks : NumberedRow(shards[n].attempts)

Counted ==
    \A n \in Blocks :
        /\ begun[n] <= manifest[n].attempts
        /\ manifest[n].attempts <= Len(shards[n].attempts)

\* The process's manifest is between the one on disk and the shards.
Between ==
    pc # "off" => \A n \in Blocks :
        /\ manifest[n].attempts <= entries[n].attempts
        /\ entries[n].attempts <= Len(shards[n].attempts)

Unsharded ==
    \A n \in Blocks :
        /\ ~ entries[n].shard => entries[n].attempts = 0
        /\ ~ manifest[n].shard => manifest[n].attempts = 0

\* The attempt is on record before the block is handed out.
OnRecord == pc = "submit" => begun[taken.number] < entries[taken.number].attempts

AttemptsInv == Numbered /\ Counted /\ Between /\ Unsharded /\ OnRecord

\* The futures to record are over, and outside the recording there are none.
DoneInv ==
    /\ done \subseteq Finished
    /\ pc \in {"plan", "begin", "submit", "wait"} => done = {}

\* While a worker has a block, its row is that of a running attempt.
CollectingRuns ==
    /\ \A n \in Blocks : tasks[n].state = "collecting" => shards[n].status = "running"
    /\ pc = "submit" => shards[taken.number].status = "running"

\* No inventories are newer than the present ones, and a report that is ready
\* to be recorded is no older than the identity it will be recorded under.
Ages ==
    /\ taken.before.edition <= version
    /\ \A n \in Blocks :
          /\ tasks[n].before.edition <= version
          /\ reports[n] <= version
          /\ tasks[n].state = "ok" /\ reports[n] # 0
                => tasks[n].before.edition <= reports[n]

ReportsInv == DoneInv /\ CollectingRuns /\ Ages /\ CompleteFromNamedInventory
-----------------------------------------------------------------------------
LEMMA EndedAttempts ==
    ASSUME NEW attempts \in Seq(Attempts)
    PROVE  /\ Ended(attempts) \in Seq(Attempts)
           /\ Len(Ended(attempts)) \in Nat
           /\ Len(Ended(attempts)) <= Len(attempts)
           /\ Len(attempts) <= Len(Ended(attempts)) + 1
           /\ \A i \in 1 .. Len(Ended(attempts)) : Ended(attempts)[i] = attempts[i]
<1>1. CASE attempts # <<>> /\ Last(attempts).status = "running"
  <2> DEFINE k == Len(attempts) - 1
  <2>1. k \in Nat /\ Len(attempts) = k + 1
    BY <1>1
  <2>2. Ended(attempts) = SubSeq(attempts, 1, k)
    BY <1>1 DEF Ended, Front
  <2>3. \A i \in 1 .. k : attempts[i] \in Attempts
    BY <2>1
  <2> HIDE DEF k
  <2>4. /\ SubSeq(attempts, 1, k) \in Seq(Attempts)
        /\ Len(SubSeq(attempts, 1, k)) = k
        /\ \A i \in 1 .. k : SubSeq(attempts, 1, k)[i] = attempts[i]
    BY <2>1, <2>3
  <2> QED
    BY <2>1, <2>2, <2>4
<1>2. CASE ~ (attempts # <<>> /\ Last(attempts).status = "running")
  <2>1. Ended(attempts) = attempts
    BY <1>2 DEF Ended
  <2> QED
    BY <2>1
<1> QED
  BY <1>1, <1>2

LEMMA BegunRow ==
    ASSUME NEW given \in BlockRows
    PROVE  /\ Begun(given) \in BlockRows
           /\ Begun(given).status = "running"
           /\ Begun(given).attempts = Append(given.attempts, Running)
           /\ Len(Begun(given).attempts) = Len(given.attempts) + 1
<1>1. Running \in Attempts
  BY DEF Running, Attempts, Statuses
<1>2. given.attempts \in Seq(Attempts)
  BY DEF BlockRows
<1>3. Append(given.attempts, Running) \in Seq(Attempts)
  BY <1>1, <1>2
<1>4. Begun(given).attempts = Append(given.attempts, Running)
  BY DEF Begun, BlockRows
<1>5. Begun(given) \in BlockRows /\ Begun(given).status = "running"
  BY <1>3 DEF Begun, BlockRows, Statuses
<1> QED
  BY <1>2, <1>4, <1>5

LEMMA RecordedRow ==
    ASSUME NEW given \in BlockRows, NEW n \in Blocks, NEW before \in Identities,
           NEW succeeded \in BOOLEAN
    PROVE  LET row == Recorded(n, given, before, succeeded) IN
           /\ row \in BlockRows
           /\ Len(given.attempts) <= Len(row.attempts)
           /\ NumberedRow(given.attempts) => NumberedRow(row.attempts)
<1> DEFINE kept == Ended(given.attempts)
           row == Recorded(n, given, before, succeeded)
           ended == [status |-> IF succeeded THEN "completed" ELSE "failed",
                     log |-> Len(kept) + 1]
<1>1. given.attempts \in Seq(Attempts) /\ given.stageIdentity \in Identities
  BY DEF BlockRows
<1>2. /\ kept \in Seq(Attempts) /\ Len(kept) \in Nat
      /\ Len(given.attempts) <= Len(kept) + 1
      /\ Len(kept) <= Len(given.attempts)
      /\ \A i \in 1 .. Len(kept) : kept[i] = given.attempts[i]
  BY <1>1, EndedAttempts
<1>3. ended \in Attempts
  BY <1>2 DEF Attempts, Statuses
<1>4. row.attempts = Append(kept, ended)
  BY DEF Recorded
<1> HIDE DEF kept, ended
<1>5. /\ row.attempts \in Seq(Attempts)
      /\ Len(row.attempts) = Len(kept) + 1
      /\ \A i \in 1 .. Len(kept) : row.attempts[i] = kept[i]
      /\ row.attempts[Len(kept) + 1] = ended
  BY <1>2, <1>3, <1>4, AppendProperties
<1>6. row \in BlockRows
  <2>1. /\ row.status \in Statuses
        /\ row.complete \in BOOLEAN
        /\ row.stageIdentity \in Identities
    BY <1>1 DEF Recorded, Statuses
  <2>2. row = [status |-> row.status, attempts |-> row.attempts,
               stageIdentity |-> row.stageIdentity, complete |-> row.complete]
    BY DEF Recorded
  <2> HIDE DEF row
  <2> QED
    BY <1>5, <2>1, <2>2 DEF BlockRows
<1>7. ASSUME NumberedRow(given.attempts) PROVE NumberedRow(row.attempts)
  <2> SUFFICES ASSUME NEW i \in 1 .. Len(kept) + 1
               PROVE  row.attempts[i].log
                        = IF row.attempts[i].status = "running" THEN 0 ELSE i
    BY <1>5 DEF NumberedRow
  <2>1. CASE i \in 1 .. Len(kept)
    <3>1. i \in DOMAIN given.attempts
      BY <1>1, <1>2, <2>1
    <3>2. row.attempts[i] = given.attempts[i]
      BY <1>2, <1>5, <2>1
    <3> QED
      BY <1>7, <3>1, <3>2 DEF NumberedRow
  <2>2. CASE i = Len(kept) + 1
    BY <1>5, <2>2 DEF ended
  <2> QED
    BY <1>2, <2>1, <2>2
<1> QED
  BY <1>2, <1>5, <1>6, <1>7
-----------------------------------------------------------------------------
LEMMA CheckpointTypes ==
    ASSUME TypeOK, NEW n \in Blocks, NEW given \in BlockRows, Checkpoint(n, given)
    PROVE  /\ shards' \in [Blocks -> BlockRows] /\ entries' \in [Blocks -> Entries]
           /\ shards'[n] = given
           /\ entries'[n].shard /\ entries'[n].attempts = Len(given.attempts)
           /\ \A m \in Blocks \ {n} : shards'[m] = shards[m] /\ entries'[m] = entries[m]
<1>1. given.complete \in BOOLEAN /\ Len(given.attempts) \in Nat
  BY DEF BlockRows
<1>2. Summary(given) \in Entries
  BY <1>1 DEF Summary, Entries
<1>3. shards \in [Blocks -> BlockRows] /\ entries \in [Blocks -> Entries]
  BY DEF TypeOK, StoreTypeOK
<1>4. Summary(given).shard /\ Summary(given).attempts = Len(given.attempts)
  BY DEF Summary
<1> QED
  BY <1>2, <1>3, <1>4 DEF Checkpoint

LEMMA IdentityTyped ==
    ASSUME TypeOK, NEW n \in Blocks
    PROVE  EffectiveIdentity(n) \in Identities /\ EffectiveIdentity(n).edition = version
  BY DEF TypeOK, StoreTypeOK, EffectiveIdentity, Identities

LEMMA EmptyTyped == EmptyBlock \in BlockRows /\ NoIdentity \in Identities
<1>1. NoIdentity \in Identities
  BY StudyStoreAssumption DEF NoIdentity, Identities
<1> QED
  BY <1>1 DEF EmptyBlock, BlockRows, Statuses

LEMMA StoredTyped ==
    ASSUME TypeOK, NEW n \in Blocks
    PROVE  StoredBlock(n) \in BlockRows
  BY EmptyTyped DEF TypeOK, StoreTypeOK, StoredBlock

\* A block that is ready has a shard; the entry made for any other says none.
LEMMA ReadyHasShard ==
    ASSUME TypeOK, NEW n \in Blocks, Ready(n, StoredBlock(n))
    PROVE  entries[n].shard /\ StoredBlock(n) = shards[n]
  BY DEF Ready, StoredBlock, EmptyBlock

LEMMA MaterialisedEntry ==
    ASSUME TypeOK, NEW n \in Blocks
    PROVE  /\ Materialised(n) \in Entries
           /\ entries[n].shard => Materialised(n) = entries[n]
           /\ ~ entries[n].shard => ~ Materialised(n).shard /\ Materialised(n).attempts = 0
<1>1. entries[n] \in Entries
  BY DEF TypeOK, StoreTypeOK
<1>2. Absent \in Entries /\ ~ Absent.shard /\ Absent.attempts = 0
  BY DEF Absent, Entries
<1>3. Inline \in Entries /\ ~ Inline.shard /\ Inline.attempts = 0
  BY <1>2 DEF Inline, Entries
<1> QED
  BY <1>1, <1>3 DEF Materialised

LEMMA NextIsBlock == ASSUME TypeOK, Planning PROVE next \in Blocks
  BY StudyStoreAssumption DEF TypeOK, Planning, MaySchedule, Blocks

LEMMA NoManifestTyped == NoManifest \in [Blocks -> Entries]
  BY DEF NoManifest, Absent, Entries

LEMMA TasksTyped ==
    ASSUME TypeOK, NEW n \in Blocks, NEW state \in TaskStates,
           tasks' = [tasks EXCEPT ![n].state = state]
    PROVE  /\ tasks' \in [Blocks -> [state : TaskStates, before : Identities]]
           /\ tasks'[n].state = state /\ tasks'[n].before = tasks[n].before
           /\ \A m \in Blocks \ {n} : tasks'[m] = tasks[m]
<1>1. tasks \in [Blocks -> [state : TaskStates, before : Identities]]
  BY DEF TypeOK
<1>2. tasks[n] \in [state : TaskStates, before : Identities]
  BY <1>1
<1>3. [tasks[n] EXCEPT !.state = state] \in [state : TaskStates, before : Identities]
  BY <1>2
<1>4. tasks' = [tasks EXCEPT ![n] = [tasks[n] EXCEPT !.state = state]]
  BY <1>1
<1> QED
  BY <1>1, <1>2, <1>3, <1>4
LEMMA NothingTyped ==
    /\ Nothing \in [number : 0 .. NumBlocks, before : Identities]
    /\ NoTask \in [state : TaskStates, before : Identities]
<1>1. 0 \in 0 .. NumBlocks /\ "none" \in TaskStates
  BY StudyStoreAssumption DEF TaskStates
<1> QED
  BY <1>1, EmptyTyped DEF Nothing, NoTask

-----------------------------------------------------------------------------
\* The first layer: every step keeps the types and the block in hand.
LEMMA InitTypes == Init => TypeInv
<1> SUFFICES ASSUME Init PROVE TypeInv
  OBVIOUS
<1>1. StoreTypeOK
  BY EmptyTyped, NoManifestTyped, StudyStoreAssumption DEF Init, StoreInit, StoreTypeOK
<1>2. next \in 1 .. NumBlocks + 1 /\ limit \in Limits \cup {0} /\ processed \in 0 .. limit
  BY StudyStoreAssumption DEF Init
<1>3. runs \in 0 .. MaxRuns /\ mishaps \in 0 .. MaxMishaps /\ opened \in 0 .. MaxVersion
  BY StudyStoreAssumption, StudyCollectorAssumption DEF Init
<1>4. TypeOK
  BY <1>1, <1>2, <1>3, NothingTyped DEF Init, TypeOK, AtRest
<1> QED
  BY <1>4 DEF Init, TypeInv, TakenInv, Handling

LEMMA ResetTypes ==
    ASSUME Reset
    PROVE  /\ next' = 1 /\ processed' = 0
           /\ stopped' = FALSE /\ pooled' = FALSE /\ raising' = FALSE
           /\ taken' \in [number : 0 .. NumBlocks, before : Identities]
           /\ tasks' \in [Blocks -> [state : TaskStates, before : Identities]]
           /\ done' = {}
           /\ taken'.before = NoIdentity
           /\ \A n \in Blocks : tasks'[n] = NoTask
<1>1. Nothing.before = NoIdentity
  BY DEF Nothing
<1> QED
  BY <1>1, NothingTyped DEF Reset

LEMMA StartTypes == ASSUME TypeInv, Start PROVE TypeInv'
<1>1. StoreTypeOK'
  BY DEF TypeInv, TypeOK, StoreTypeOK, Start, disk
<1>2. limit' \in Limits /\ processed' \in 0 .. limit'
  BY ResetTypes, StudyCollectorAssumption DEF Start
<1>3. opened' \in 0 .. MaxVersion /\ runs' \in 0 .. MaxRuns
  BY StudyStoreAssumption, StudyCollectorAssumption
     DEF TypeInv, TypeOK, StoreTypeOK, Start
<1>4. TypeOK'
  BY <1>1, <1>2, <1>3, ResetTypes, StudyStoreAssumption
     DEF TypeInv, TypeOK, Start
<1> QED
  BY <1>4 DEF Start, TypeInv, TakenInv, Handling

LEMMA GoneTypes ==
    ASSUME TypeInv, Gone, UNCHANGED <<runs, begun, opened>>, mishaps' \in 0 .. MaxMishaps
    PROVE  TypeInv'
<1>1. StoreTypeOK'
  BY NoManifestTyped DEF TypeInv, TypeOK, StoreTypeOK, Gone, disk
<1>2. limit' = 0 /\ processed' \in 0 .. limit'
  BY ResetTypes DEF Gone
<1>3. TypeOK'
  BY <1>1, <1>2, ResetTypes, StudyStoreAssumption DEF TypeInv, TypeOK, Gone, AtRest
<1> QED
  BY <1>3 DEF Gone, TypeInv, TakenInv, Handling

LEMMA MishapTypes ==
    ASSUME TypeInv, Mishap
    PROVE  mishaps' \in 0 .. MaxMishaps /\ UNCHANGED <<runs, begun, opened>>
  BY StudyCollectorAssumption DEF TypeInv, TypeOK, Mishap

LEMMA PlanTypes ==
    ASSUME TypeInv, NothingToSchedule \/ SkipReady \/ DiskFull \/ TakeBlock
    PROVE  TypeInv'
<1>1. CASE NothingToSchedule
  <2>1. TypeOK'
    BY <1>1 DEF TypeInv, TypeOK, StoreTypeOK, NothingToSchedule, storeVars, disk, locals, history
  <2> QED
    BY <1>1, <2>1 DEF TypeInv, TakenInv, Handling, NothingToSchedule
<1> SUFFICES ASSUME Planning, SkipReady \/ DiskFull \/ TakeBlock PROVE TypeInv'
  BY <1>1 DEF SkipReady, DiskFull, TakeBlock
<1>2. next \in Blocks /\ next' = next + 1 /\ next' \in 1 .. NumBlocks + 1
  BY NextIsBlock, StudyStoreAssumption
     DEF TypeInv, Blocks, SkipReady, DiskFull, TakeBlock
<1>3. PICK n \in Blocks : n = next
  BY <1>2
<1>4. PICK row \in BlockRows : row = StoredBlock(n)
  BY StoredTyped DEF TypeInv
<1>5. [entries EXCEPT ![n] = Materialised(n)] \in [Blocks -> Entries]
  BY MaterialisedEntry DEF TypeInv, TypeOK, StoreTypeOK
<1>6. CASE SkipReady
  <2>1. Checkpoint(n, row)
    BY <1>3, <1>4, <1>6 DEF SkipReady
  <2>2. StoreTypeOK'
    BY <1>6, <2>1, CheckpointTypes DEF TypeInv, TypeOK, StoreTypeOK, SkipReady
  <2>3. TypeOK'
    BY <1>2, <1>6, <2>2 DEF TypeInv, TypeOK, SkipReady, history
  <2> QED
    BY <1>6, <2>3 DEF TypeInv, TakenInv, SkipReady
<1>7. CASE DiskFull
  <2>1. entries' \in [Blocks -> Entries] /\ manifest' \in [Blocks -> Entries]
    BY <1>3, <1>5, <1>7 DEF DiskFull
  <2>2. StoreTypeOK'
    BY <1>7, <2>1 DEF TypeInv, TypeOK, StoreTypeOK, DiskFull
  <2>3. mishaps' \in 0 .. MaxMishaps /\ UNCHANGED <<runs, begun, opened>>
    BY <1>7, MishapTypes DEF DiskFull
  <2>4. TypeOK'
    BY <1>2, <1>7, <2>2, <2>3 DEF TypeInv, TypeOK, DiskFull
  <2> QED
    BY <1>7, <2>4 DEF TypeInv, TakenInv, DiskFull
<1>8. CASE TakeBlock
  <2>1. entries' \in [Blocks -> Entries]
    BY <1>3, <1>5, <1>8 DEF TakeBlock
  <2>2. StoreTypeOK'
    BY <1>8, <2>1 DEF TypeInv, TypeOK, StoreTypeOK, TakeBlock, disk
  <2>3. /\ taken' \in [number : 0 .. NumBlocks, before : Identities]
        /\ taken'.number \in Blocks
    BY <1>3, <1>8, IdentityTyped, StudyStoreAssumption DEF TypeInv, TakeBlock, Blocks
  <2>4. processed' \in 0 .. limit' /\ limit' = limit
    BY <1>8, StudyCollectorAssumption
       DEF TypeInv, TypeOK, TakeBlock, Planning, MaySchedule
  <2>5. TypeOK'
    BY <1>2, <1>8, <2>2, <2>3, <2>4 DEF TypeInv, TypeOK, TakeBlock, history
  <2> QED
    BY <2>3, <2>5 DEF TypeInv, TakenInv
<1> QED
  BY <1>6, <1>7, <1>8

LEMMA HandTypes ==
    ASSUME TypeInv, BeginBlock \/ Submit \/ RecordAgain \/ Settle
    PROVE  TypeInv'
<1>1. taken.number \in Blocks
  BY DEF TypeInv, TakenInv, Handling, BeginBlock, Submit, RecordAgain, Settle
<1>2. PICK n \in Blocks : n = taken.number
  BY <1>1
<1>3. /\ taken.before \in Identities
      /\ tasks \in [Blocks -> [state : TaskStates, before : Identities]]
  BY DEF TypeInv, TypeOK
<1>4. CASE BeginBlock
  <2>1. PICK row \in BlockRows : row = Begun(StoredBlock(n))
    BY StoredTyped, BegunRow DEF TypeInv
  <2>2. Checkpoint(n, row)
    BY <1>2, <1>4, <2>1 DEF BeginBlock
  <2>3. StoreTypeOK'
    BY <1>4, <2>2, CheckpointTypes DEF TypeInv, TypeOK, StoreTypeOK, BeginBlock
  <2>4. TypeOK'
    BY <1>4, <2>3 DEF TypeInv, TypeOK, BeginBlock, locals, history
  <2> QED
    BY <1>1, <1>4, <2>4 DEF TypeInv, TakenInv, BeginBlock, locals
<1>5. CASE Submit
  <2>1. StoreTypeOK'
    BY <1>5 DEF TypeInv, TypeOK, StoreTypeOK, Submit
  <2>2. [state |-> "collecting", before |-> taken.before]
            \in [state : TaskStates, before : Identities]
    BY <1>3 DEF TaskStates
  <2>3. tasks' \in [Blocks -> [state : TaskStates, before : Identities]]
    BY <1>3, <1>5, <2>2 DEF Submit
  <2>4. begun' \in [Blocks -> Nat]
    <3>1. begun \in [Blocks -> Nat] /\ begun[n] + 1 \in Nat
      BY DEF TypeInv, TypeOK
    <3>2. begun' = [begun EXCEPT ![n] = begun[n] + 1]
      BY <1>2, <1>5 DEF Submit
    <3> QED
      BY <3>1, <3>2
  <2>5. taken' \in [number : 0 .. NumBlocks, before : Identities] /\ pc' \in {"plan", "wait"}
    BY <1>5, NothingTyped DEF Submit
  <2>6. TypeOK'
    BY <1>5, <2>1, <2>3, <2>4, <2>5 DEF TypeInv, TypeOK, Submit
  <2> QED
    BY <2>5, <2>6 DEF TypeInv, TakenInv, Handling
<1>6. CASE RecordAgain
  <2>1. shards[n] \in BlockRows
    BY DEF TypeInv, TypeOK, StoreTypeOK
  <2>2. PICK row \in BlockRows : row = Recorded(n, shards[n], taken.before, FALSE)
    BY <1>3, <2>1, RecordedRow
  <2>3. Checkpoint(n, row)
    BY <1>2, <1>6, <2>2 DEF RecordAgain
  <2>4. StoreTypeOK'
    BY <1>6, <2>3, CheckpointTypes DEF TypeInv, TypeOK, StoreTypeOK, RecordAgain
  <2>5. mishaps' \in 0 .. MaxMishaps /\ UNCHANGED <<runs, begun, opened>>
    BY <1>6, MishapTypes DEF RecordAgain
  <2>6. TypeOK'
    BY <1>6, <2>4, <2>5 DEF TypeInv, TypeOK, RecordAgain
  <2> QED
    BY <1>1, <1>6, <2>6 DEF TypeInv, TakenInv, RecordAgain
<1>7. CASE Settle
  <2>1. StoreTypeOK'
    BY <1>7 DEF TypeInv, TypeOK, StoreTypeOK, Settle
  <2>2. tasks' \in [Blocks -> [state : TaskStates, before : Identities]]
    BY <1>3, <1>7, NothingTyped DEF Settle
  <2>3. /\ taken' \in [number : 0 .. NumBlocks, before : Identities]
        /\ pc' \in {"plan", "record", "unwind"} /\ done' \subseteq Blocks
    BY <1>7, NothingTyped DEF TypeInv, TypeOK, Settle
  <2>4. TypeOK'
    BY <1>7, <2>1, <2>2, <2>3 DEF TypeInv, TypeOK, Settle, history
  <2> QED
    BY <2>3, <2>4 DEF TypeInv, TakenInv, Handling
<1> QED
  BY <1>4, <1>5, <1>6, <1>7

LEMMA RecordTypes ==
    ASSUME TypeInv, NEW n \in Blocks, Record(n) PROVE TypeInv'
<1>1. shards[n] \in BlockRows /\ tasks[n].before \in Identities
  BY DEF TypeInv, TypeOK, StoreTypeOK
<1>2. PICK row \in BlockRows :
          row = Recorded(n, shards[n], tasks[n].before, tasks[n].state = "ok")
  BY <1>1, RecordedRow
<1>3. Checkpoint(n, row)
  BY <1>2 DEF Record
<1>4. StoreTypeOK'
  BY <1>3, CheckpointTypes DEF TypeInv, TypeOK, StoreTypeOK, Record
<1>5. taken' \in [number : 0 .. NumBlocks, before : Identities] /\ taken'.number = n
  BY <1>1, StudyStoreAssumption DEF Record, Blocks
<1>6. TypeOK'
  BY <1>4, <1>5 DEF TypeInv, TypeOK, Record, history
<1> QED
  BY <1>5, <1>6 DEF TypeInv, TakenInv

LEMMA RestTypes ==
    ASSUME TypeInv, Wait \/ Close \/ Abort PROVE TypeInv'
<1>1. CASE Wait
  <2>1. TypeOK'
    BY <1>1 DEF TypeInv, TypeOK, StoreTypeOK, Wait, storeVars, disk, history, Finished
  <2> QED
    BY <1>1, <2>1 DEF TypeInv, TakenInv, Handling, Wait
<1>2. CASE Close
  <2>1. TypeOK'
    BY <1>2 DEF TypeInv, TypeOK, StoreTypeOK, Close, locals, history, AtRest
  <2> QED
    BY <1>2, <2>1 DEF TypeInv, TakenInv, Handling, Close
<1>3. CASE Abort
  <2>1. mishaps' \in 0 .. MaxMishaps /\ UNCHANGED <<runs, begun, opened>>
    BY <1>3, MishapTypes DEF Abort
  <2>2. TypeOK'
    BY <1>3, <2>1 DEF TypeInv, TypeOK, StoreTypeOK, Abort, storeVars, disk, locals
  <2> QED
    BY <1>3, <2>2 DEF TypeInv, TakenInv, Handling, Abort
<1> QED
  BY <1>1, <1>2, <1>3

LEMMA WorkerTypes ==
    ASSUME TypeInv, NEW n \in Blocks,
           WorkerStep(n) \/ InterruptBootstrap(n) \/ ReportRemoved(n)
    PROVE  TypeInv'
<1>1. CASE Collect(n)
  <2>1. tasks' \in [Blocks -> [state : TaskStates, before : Identities]]
    BY <1>1, TasksTyped DEF TypeInv, Collect, TaskStates
  <2>2. StoreTypeOK'
    BY <1>1, StudyStoreAssumption DEF TypeInv, TypeOK, StoreTypeOK, Collect
  <2>3. TypeOK'
    BY <1>1, <2>1, <2>2 DEF TypeInv, TypeOK, Collect, history
  <2> QED
    BY <1>1, <2>3 DEF TypeInv, TakenInv, Collect
<1>2. CASE CollectFails(n)
  <2>1. tasks' \in [Blocks -> [state : TaskStates, before : Identities]]
    BY <1>2, TasksTyped DEF TypeInv, CollectFails, TaskStates
  <2>2. StoreTypeOK'
    BY <1>2 DEF TypeInv, TypeOK, StoreTypeOK, CollectFails
  <2>3. mishaps' \in 0 .. MaxMishaps /\ UNCHANGED <<runs, begun, opened>>
    BY <1>2, MishapTypes DEF CollectFails
  <2>4. TypeOK'
    BY <1>2, <2>1, <2>2, <2>3 DEF TypeInv, TypeOK, CollectFails
  <2> QED
    BY <1>2, <2>4 DEF TypeInv, TakenInv, CollectFails
<1>3. CASE InterruptBootstrap(n)
  <2>1. tasks' \in [Blocks -> [state : TaskStates, before : Identities]]
    BY <1>3, TasksTyped DEF TypeInv, InterruptBootstrap, TaskStates
  <2>2. mishaps' \in 0 .. MaxMishaps /\ UNCHANGED <<runs, begun, opened>>
    BY <1>3, MishapTypes DEF InterruptBootstrap
  <2>3. TypeOK'
    BY <1>3, <2>1, <2>2
       DEF TypeInv, TypeOK, StoreTypeOK, InterruptBootstrap, storeVars, disk
  <2> QED
    BY <1>3, <2>3 DEF TypeInv, TakenInv, InterruptBootstrap
<1>4. CASE ReportRemoved(n)
  <2>1. StoreTypeOK'
    BY <1>4, StudyStoreAssumption DEF TypeInv, TypeOK, StoreTypeOK, ReportRemoved
  <2>2. mishaps' \in 0 .. MaxMishaps /\ UNCHANGED <<runs, begun, opened>>
    BY <1>4, MishapTypes DEF ReportRemoved
  <2>3. TypeOK'
    BY <1>4, <2>1, <2>2 DEF TypeInv, TypeOK, ReportRemoved, locals
  <2> QED
    BY <1>4, <2>3 DEF TypeInv, TakenInv, ReportRemoved, locals
<1> QED
  BY <1>1, <1>2, <1>3, <1>4 DEF WorkerStep

LEMMA OutsideTypes ==
    ASSUME TypeInv,
           \/ InventoryChanges /\ UNCHANGED <<pc, locals, history>>
           \/ UNCHANGED vars
    PROVE  TypeInv'
<1>1. StoreTypeOK'
  <2>1. CASE InventoryChanges
    <3>1. version' \in 1 .. MaxVersion
      BY <2>1, StudyStoreAssumption DEF TypeInv, TypeOK, StoreTypeOK, InventoryChanges
    <3> QED
      BY <2>1, <3>1 DEF TypeInv, TypeOK, StoreTypeOK, InventoryChanges
  <2>2. CASE UNCHANGED vars
    BY <2>2 DEF TypeInv, TypeOK, StoreTypeOK, vars, storeVars, disk
  <2> QED
    BY <2>1, <2>2
<1>2. TypeOK'
  BY <1>1 DEF TypeInv, TypeOK, vars, locals, history
<1> QED
  BY <1>2 DEF TypeInv, TakenInv, vars, locals

LEMMA EndTypes == ASSUME TypeInv, Unwind \/ Crash PROVE TypeInv'
<1>1. Gone /\ UNCHANGED <<runs, begun, opened>> /\ mishaps' \in 0 .. MaxMishaps
  BY MishapTypes DEF TypeInv, TypeOK, Unwind, Crash, history
<1> QED
  BY <1>1, GoneTypes

LEMMA NextTypes == TypeInv /\ [Next]_vars => TypeInv'
  BY StartTypes, PlanTypes, HandTypes, RecordTypes, RestTypes, WorkerTypes,
     OutsideTypes, EndTypes DEF Next, PlannerStep

\* The variables of _parallel_state_collection keep their types, whatever happens.
THEOREM TypesInductive == Spec => []TypeInv
  BY InitTypes, NextTypes, PTL DEF Spec
-----------------------------------------------------------------------------
\* The second layer: attempts on disk only grow, shard before manifest.
LEMMA InitAttempts == Init => AttemptsInv
<1> SUFFICES ASSUME Init PROVE AttemptsInv
  OBVIOUS
<1>1. \A n \in Blocks : shards[n].attempts = <<>> /\ begun[n] = 0
  BY DEF Init, StoreInit, EmptyBlock
<1>2. \A n \in Blocks : manifest[n] = Absent /\ entries[n] = Absent
  BY DEF Init, StoreInit, NoManifest
<1>3. ~ Absent.shard /\ Absent.attempts = 0
  BY DEF Absent
<1>4. pc = "off"
  BY DEF Init
<1> QED
  BY <1>1, <1>2, <1>3, <1>4
     DEF AttemptsInv, Numbered, NumberedRow, Counted, Between, Unsharded, OnRecord

LEMMA CountsTyped ==
    ASSUME TypeOK, NEW n \in Blocks
    PROVE  /\ manifest[n].attempts \in Nat /\ entries[n].attempts \in Nat
           /\ begun[n] \in Nat /\ Len(shards[n].attempts) \in Nat
<1>1. shards[n].attempts \in Seq(Attempts)
  BY DEF TypeOK, StoreTypeOK, BlockRows
<1>2. manifest[n] \in Entries /\ entries[n] \in Entries /\ begun[n] \in Nat
  BY DEF TypeOK, StoreTypeOK
<1> QED
  BY <1>1, <1>2 DEF Entries

\* A shard may be replaced by any row that has all attempts the manifest counts.
LEMMA CheckpointAttempts ==
    ASSUME TypeInv, AttemptsInv, NEW n \in Blocks, NEW row \in BlockRows,
           Checkpoint(n, row), UNCHANGED <<manifest, begun>>,
           NumberedRow(row.attempts), manifest[n].attempts <= Len(row.attempts)
    PROVE  Numbered' /\ Counted' /\ Unsharded'
           /\ (pc # "off" => Between')
<1>1. /\ shards'[n] = row /\ entries'[n].shard
      /\ entries'[n].attempts = Len(row.attempts)
      /\ \A m \in Blocks \ {n} : shards'[m] = shards[m] /\ entries'[m] = entries[m]
  BY CheckpointTypes DEF TypeInv
<1>2. Numbered'
  BY <1>1 DEF AttemptsInv, Numbered
<1>3. Counted'
  BY <1>1 DEF AttemptsInv, Counted
<1>4. Unsharded'
  BY <1>1 DEF AttemptsInv, Unsharded
<1>5. Len(row.attempts) <= Len(row.attempts)
  BY DEF BlockRows
<1>6. ASSUME pc # "off" PROVE Between'
  BY <1>1, <1>5, <1>6 DEF AttemptsInv, Between
<1> QED
  BY <1>2, <1>3, <1>4, <1>6

\* What the stored row of a block holds is what the manifest in memory counts.
LEMMA StoredAttempts ==
    ASSUME TypeInv, AttemptsInv, pc # "off", NEW n \in Blocks
    PROVE  /\ NumberedRow(StoredBlock(n).attempts)
           /\ Len(StoredBlock(n).attempts) \in Nat
           /\ begun[n] <= Len(StoredBlock(n).attempts)
           /\ manifest[n].attempts <= Len(StoredBlock(n).attempts)
<1>1. /\ manifest[n].attempts \in Nat /\ entries[n].attempts \in Nat
      /\ begun[n] \in Nat /\ Len(shards[n].attempts) \in Nat
  BY CountsTyped DEF TypeInv
<1>2. begun[n] <= manifest[n].attempts /\ manifest[n].attempts <= entries[n].attempts
  BY DEF AttemptsInv, Counted, Between
<1>3. CASE entries[n].shard
  <2>1. StoredBlock(n) = shards[n]
    BY <1>3 DEF StoredBlock
  <2>2. NumberedRow(shards[n].attempts) /\ manifest[n].attempts <= Len(shards[n].attempts)
    BY DEF AttemptsInv, Numbered, Counted
  <2> QED
    BY <1>1, <1>2, <2>1, <2>2
<1>4. CASE ~ entries[n].shard
  <2>1. StoredBlock(n).attempts = <<>>
    BY <1>4 DEF StoredBlock, EmptyBlock
  <2>2. entries[n].attempts = 0
    BY <1>4 DEF AttemptsInv, Unsharded
  <2>3. NumberedRow(<<>>) /\ Len(<<>>) = 0
    BY DEF NumberedRow
  <2> QED
    BY <1>1, <1>2, <2>1, <2>2, <2>3
<1> QED
  BY <1>3, <1>4

LEMMA QuietAttempts ==
    ASSUME AttemptsInv, UNCHANGED <<shards, manifest, entries, begun>>,
           pc' # "off" => pc # "off",
           pc' = "submit" => pc = "submit" /\ taken' = taken
    PROVE  AttemptsInv'
<1>1. Numbered' /\ Counted' /\ Unsharded'
  BY DEF AttemptsInv, Numbered, Counted, Unsharded
<1>2. Between'
  BY DEF AttemptsInv, Between
<1>3. OnRecord'
  BY DEF AttemptsInv, OnRecord
<1> QED
  BY <1>1, <1>2, <1>3 DEF AttemptsInv

\* An entry that is made for a block without one counts nothing.
LEMMA MaterialisedAttempts ==
    ASSUME TypeInv, AttemptsInv, pc # "off", NEW n \in Blocks,
           entries' = [entries EXCEPT ![n] = Materialised(n)]
    PROVE  \A m \in Blocks : /\ entries'[m].attempts = entries[m].attempts
                             /\ ~ entries'[m].shard => entries'[m].attempts = 0
<1>1. entries \in [Blocks -> Entries]
  BY DEF TypeInv, TypeOK, StoreTypeOK
<1>2. \A m \in Blocks : ~ entries[m].shard => entries[m].attempts = 0
  BY DEF AttemptsInv, Unsharded
<1>3. Materialised(n).attempts = entries[n].attempts
      /\ (~ Materialised(n).shard => Materialised(n).attempts = 0)
  BY <1>2, MaterialisedEntry DEF TypeInv
<1> QED
  BY <1>1, <1>2, <1>3

LEMMA StartAttempts == ASSUME TypeInv, AttemptsInv, Start PROVE AttemptsInv'
<1>1. UNCHANGED <<shards, manifest, begun>> /\ entries' = manifest /\ pc' = "plan"
  BY DEF Start, disk
<1>2. Numbered' /\ Counted' /\ Unsharded' /\ OnRecord'
  BY <1>1 DEF AttemptsInv, Numbered, Counted, Unsharded, OnRecord
<1>3. ASSUME NEW n \in Blocks
      PROVE  /\ manifest[n].attempts <= manifest[n].attempts
             /\ manifest[n].attempts <= Len(shards[n].attempts)
  BY CountsTyped DEF TypeInv, AttemptsInv, Counted
<1>4. Between'
  BY <1>1, <1>3 DEF Between
<1> QED
  BY <1>2, <1>4 DEF AttemptsInv

LEMMA GoneAttempts ==
    ASSUME TypeInv, AttemptsInv, Gone, begun' = begun PROVE AttemptsInv'
<1>1. UNCHANGED <<shards, manifest>> /\ entries' = NoManifest /\ pc' = "off"
  BY DEF Gone, disk
<1>2. \A n \in Blocks : NoManifest[n].attempts = 0
  BY DEF NoManifest, Absent
<1> QED
  BY <1>1, <1>2
     DEF AttemptsInv, Numbered, Counted, Between, Unsharded, OnRecord

\* The manifest is written from memory: it counts no more than the shards do.
LEMMA WrittenAttempts ==
    ASSUME TypeInv, AttemptsInv, shards' = shards, manifest' = entries',
           \A n \in Blocks : /\ entries'[n].attempts = entries[n].attempts
                             /\ ~ entries'[n].shard => entries'[n].attempts = 0,
           pc # "off", pc' # "submit",
           \A n \in Blocks : begun'[n] <= entries[n].attempts
    PROVE  AttemptsInv'
<1>1. ASSUME NEW n \in Blocks
      PROVE  /\ entries[n].attempts <= entries[n].attempts
             /\ entries[n].attempts <= Len(shards[n].attempts)
  BY CountsTyped DEF TypeInv, AttemptsInv, Between
<1>2. Numbered' /\ Unsharded' /\ OnRecord'
  BY DEF AttemptsInv, Numbered, Unsharded, OnRecord
<1>3. Counted'
  BY <1>1 DEF Counted
<1>4. Between'
  BY <1>1 DEF Between
<1> QED
  BY <1>2, <1>3, <1>4 DEF AttemptsInv

LEMMA PlanAttempts ==
    ASSUME TypeInv, AttemptsInv, SkipReady \/ DiskFull \/ TakeBlock
    PROVE  AttemptsInv'
<1>1. Planning /\ pc = "plan" /\ next \in Blocks
  BY NextIsBlock DEF TypeInv, SkipReady, DiskFull, TakeBlock, Planning
<1>2. PICK n \in Blocks : n = next
  BY <1>1
<1>3. \A m \in Blocks : begun[m] <= manifest[m].attempts
                        /\ manifest[m].attempts <= entries[m].attempts
  BY <1>1 DEF AttemptsInv, Counted, Between
<1>4. \A m \in Blocks : begun[m] <= entries[m].attempts
  BY <1>3, CountsTyped DEF TypeInv
<1>5. CASE SkipReady
  <2>1. PICK row \in BlockRows : row = StoredBlock(n)
    BY StoredTyped DEF TypeInv
  <2>2. Checkpoint(n, row) /\ UNCHANGED <<manifest, begun>> /\ pc' = pc
    BY <1>2, <1>5, <2>1 DEF SkipReady, history
  <2>3. NumberedRow(row.attempts) /\ manifest[n].attempts <= Len(row.attempts)
    BY <1>1, <2>1, StoredAttempts
  <2> QED
    BY <1>1, <2>2, <2>3, CheckpointAttempts DEF AttemptsInv, OnRecord
<1>6. ASSUME DiskFull \/ TakeBlock
      PROVE  \A m \in Blocks : /\ entries'[m].attempts = entries[m].attempts
                               /\ ~ entries'[m].shard => entries'[m].attempts = 0
  BY <1>1, <1>2, <1>6, MaterialisedAttempts DEF DiskFull, TakeBlock
<1>7. CASE DiskFull
  <2>1. shards' = shards /\ manifest' = entries' /\ begun' = begun /\ pc' = pc
    BY <1>7 DEF DiskFull, Mishap
  <2> QED
    BY <1>1, <1>4, <1>6, <1>7, <2>1, WrittenAttempts
<1>8. CASE TakeBlock
  <2>1. UNCHANGED <<shards, manifest, begun>> /\ pc' = "begin"
    BY <1>8 DEF TakeBlock, disk, history
  <2>2. Numbered' /\ Counted' /\ OnRecord'
    BY <2>1 DEF AttemptsInv, Numbered, Counted, OnRecord
  <2>3. Unsharded'
    BY <1>6, <1>8, <2>1 DEF AttemptsInv, Unsharded
  <2>4. Between'
    BY <1>1, <1>6, <1>8, <2>1 DEF AttemptsInv, Between
  <2> QED
    BY <2>2, <2>3, <2>4 DEF AttemptsInv
<1> QED
  BY <1>5, <1>7, <1>8

LEMMA BeginAttempts == ASSUME TypeInv, AttemptsInv, BeginBlock PROVE AttemptsInv'
<1>1. pc = "begin" /\ taken.number \in Blocks
  BY DEF TypeInv, TakenInv, Handling, BeginBlock
<1>2. PICK n \in Blocks : n = taken.number
  BY <1>1
<1>3. PICK stored \in BlockRows : stored = StoredBlock(n)
  BY StoredTyped DEF TypeInv
<1>4. PICK row \in BlockRows : row = Begun(stored)
  BY BegunRow
<1>5. /\ Checkpoint(n, row) /\ UNCHANGED <<manifest, begun>>
      /\ pc' = "submit" /\ taken' = taken
  BY <1>2, <1>3, <1>4 DEF BeginBlock, locals, history
<1>6. /\ NumberedRow(stored.attempts) /\ Len(stored.attempts) \in Nat
      /\ begun[n] <= Len(stored.attempts)
      /\ manifest[n].attempts <= Len(stored.attempts)
  BY <1>1, <1>3, StoredAttempts
<1>7. row.attempts = Append(stored.attempts, Running)
      /\ Len(row.attempts) = Len(stored.attempts) + 1
  BY <1>4, BegunRow
<1>8. NumberedRow(row.attempts)
  <2>1. stored.attempts \in Seq(Attempts) /\ Running.status = "running" /\ Running.log = 0
    BY DEF BlockRows, Running
  <2>2. \A i \in 1 .. Len(stored.attempts) : row.attempts[i] = stored.attempts[i]
    BY <1>7, <2>1
  <2>3. row.attempts[Len(stored.attempts) + 1] = Running
    BY <1>7, <2>1
  <2>4. DOMAIN row.attempts = 1 .. Len(stored.attempts) + 1
    BY <1>7, <2>1
  <2>5. \A i \in 1 .. Len(stored.attempts) :
            stored.attempts[i].log
              = IF stored.attempts[i].status = "running" THEN 0 ELSE i
    BY <1>6, <2>1 DEF NumberedRow
  <2>6. ASSUME NEW i \in DOMAIN row.attempts
        PROVE  row.attempts[i].log
                 = IF row.attempts[i].status = "running" THEN 0 ELSE i
    <3>1. i \in 1 .. Len(stored.attempts) \/ i = Len(stored.attempts) + 1
      BY <1>6, <2>4
    <3> QED
      BY <2>1, <2>2, <2>3, <2>5, <3>1
  <2> QED
    BY <2>6 DEF NumberedRow
<1>9. manifest[n].attempts <= Len(row.attempts) /\ begun[n] < Len(row.attempts)
  BY <1>6, <1>7, CountsTyped DEF TypeInv
<1>10. Numbered' /\ Counted' /\ Unsharded' /\ Between'
  BY <1>1, <1>5, <1>8, <1>9, CheckpointAttempts
<1>11. entries'[n].attempts = Len(row.attempts)
  BY <1>5, CheckpointTypes DEF TypeInv
<1>12. OnRecord'
  BY <1>2, <1>5, <1>9, <1>11 DEF OnRecord
<1> QED
  BY <1>10, <1>12 DEF AttemptsInv

LEMMA SubmitAttempts == ASSUME TypeInv, AttemptsInv, Submit PROVE AttemptsInv'
<1>1. pc = "submit" /\ taken.number \in Blocks
  BY DEF TypeInv, TakenInv, Handling, Submit
<1>2. PICK n \in Blocks : n = taken.number
  BY <1>1
<1>3. /\ shards' = shards /\ manifest' = entries /\ entries' = entries
      /\ begun' = [begun EXCEPT ![n] = begun[n] + 1] /\ pc' # "submit"
  BY <1>2 DEF Submit
<1>4. begun[n] < entries[n].attempts
  BY <1>1, <1>2 DEF AttemptsInv, OnRecord
<1>5. begun \in [Blocks -> Nat]
  BY DEF TypeInv, TypeOK
<1>6. ASSUME NEW m \in Blocks PROVE begun'[m] <= entries[m].attempts
  <2>1. /\ begun[m] \in Nat /\ entries[m].attempts \in Nat /\ manifest[m].attempts \in Nat
        /\ begun[n] \in Nat /\ entries[n].attempts \in Nat
    BY CountsTyped DEF TypeInv
  <2>2. begun[m] <= manifest[m].attempts /\ manifest[m].attempts <= entries[m].attempts
    BY <1>1 DEF AttemptsInv, Counted, Between
  <2>3. CASE m = n
    BY <1>3, <1>4, <1>5, <2>1, <2>3
  <2>4. CASE m # n
    BY <1>3, <1>5, <2>1, <2>2, <2>4
  <2> QED
    BY <2>3, <2>4
<1>7. \A m \in Blocks : ~ entries[m].shard => entries[m].attempts = 0
  BY DEF AttemptsInv, Unsharded
<1> QED
  BY <1>1, <1>3, <1>6, <1>7, WrittenAttempts

LEMMA RecordAttempts ==
    ASSUME TypeInv, AttemptsInv, NEW n \in Blocks, Record(n) PROVE AttemptsInv'
<1>1. shards[n] \in BlockRows /\ tasks[n].before \in Identities
  BY DEF TypeInv, TypeOK, StoreTypeOK
<1>2. PICK row \in BlockRows :
          row = Recorded(n, shards[n], tasks[n].before, tasks[n].state = "ok")
  BY <1>1, RecordedRow
<1>3. NumberedRow(shards[n].attempts) /\ manifest[n].attempts <= Len(shards[n].attempts)
  BY DEF AttemptsInv, Numbered, Counted
<1>4. NumberedRow(row.attempts) /\ Len(shards[n].attempts) <= Len(row.attempts)
  BY <1>1, <1>2, <1>3, RecordedRow
<1>5. Len(row.attempts) \in Nat
  BY DEF BlockRows
<1>6. manifest[n].attempts <= Len(row.attempts)
  BY <1>3, <1>4, <1>5, CountsTyped DEF TypeInv
<1>7. Checkpoint(n, row) /\ UNCHANGED <<manifest, begun>>
      /\ pc = "record" /\ pc' = "recorded"
  BY <1>2 DEF Record, history
<1> QED
  BY <1>4, <1>6, <1>7, CheckpointAttempts DEF AttemptsInv, OnRecord

LEMMA RecordAgainAttempts == ASSUME TypeInv, AttemptsInv, RecordAgain PROVE AttemptsInv'
<1>1. taken.number \in Blocks /\ taken.before \in Identities
  BY DEF TypeInv, TypeOK, TakenInv, Handling, RecordAgain
<1>2. PICK n \in Blocks : n = taken.number
  BY <1>1
<1>3. shards[n] \in BlockRows
  BY DEF TypeInv, TypeOK, StoreTypeOK
<1>4. PICK row \in BlockRows : row = Recorded(n, shards[n], taken.before, FALSE)
  BY <1>1, <1>3, RecordedRow
<1>5. NumberedRow(shards[n].attempts) /\ manifest[n].attempts <= Len(shards[n].attempts)
  BY DEF AttemptsInv, Numbered, Counted
<1>6. NumberedRow(row.attempts) /\ Len(shards[n].attempts) <= Len(row.attempts)
  BY <1>1, <1>3, <1>4, <1>5, RecordedRow
<1>7. Len(row.attempts) \in Nat
  BY DEF BlockRows
<1>8. manifest[n].attempts <= Len(row.attempts)
  BY <1>5, <1>6, <1>7, CountsTyped DEF TypeInv
<1>9. Checkpoint(n, row) /\ UNCHANGED <<manifest, begun>>
      /\ pc = "recorded" /\ pc' = pc
  BY <1>2, <1>4 DEF RecordAgain, Mishap
<1> QED
  BY <1>6, <1>8, <1>9, CheckpointAttempts DEF AttemptsInv, OnRecord

LEMMA WriteAttempts ==
    ASSUME TypeInv, AttemptsInv, Settle \/ Close PROVE AttemptsInv'
<1>1. /\ shards' = shards /\ manifest' = entries /\ entries' = entries /\ begun' = begun
      /\ pc # "off" /\ pc' # "submit"
  BY DEF Settle, Close, history
<1>2. ASSUME NEW m \in Blocks PROVE begun'[m] <= entries[m].attempts
  BY <1>1, CountsTyped DEF TypeInv, AttemptsInv, Counted, Between
<1>3. \A m \in Blocks : ~ entries[m].shard => entries[m].attempts = 0
  BY DEF AttemptsInv, Unsharded
<1> QED
  BY <1>1, <1>2, <1>3, WrittenAttempts

LEMMA NextAttempts ==
    ASSUME TypeInv, AttemptsInv, [Next]_vars PROVE AttemptsInv'
<1>1. CASE NothingToSchedule \/ Wait \/ Abort
  BY <1>1, QuietAttempts
     DEF NothingToSchedule, Wait, Abort, Mishap, storeVars, disk, history
<1>2. CASE Unwind \/ Crash
  BY <1>2, GoneAttempts DEF Unwind, Crash, Mishap, history
<1>3. ASSUME NEW n \in Blocks, WorkerStep(n) \/ InterruptBootstrap(n) \/ ReportRemoved(n)
      PROVE  AttemptsInv'
  BY <1>3, QuietAttempts
     DEF WorkerStep, Collect, CollectFails, InterruptBootstrap, ReportRemoved,
         Mishap, storeVars, disk, locals, history
<1>4. CASE InventoryChanges /\ UNCHANGED <<pc, locals, history>>
  BY <1>4, QuietAttempts DEF InventoryChanges, locals, history
<1>5. CASE UNCHANGED vars
  BY <1>5, QuietAttempts DEF vars, storeVars, disk, locals, history
<1> QED
  BY <1>1, <1>2, <1>3, <1>4, <1>5, StartAttempts, PlanAttempts, BeginAttempts,
     SubmitAttempts, RecordAttempts, RecordAgainAttempts, WriteAttempts
     DEF Next, PlannerStep

\* The four counts of a block's attempts (made, manifest on disk, manifest in memory,
\* shard) stay in order: begin and record write the shard first.
THEOREM AttemptsInductive == Spec => [](TypeInv /\ AttemptsInv)
<1>1. Init => TypeInv /\ AttemptsInv
  BY InitTypes, InitAttempts
<1>2. TypeInv /\ AttemptsInv /\ [Next]_vars => (TypeInv /\ AttemptsInv)'
  BY NextTypes, NextAttempts
<1> QED
  BY <1>1, <1>2, PTL DEF Spec
-----------------------------------------------------------------------------
\* The third layer: what is known of the inventories behind a report.
LEMMA EditionsTyped ==
    ASSUME TypeOK, NEW n \in Blocks
    PROVE  /\ tasks[n].before.edition \in Nat /\ taken.before.edition \in Nat
           /\ reports[n] \in Nat /\ version \in Nat
           /\ tasks[n].state \in TaskStates
<1>1. tasks[n].before \in Identities /\ taken.before \in Identities
  BY DEF TypeOK
<1> QED
  BY <1>1, StudyStoreAssumption DEF TypeOK, StoreTypeOK, Identities

LEMMA InitReports == ASSUME Init PROVE ReportsInv
<1>1. /\ \A n \in Blocks : tasks[n] = NoTask /\ reports[n] = 0 /\ shards[n] = EmptyBlock
      /\ done = {} /\ pc = "off" /\ taken = Nothing /\ version = 1
  BY DEF Init, StoreInit
<1>2. DoneInv
  BY <1>1 DEF DoneInv
<1>3. CollectingRuns
  BY <1>1 DEF CollectingRuns, NoTask
<1>4. Ages
  BY <1>1 DEF Ages, NoTask, Nothing, NoIdentity
<1>5. CompleteFromNamedInventory
  BY <1>1 DEF CompleteFromNamedInventory
<1> QED
  BY <1>2, <1>3, <1>4, <1>5 DEF ReportsInv

LEMMA QuietReports ==
    ASSUME ReportsInv, UNCHANGED <<shards, tasks, reports, version, done>>,
           taken'.before.edition <= version,
           pc' \in {"plan", "begin", "submit", "wait"}
             => pc \in {"plan", "begin", "submit", "wait"},
           pc' = "submit" => pc = "submit" /\ taken' = taken
    PROVE  ReportsInv'
<1>1. DoneInv'
  BY DEF ReportsInv, DoneInv, Finished
<1>2. CollectingRuns'
  BY DEF ReportsInv, CollectingRuns
<1>3. Ages'
  BY DEF ReportsInv, Ages
<1>4. CompleteFromNamedInventory'
  BY DEF ReportsInv, CompleteFromNamedInventory
<1> QED
  BY <1>1, <1>2, <1>3, <1>4 DEF ReportsInv

LEMMA ResetReports ==
    ASSUME TypeInv, ReportsInv, Reset, UNCHANGED <<shards, reports, version>>,
           pc' # "submit"
    PROVE  ReportsInv'
<1>1. /\ \A n \in Blocks : tasks'[n] = NoTask
      /\ done' = {} /\ taken'.before = NoIdentity
  BY ResetTypes
<1>2. DoneInv'
  BY <1>1 DEF DoneInv
<1>3. CollectingRuns'
  BY <1>1 DEF CollectingRuns, NoTask
<1>4. version \in Nat
  BY StudyStoreAssumption DEF TypeInv, TypeOK, StoreTypeOK
<1>5. Ages'
  BY <1>1, <1>4 DEF ReportsInv, Ages, NoTask, NoIdentity
<1>6. CompleteFromNamedInventory'
  BY DEF ReportsInv, CompleteFromNamedInventory
<1> QED
  BY <1>2, <1>3, <1>5, <1>6 DEF ReportsInv

\* A row may be replaced where no worker has the block, or by a running one.
LEMMA CheckpointReports ==
    ASSUME TypeInv, ReportsInv, NEW n \in Blocks, NEW row \in BlockRows,
           Checkpoint(n, row), UNCHANGED <<tasks, reports, version, done>>,
           taken'.before.edition <= version,
           pc' \in {"plan", "begin", "submit", "wait"}
             => pc \in {"plan", "begin", "submit", "wait"},
           pc' = "submit" => taken'.number = n /\ row.status = "running",
           row.status = "running" \/ tasks[n].state # "collecting",
           row.status = "completed" /\ row.complete /\ reports[n] # 0
             => reports[n] = row.stageIdentity.edition
    PROVE  ReportsInv'
<1>1. shards'[n] = row /\ \A m \in Blocks \ {n} : shards'[m] = shards[m]
  BY CheckpointTypes DEF TypeInv
<1>2. DoneInv'
  BY DEF ReportsInv, DoneInv, Finished
<1>3. CollectingRuns'
  BY <1>1 DEF ReportsInv, CollectingRuns
<1>4. Ages'
  BY DEF ReportsInv, Ages
<1>5. CompleteFromNamedInventory'
  BY <1>1 DEF ReportsInv, CompleteFromNamedInventory
<1> QED
  BY <1>2, <1>3, <1>4, <1>5 DEF ReportsInv

LEMMA PlanReports ==
    ASSUME TypeInv, ReportsInv, SkipReady \/ DiskFull \/ TakeBlock
    PROVE  ReportsInv'
<1>1. pc = "plan" /\ next \in Blocks /\ taken.before.edition <= version
  BY NextIsBlock DEF TypeInv, ReportsInv, Ages, SkipReady, DiskFull, TakeBlock, Planning
<1>2. PICK n \in Blocks : n = next
  BY <1>1
<1>3. CASE SkipReady
  <2>1. shards' = [shards EXCEPT ![n] = shards[n]]
    BY <1>2, <1>3, ReadyHasShard DEF TypeInv, SkipReady, Checkpoint
  <2>2. shards' = shards
    BY <2>1 DEF TypeInv, TypeOK, StoreTypeOK
  <2> QED
    BY <1>1, <1>3, <2>2, QuietReports DEF SkipReady
<1>4. CASE DiskFull
  BY <1>1, <1>4, QuietReports DEF DiskFull
<1>5. CASE TakeBlock
  <2>1. taken'.before.edition = version
    BY <1>2, <1>5, IdentityTyped DEF TypeInv, TakeBlock
  <2>2. version <= version
    BY StudyStoreAssumption DEF TypeInv, TypeOK, StoreTypeOK
  <2> QED
    BY <1>1, <1>5, <2>1, <2>2, QuietReports DEF TakeBlock, disk
<1> QED
  BY <1>3, <1>4, <1>5

LEMMA BeginReports == ASSUME TypeInv, ReportsInv, BeginBlock PROVE ReportsInv'
<1>1. /\ pc = "begin" /\ taken.number \in Blocks
      /\ taken.before.edition <= version
  BY DEF TypeInv, TakenInv, Handling, BeginBlock, ReportsInv, Ages
<1>2. PICK n \in Blocks : n = taken.number
  BY <1>1
<1>3. PICK stored \in BlockRows : stored = StoredBlock(n)
  BY StoredTyped DEF TypeInv
<1>4. PICK row \in BlockRows : row = Begun(stored)
  BY BegunRow
<1>5. row.status = "running"
  BY <1>4, BegunRow
<1>6. /\ Checkpoint(n, row) /\ UNCHANGED <<tasks, reports, version, done>>
      /\ pc' = "submit" /\ taken' = taken
  BY <1>2, <1>3, <1>4 DEF BeginBlock, locals
<1> QED
  BY <1>1, <1>2, <1>5, <1>6, CheckpointReports

LEMMA SubmitReports == ASSUME TypeInv, ReportsInv, Submit PROVE ReportsInv'
<1>1. pc = "submit" /\ taken.number \in Blocks /\ done = {}
  BY DEF TypeInv, TakenInv, Handling, Submit, ReportsInv, DoneInv
<1>2. PICK n \in Blocks : n = taken.number
  BY <1>1
<1>3. /\ UNCHANGED <<shards, reports, version, done>>
      /\ tasks' = [tasks EXCEPT ![n] = [state |-> "collecting", before |-> taken.before]]
      /\ taken' = Nothing /\ pc' \in {"plan", "wait"}
  BY <1>2 DEF Submit
<1>4. tasks \in [Blocks -> [state : TaskStates, before : Identities]]
  BY DEF TypeInv, TypeOK
<1>5. /\ tasks'[n].state = "collecting" /\ tasks'[n].before = taken.before
      /\ \A m \in Blocks \ {n} : tasks'[m] = tasks[m]
  BY <1>3, <1>4
<1>6. DoneInv'
  BY <1>1, <1>3 DEF DoneInv
<1>7. CollectingRuns'
  <2>1. shards[n].status = "running"
    BY <1>1, <1>2 DEF ReportsInv, CollectingRuns
  <2> QED
    BY <1>3, <1>5, <2>1 DEF ReportsInv, CollectingRuns
<1>8. Ages'
  <2>1. Nothing.before.edition <= version
    BY StudyStoreAssumption DEF Nothing, NoIdentity, TypeInv, TypeOK, StoreTypeOK
  <2>2. taken.before.edition <= version
    BY DEF ReportsInv, Ages
  <2> QED
    BY <1>3, <1>5, <2>1, <2>2 DEF ReportsInv, Ages
<1>9. CompleteFromNamedInventory'
  BY <1>3 DEF ReportsInv, CompleteFromNamedInventory
<1> QED
  BY <1>6, <1>7, <1>8, <1>9 DEF ReportsInv

LEMMA WaitReports == ASSUME ReportsInv, Wait PROVE ReportsInv'
<1>1. /\ UNCHANGED <<shards, reports, version, tasks, taken>>
      /\ done' = Finished /\ pc' = "record"
  BY DEF Wait, storeVars, disk
<1>2. DoneInv'
  BY <1>1 DEF DoneInv, Finished
<1>3. CollectingRuns' /\ Ages'
  BY <1>1 DEF ReportsInv, CollectingRuns, Ages
<1>4. CompleteFromNamedInventory'
  BY <1>1 DEF ReportsInv, CompleteFromNamedInventory
<1> QED
  BY <1>2, <1>3, <1>4 DEF ReportsInv

\* The row names the identity read before the collection; when it is complete
\* that is still the present one, so the report in between is of it as well.
LEMMA RecordReports ==
    ASSUME TypeInv, ReportsInv, NEW n \in Blocks, Record(n) PROVE ReportsInv'
<1>1. shards[n] \in BlockRows /\ tasks[n].before \in Identities
  BY DEF TypeInv, TypeOK, StoreTypeOK
<1>2. PICK before \in Identities : before = tasks[n].before
  BY <1>1
<1>3. PICK succeeded \in BOOLEAN : succeeded = (tasks[n].state = "ok")
  OBVIOUS
<1>4. PICK row \in BlockRows : row = Recorded(n, shards[n], before, succeeded)
  BY <1>1, RecordedRow
<1>5. /\ Checkpoint(n, row) /\ UNCHANGED <<tasks, reports, version, done>>
      /\ taken'.before = before /\ pc' = "recorded"
  BY <1>2, <1>3, <1>4 DEF Record
<1>6. n \in Finished /\ tasks[n].state # "collecting"
  BY DEF ReportsInv, DoneInv, Record, Finished
<1>7. before.edition <= version
  BY <1>2 DEF ReportsInv, Ages
<1>8. ASSUME row.status = "completed", row.complete, reports[n] # 0
      PROVE  reports[n] = row.stageIdentity.edition
  <2>1. succeeded
    BY <1>4, <1>8 DEF Recorded
  <2>2. row.stageIdentity = before /\ before = EffectiveIdentity(n)
    BY <1>4, <1>8, <2>1 DEF Recorded
  <2>3. before.edition = version
    BY <2>2, IdentityTyped DEF TypeInv
  <2>4. before.edition <= reports[n] /\ reports[n] <= version
    BY <1>2, <1>3, <1>8, <2>1 DEF ReportsInv, Ages
  <2> QED
    BY <2>2, <2>3, <2>4, EditionsTyped DEF TypeInv
<1> QED
  BY <1>5, <1>6, <1>7, <1>8, CheckpointReports

LEMMA RecordAgainReports ==
    ASSUME TypeInv, ReportsInv, RecordAgain PROVE ReportsInv'
<1>1. taken.number \in Blocks /\ taken.before \in Identities
  BY DEF TypeInv, TypeOK, TakenInv, Handling, RecordAgain
<1>2. PICK n \in Blocks : n = taken.number
  BY <1>1
<1>3. PICK before \in Identities : before = taken.before
  BY <1>1
<1>4. shards[n] \in BlockRows /\ shards[n].status = "completed"
  BY <1>2 DEF TypeInv, TypeOK, StoreTypeOK, RecordAgain
<1>5. PICK row \in BlockRows : row = Recorded(n, shards[n], before, FALSE)
  BY <1>4, RecordedRow
<1>6. row.status = "failed"
  BY <1>5 DEF Recorded
<1>7. /\ Checkpoint(n, row) /\ UNCHANGED <<tasks, reports, version, done>>
      /\ taken' = taken /\ pc' = "recorded"
  BY <1>2, <1>3, <1>5 DEF RecordAgain
<1>8. tasks[n].state # "collecting" /\ taken.before.edition <= version
  BY <1>4 DEF ReportsInv, CollectingRuns, Ages
<1> QED
  BY <1>6, <1>7, <1>8, CheckpointReports

LEMMA SettleReports == ASSUME TypeInv, ReportsInv, Settle PROVE ReportsInv'
<1>1. pc = "recorded" /\ taken.number \in Blocks
  BY DEF TypeInv, TakenInv, Handling, Settle
<1>2. PICK n \in Blocks : n = taken.number
  BY <1>1
<1>3. /\ UNCHANGED <<shards, reports, version>>
      /\ tasks' = [tasks EXCEPT ![n] = NoTask] /\ done' = done \ {n}
      /\ taken' = Nothing
      /\ pc' = "plan" => done' = {}
      /\ pc' \in {"plan", "record", "unwind"}
  BY <1>2 DEF Settle
<1>4. tasks'[n] = NoTask /\ \A m \in Blocks \ {n} : tasks'[m] = tasks[m]
  BY <1>3 DEF TypeInv, TypeOK
<1>5. DoneInv'
  BY <1>3, <1>4 DEF ReportsInv, DoneInv, Finished
<1>6. CollectingRuns'
  BY <1>3, <1>4 DEF ReportsInv, CollectingRuns, NoTask
<1>7. version \in Nat
  BY StudyStoreAssumption DEF TypeInv, TypeOK, StoreTypeOK
<1>8. Ages'
  BY <1>3, <1>4, <1>7 DEF ReportsInv, Ages, NoTask, Nothing, NoIdentity
<1>9. CompleteFromNamedInventory'
  BY <1>3 DEF ReportsInv, CompleteFromNamedInventory
<1> QED
  BY <1>5, <1>6, <1>8, <1>9 DEF ReportsInv

\* A report is collected while the block's row is that of a running attempt.
LEMMA WorkerReports ==
    ASSUME TypeInv, ReportsInv, NEW n \in Blocks, WorkerStep(n) \/ InterruptBootstrap(n)
    PROVE  ReportsInv'
<1>1. tasks[n].state = "collecting" /\ UNCHANGED <<shards, version, taken, done, pc>>
  BY DEF WorkerStep, Collect, CollectFails, InterruptBootstrap, storeVars, disk
<1>2. shards[n].status = "running"
  BY <1>1 DEF ReportsInv, CollectingRuns
<1>3. /\ tasks'[n].state \in {"ok", "error"} /\ tasks'[n].before = tasks[n].before
      /\ \A m \in Blocks \ {n} : tasks'[m] = tasks[m]
  BY TasksTyped DEF TypeInv, TaskStates, WorkerStep, Collect, CollectFails, InterruptBootstrap
<1>4. /\ \A m \in Blocks \ {n} : reports'[m] = reports[m]
      /\ tasks'[n].state = "ok" => reports'[n] = version
      /\ reports'[n] \in {reports[n], version}
  <2>1. CASE Collect(n)
    BY <2>1 DEF Collect, TypeInv, TypeOK, StoreTypeOK
  <2>2. CASE CollectFails(n) \/ InterruptBootstrap(n)
    <3>1. reports' = reports
      BY <2>2 DEF CollectFails, InterruptBootstrap, storeVars, disk
    <3>2. tasks'[n].state = "error"
      BY <2>2, TasksTyped DEF TypeInv, TaskStates, CollectFails, InterruptBootstrap
    <3> QED
      BY <3>1, <3>2
  <2> QED
    BY <2>1, <2>2 DEF WorkerStep
<1>5. DoneInv'
  BY <1>1, <1>3 DEF ReportsInv, DoneInv, Finished
<1>6. CollectingRuns'
  BY <1>1, <1>3 DEF ReportsInv, CollectingRuns
<1>7. Ages'
  <2>1. version <= version
    BY StudyStoreAssumption DEF TypeInv, TypeOK, StoreTypeOK
  <2> QED
    BY <1>1, <1>3, <1>4, <2>1 DEF ReportsInv, Ages
<1>8. CompleteFromNamedInventory'
  BY <1>1, <1>2, <1>4 DEF ReportsInv, CompleteFromNamedInventory
<1> QED
  BY <1>5, <1>6, <1>7, <1>8 DEF ReportsInv

LEMMA ReportRemovedReports ==
    ASSUME TypeInv, ReportsInv, NEW n \in Blocks, ReportRemoved(n) PROVE ReportsInv'
<1>1. /\ UNCHANGED <<shards, version, tasks, taken, done, pc>>
      /\ reports' = [reports EXCEPT ![n] = 0]
  BY DEF ReportRemoved, locals
<1>2. reports'[n] = 0 /\ \A m \in Blocks \ {n} : reports'[m] = reports[m]
  BY <1>1 DEF TypeInv, TypeOK, StoreTypeOK
<1>3. DoneInv' /\ CollectingRuns'
  BY <1>1 DEF ReportsInv, DoneInv, CollectingRuns, Finished
<1>4. 0 <= version
  BY StudyStoreAssumption DEF TypeInv, TypeOK, StoreTypeOK
<1>5. Ages'
  BY <1>1, <1>2, <1>4 DEF ReportsInv, Ages
<1>6. CompleteFromNamedInventory'
  BY <1>1, <1>2 DEF ReportsInv, CompleteFromNamedInventory
<1> QED
  BY <1>3, <1>5, <1>6 DEF ReportsInv

LEMMA InventoryReports ==
    ASSUME TypeInv, ReportsInv, InventoryChanges, UNCHANGED <<pc, locals, history>>
    PROVE  ReportsInv'
<1>1. /\ UNCHANGED <<shards, reports, tasks, taken, done, pc>>
      /\ version' = version + 1
  BY DEF InventoryChanges, locals
<1>2. DoneInv' /\ CollectingRuns'
  BY <1>1 DEF ReportsInv, DoneInv, CollectingRuns, Finished
<1>3. \A n \in Blocks : /\ tasks[n].before.edition \in Nat /\ reports[n] \in Nat
                        /\ taken.before.edition \in Nat /\ version \in Nat
  BY EditionsTyped DEF TypeInv
<1>4. taken.before.edition \in Nat /\ version \in Nat
  BY StudyStoreAssumption DEF TypeInv, TypeOK, StoreTypeOK, Identities
<1>5. Ages'
  BY <1>1, <1>3, <1>4 DEF ReportsInv, Ages
<1>6. CompleteFromNamedInventory'
  BY <1>1 DEF ReportsInv, CompleteFromNamedInventory
<1> QED
  BY <1>2, <1>5, <1>6 DEF ReportsInv

LEMMA NextReports == ASSUME TypeInv, ReportsInv, [Next]_vars PROVE ReportsInv'
<1>1. taken.before.edition <= version
  BY DEF ReportsInv, Ages
<1>2. CASE NothingToSchedule \/ Close \/ Abort
  BY <1>1, <1>2, QuietReports
     DEF NothingToSchedule, Close, Abort, storeVars, disk, locals
<1>3. CASE UNCHANGED vars
  BY <1>1, <1>3, QuietReports DEF vars, storeVars, disk, locals
<1>4. CASE Start \/ Unwind \/ Crash
  BY <1>4, ResetReports DEF Start, Unwind, Crash, Gone, disk
<1> QED
  BY <1>2, <1>3, <1>4, PlanReports, BeginReports, SubmitReports, WaitReports,
     RecordReports, RecordAgainReports, SettleReports, WorkerReports,
     ReportRemovedReports, InventoryReports DEF Next, PlannerStep

\* A report on its way into a shard, and each report in one, is of the inventories its
\* row names or will name (record, _effective_inventory_identity).
THEOREM ReportsInductive == Spec => [](TypeInv /\ ReportsInv)
<1>1. Init => TypeInv /\ ReportsInv
  BY InitTypes, InitReports
<1>2. TypeInv /\ ReportsInv /\ [Next]_vars => (TypeInv /\ ReportsInv)'
  BY NextTypes, NextReports
<1> QED
  BY <1>1, <1>2, PTL DEF Spec
-----------------------------------------------------------------------------
\* The fourth layer: what a run has settled of the blocks it has passed.
\* A settled block's row is over, summarised in memory, and, if completed, was
\* collected under inventories no older than those the run began with.
Settled(n) ==
    /\ shards[n].status \in {"completed", "failed"}
    /\ entries[n] = Summary(shards[n])
    /\ shards[n].status = "completed" => opened <= shards[n].stageIdentity.edition

InHand(n) == tasks[n].state # "none" \/ (pc \in {"begin", "submit"} /\ taken.number = n)

\* What the planner has passed is in hand or settled.
PassedInv ==
    pc \notin {"off", "unwind"} /\ ~stopped =>
        \A n \in Blocks : n < next => InHand(n) \/ Settled(n)

RecordedInv == pc = "recorded" => Settled(taken.number)

\* A run closes when nothing is in hand, and writes what it has in memory.
ClosedInv ==
    /\ pc \in {"close", "returned"} => \A n \in Blocks : tasks[n].state = "none"
    /\ pc = "returned" => manifest = entries

\* What is taken up in a run is taken up under inventories no older than its first.
Onward ==
    /\ opened <= version
    /\ \A n \in Blocks : tasks[n].state # "none" => opened <= tasks[n].before.edition
    /\ pc \in {"begin", "submit"} => opened <= taken.before.edition

FailedRows == \A n \in Blocks : shards[n].status = "failed" => ~shards[n].complete

SettleInv == PassedInv /\ RecordedInv /\ ClosedInv /\ Onward /\ FailedRows

\* A settled block stays so while its row, its summary and the run do.
LEMMA StaysSettled ==
    ASSUME NEW n \in Blocks, Settled(n),
           shards'[n] = shards[n], entries'[n] = entries[n], opened' = opened
    PROVE  Settled(n)'
  BY DEF Settled, Summary

\* Editions are numbers.
LEMMA OpenedTyped == ASSUME TypeOK PROVE opened \in Nat /\ version \in Nat
  BY StudyStoreAssumption DEF TypeOK, StoreTypeOK

\* At first nothing is passed.
LEMMA InitSettles == ASSUME Init PROVE SettleInv
<1>1. pc = "off" /\ opened = 0 /\ version = 1
  BY DEF Init, StoreInit
<1>2. \A n \in Blocks : shards[n] = EmptyBlock /\ tasks[n] = NoTask
  BY DEF Init, StoreInit
<1> QED
  BY <1>1, <1>2
     DEF SettleInv, PassedInv, RecordedInv, ClosedInv, Onward, FailedRows, EmptyBlock, NoTask

\* Steps that leave the rows and what is in hand alone.
LEMMA QuietSettles ==
    ASSUME SettleInv,
           UNCHANGED <<shards, manifest, entries, tasks, taken, stopped, next, opened, version>>,
           \/ pc' = pc \/ pc' = "unwind"
           \/ pc \in {"plan", "wait"} /\ pc' \in {"wait", "record", "close"},
           pc' = "close" => pc = "close" \/ \A n \in Blocks : tasks[n].state = "none"
    PROVE  SettleInv'
<1>1. \A n \in Blocks : Settled(n) => Settled(n)'
  BY StaysSettled
<1>2. PassedInv'
  BY <1>1 DEF SettleInv, PassedInv, InHand
<1>3. RecordedInv'
  BY DEF SettleInv, RecordedInv, Settled, Summary
<1>4. ClosedInv' /\ Onward' /\ FailedRows'
  BY DEF SettleInv, ClosedInv, Onward, FailedRows
<1> QED
  BY <1>2, <1>3, <1>4 DEF SettleInv

\* A run begins with nothing passed, and ends with nothing in hand.
LEMMA ResetSettles ==
    ASSUME TypeInv, SettleInv, Start \/ Unwind \/ Crash PROVE SettleInv'
<1>1. /\ \A n \in Blocks : tasks'[n] = NoTask
      /\ next' = 1 /\ pc' \in {"plan", "off"} /\ version' = version /\ shards' = shards
      /\ opened' \in {opened, version}
  BY ResetTypes DEF Start, Unwind, Crash, Gone, Mishap, disk, history
<1>2. PassedInv'
  BY <1>1 DEF PassedInv, Blocks
<1>3. Onward'
  BY <1>1, OpenedTyped DEF TypeInv, SettleInv, Onward, NoTask
<1> QED
  BY <1>1, <1>2, <1>3 DEF SettleInv, RecordedInv, ClosedInv, FailedRows

\* A block that is skipped is ready under the inventories as they are.
LEMMA SkipSettles == ASSUME TypeInv, SettleInv, SkipReady PROVE SettleInv'
<1>1. pc = "plan" /\ pc' = "plan" /\ next \in Blocks /\ next' = next + 1
  BY NextIsBlock DEF TypeInv, SkipReady, Planning
<1>2. PICK n \in Blocks : n = next
  BY <1>1
<1>3. Ready(n, shards[n]) /\ Checkpoint(n, shards[n]) /\ shards[n] \in BlockRows
  BY <1>2, ReadyHasShard DEF TypeInv, TypeOK, StoreTypeOK, SkipReady
<1>4. /\ UNCHANGED <<manifest, tasks, taken, stopped, opened, version>>
  BY DEF SkipReady, history
<1>5. /\ shards'[n] = shards[n] /\ entries'[n] = Summary(shards[n])
      /\ \A m \in Blocks \ {n} : shards'[m] = shards[m] /\ entries'[m] = entries[m]
  BY <1>3, CheckpointTypes DEF Checkpoint, TypeInv, TypeOK, StoreTypeOK
<1>6. Settled(n)'
  <2>1. shards[n].status = "completed" /\ shards[n].stageIdentity.edition = version
    BY <1>3, IdentityTyped DEF Ready, TypeInv
  <2>2. opened <= version
    BY DEF SettleInv, Onward
  <2> QED
    BY <1>4, <1>5, <2>1, <2>2 DEF Settled, Summary
<1>7. \A m \in Blocks \ {n} : Settled(m) => Settled(m)'
  BY <1>4, <1>5, StaysSettled
<1>8. PassedInv'
  <2> SUFFICES ASSUME ~stopped, NEW m \in Blocks, m < next + 1
               PROVE  InHand(m)' \/ Settled(m)'
    BY <1>1, <1>4 DEF PassedInv
  <2>1. CASE m = n
    BY <1>6, <2>1
  <2>2. CASE m # n
    <3>1. m < next
      BY <1>1, <1>2, <2>2 DEF Blocks
    <3> QED
      BY <1>1, <1>4, <1>7, <2>2, <3>1 DEF SettleInv, PassedInv, InHand
  <2> QED
    BY <2>1, <2>2
<1>9. FailedRows'
  BY <1>5 DEF SettleInv, FailedRows
<1> QED
  BY <1>1, <1>4, <1>8, <1>9 DEF SettleInv, RecordedInv, ClosedInv, Onward

\* A full disk stops the run; a block that is taken is in hand.
LEMMA TakeSettles == ASSUME TypeInv, SettleInv, DiskFull \/ TakeBlock PROVE SettleInv'
<1>1. pc = "plan" /\ next \in Blocks /\ next' = next + 1
  BY NextIsBlock DEF TypeInv, DiskFull, TakeBlock, Planning
<1>2. PICK n \in Blocks : n = next
  BY <1>1
<1>3. /\ UNCHANGED <<shards, tasks, opened, version>>
      /\ entries' = [entries EXCEPT ![n] = Materialised(n)]
  BY <1>2 DEF DiskFull, TakeBlock, Mishap, disk, history
<1>4. \A m \in Blocks \ {n} : entries'[m] = entries[m]
  BY <1>3 DEF TypeInv, TypeOK, StoreTypeOK
<1>5. FailedRows'
  BY <1>3 DEF SettleInv, FailedRows
<1>6. CASE DiskFull
  <2>1. stopped' = TRUE /\ pc' = "plan" /\ taken' = taken
    BY <1>1, <1>6 DEF DiskFull
  <2> QED
    BY <1>1, <1>3, <1>5, <2>1 DEF SettleInv, PassedInv, RecordedInv, ClosedInv, Onward
<1>7. CASE TakeBlock
  <2>1. /\ stopped' = stopped /\ pc' = "begin"
        /\ taken'.number = n /\ taken'.before = EffectiveIdentity(n)
    BY <1>2, <1>7 DEF TakeBlock
  <2>2. taken'.before.edition = version /\ opened <= version
    BY <2>1, IdentityTyped DEF TypeInv, SettleInv, Onward
  <2>3. PassedInv'
    <3> SUFFICES ASSUME ~stopped, NEW m \in Blocks, m < next + 1, m # n
                 PROVE  InHand(m)' \/ Settled(m)'
      BY <1>1, <2>1 DEF PassedInv, InHand
    <3>1. m < next
      BY <1>1, <1>2 DEF Blocks
    <3>2. InHand(m) \/ Settled(m)
      BY <1>1, <3>1 DEF SettleInv, PassedInv
    <3>3. Settled(m) => Settled(m)'
      BY <1>3, <1>4, StaysSettled
    <3> QED
      BY <1>1, <1>3, <3>2, <3>3 DEF InHand
  <2> QED
    BY <1>3, <1>5, <2>1, <2>2, <2>3 DEF SettleInv, RecordedInv, ClosedInv, Onward
<1> QED
  BY <1>6, <1>7, <1>2 DEF DiskFull, TakeBlock

\* The row of a block in hand may become that of a running attempt.
LEMMA BeginSettles == ASSUME TypeInv, SettleInv, BeginBlock PROVE SettleInv'
<1>1. pc = "begin" /\ pc' = "submit" /\ taken.number \in Blocks
  BY DEF TypeInv, TakenInv, Handling, BeginBlock
<1>2. PICK n \in Blocks : n = taken.number
  BY <1>1
<1>3. PICK stored \in BlockRows : stored = StoredBlock(n)
  BY StoredTyped DEF TypeInv
<1>4. PICK row \in BlockRows : row = Begun(stored) /\ row.status = "running"
  BY BegunRow
<1>5. Checkpoint(n, row)
  BY <1>2, <1>3, <1>4 DEF BeginBlock
<1>6. UNCHANGED <<manifest, tasks, taken, stopped, next, opened, version>>
  BY DEF BeginBlock, locals, history
<1>7. /\ shards'[n] = row
      /\ \A m \in Blocks \ {n} : shards'[m] = shards[m] /\ entries'[m] = entries[m]
  BY <1>5, CheckpointTypes DEF TypeInv
<1>8. \A m \in Blocks \ {n} : Settled(m) => Settled(m)'
  BY <1>6, <1>7, StaysSettled
<1>9. PassedInv'
  BY <1>1, <1>2, <1>6, <1>8 DEF SettleInv, PassedInv, InHand
<1>10. FailedRows'
  BY <1>4, <1>7 DEF SettleInv, FailedRows
<1> QED
  BY <1>1, <1>6, <1>9, <1>10 DEF SettleInv, RecordedInv, ClosedInv, Onward

\* The block in hand goes to a worker.
LEMMA SubmitSettles == ASSUME TypeInv, SettleInv, Submit PROVE SettleInv'
<1>1. pc = "submit" /\ pc' \in {"plan", "wait"} /\ taken.number \in Blocks
  BY DEF TypeInv, TakenInv, Handling, Submit
<1>2. PICK n \in Blocks : n = taken.number
  BY <1>1
<1>3. /\ UNCHANGED <<shards, entries, stopped, next, opened, version>>
      /\ tasks' = [tasks EXCEPT ![n] = [state |-> "collecting", before |-> taken.before]]
  BY <1>2 DEF Submit
<1>4. /\ tasks'[n].state = "collecting" /\ tasks'[n].before = taken.before
      /\ \A m \in Blocks \ {n} : tasks'[m] = tasks[m]
  BY <1>3 DEF TypeInv, TypeOK
<1>5. \A m \in Blocks : Settled(m) => Settled(m)'
  BY <1>3, StaysSettled
<1>6. PassedInv'
  BY <1>1, <1>2, <1>3, <1>4, <1>5 DEF SettleInv, PassedInv, InHand
<1>7. Onward'
  BY <1>1, <1>3, <1>4 DEF SettleInv, Onward
<1> QED
  BY <1>1, <1>3, <1>6, <1>7 DEF SettleInv, RecordedInv, ClosedInv, FailedRows

\* An outcome settles its block: a success under the identity it was taken up with.
LEMMA OutcomeSettles ==
    ASSUME TypeInv, SettleInv, NEW n \in Blocks, NEW before \in Identities,
           NEW succeeded \in BOOLEAN, succeeded => opened <= before.edition,
           Checkpoint(n, Recorded(n, shards[n], before, succeeded)),
           UNCHANGED <<manifest, tasks, stopped, next, opened, version>>,
           pc \in {"record", "recorded"}, pc' = "recorded", taken'.number = n
    PROVE  SettleInv'
<1>1. shards[n] \in BlockRows
  BY DEF TypeInv, TypeOK, StoreTypeOK
<1>2. PICK row \in BlockRows : row = Recorded(n, shards[n], before, succeeded)
  BY <1>1, RecordedRow
<1>3. /\ row.status = IF succeeded THEN "completed" ELSE "failed"
      /\ succeeded => row.stageIdentity = before
      /\ row.complete => succeeded
  BY <1>2 DEF Recorded
<1>4. Checkpoint(n, row)
  BY <1>2
<1>5. /\ shards'[n] = row /\ entries'[n] = Summary(row)
      /\ \A m \in Blocks \ {n} : shards'[m] = shards[m] /\ entries'[m] = entries[m]
  BY <1>4, CheckpointTypes DEF Checkpoint, TypeInv, TypeOK, StoreTypeOK
<1>6. Settled(n)'
  BY <1>3, <1>5 DEF Settled, Summary
<1>7. \A m \in Blocks : Settled(m) => Settled(m)'
  BY <1>5, <1>6, StaysSettled
<1>8. PassedInv'
  BY <1>7 DEF SettleInv, PassedInv, InHand
<1>9. RecordedInv'
  BY <1>6 DEF RecordedInv, Settled
<1>10. FailedRows'
  BY <1>3, <1>5 DEF SettleInv, FailedRows
<1> QED
  BY <1>8, <1>9, <1>10 DEF SettleInv, ClosedInv, Onward

\* Outcomes are recorded, and recorded again when a write fails.
LEMMA RecordSettles ==
    ASSUME TypeInv, ReportsInv, SettleInv, RecordAgain \/ \E n \in Blocks : Record(n)
    PROVE  SettleInv'
<1>1. CASE RecordAgain
  <2>1. taken.number \in Blocks /\ taken.before \in Identities
    BY <1>1 DEF TypeInv, TypeOK, TakenInv, Handling, RecordAgain
  <2>2. PICK n \in Blocks : n = taken.number
    BY <2>1
  <2>3. /\ Checkpoint(n, Recorded(n, shards[n], taken.before, FALSE))
        /\ UNCHANGED <<manifest, tasks, stopped, next, opened, version>>
        /\ pc = "recorded" /\ pc' = "recorded" /\ taken'.number = n
    BY <1>1, <2>2 DEF RecordAgain, Mishap
  <2> QED
    BY <2>1, <2>3, OutcomeSettles
<1>2. ASSUME NEW n \in Blocks, Record(n)
      PROVE  SettleInv'
  <2>1. tasks[n].before \in Identities
    BY DEF TypeInv, TypeOK
  <2>2. PICK succeeded \in BOOLEAN : succeeded = (tasks[n].state = "ok")
    OBVIOUS
  <2>3. /\ Checkpoint(n, Recorded(n, shards[n], tasks[n].before, succeeded))
        /\ UNCHANGED <<manifest, tasks, stopped, next, opened, version>>
        /\ pc = "record" /\ pc' = "recorded" /\ taken'.number = n
    BY <1>2, <2>2 DEF Record, history
  <2>4. succeeded => opened <= tasks[n].before.edition
    BY <2>2 DEF SettleInv, Onward
  <2> QED
    BY <2>1, <2>3, <2>4, OutcomeSettles
<1> QED
  BY <1>1, <1>2

\* What leaves the pool has been recorded.
LEMMA LeaveSettles == ASSUME TypeInv, SettleInv, Settle PROVE SettleInv'
<1>1. pc = "recorded" /\ pc' \in {"unwind", "plan", "record"} /\ taken.number \in Blocks
  BY DEF TypeInv, TakenInv, Handling, Settle
<1>2. PICK n \in Blocks : n = taken.number
  BY <1>1
<1>3. /\ UNCHANGED <<shards, entries, stopped, next, opened, version>>
      /\ tasks' = [tasks EXCEPT ![n] = NoTask]
  BY <1>2 DEF Settle, history
<1>4. tasks'[n] = NoTask /\ \A m \in Blocks \ {n} : tasks'[m] = tasks[m]
  BY <1>3 DEF TypeInv, TypeOK
<1>5. \A m \in Blocks : Settled(m) => Settled(m)'
  BY <1>3, StaysSettled
<1>6. Settled(n)
  BY <1>1, <1>2 DEF SettleInv, RecordedInv
<1>7. PassedInv'
  BY <1>1, <1>3, <1>4, <1>5, <1>6 DEF SettleInv, PassedInv, InHand
<1>8. Onward'
  BY <1>1, <1>3, <1>4 DEF SettleInv, Onward, NoTask
<1> QED
  BY <1>1, <1>3, <1>7, <1>8 DEF SettleInv, RecordedInv, ClosedInv, FailedRows

\* Workers have their blocks in hand until they are recorded.
LEMMA WorkerSettles ==
    ASSUME TypeInv, SettleInv, NEW n \in Blocks, WorkerStep(n) \/ InterruptBootstrap(n)
    PROVE  SettleInv'
<1>1. /\ tasks[n].state = "collecting"
      /\ UNCHANGED <<shards, manifest, entries, taken, stopped, next, opened, version, pc>>
  BY DEF WorkerStep, Collect, CollectFails, InterruptBootstrap, Mishap, storeVars, disk, history
<1>2. /\ tasks'[n].state \in {"ok", "error"} /\ tasks'[n].before = tasks[n].before
      /\ \A m \in Blocks \ {n} : tasks'[m] = tasks[m]
  BY TasksTyped DEF TypeInv, TaskStates, WorkerStep, Collect, CollectFails, InterruptBootstrap
<1>3. \A m \in Blocks : Settled(m) => Settled(m)'
  BY <1>1, StaysSettled
<1>4. PassedInv'
  BY <1>1, <1>2, <1>3 DEF SettleInv, PassedInv, InHand
<1>5. RecordedInv'
  BY <1>1 DEF SettleInv, RecordedInv, Settled, Summary
<1>6. Onward' /\ ClosedInv'
  BY <1>1, <1>2 DEF SettleInv, Onward, ClosedInv
<1>7. FailedRows'
  BY <1>1 DEF SettleInv, FailedRows
<1> QED
  BY <1>4, <1>5, <1>6, <1>7 DEF SettleInv

\* The last manifest is what the run has in memory; later inventories change nothing.
LEMMA CloseSettles ==
    ASSUME TypeInv, SettleInv, Close \/ (InventoryChanges /\ UNCHANGED <<pc, locals, history>>)
    PROVE  SettleInv'
<1>1. /\ UNCHANGED <<shards, entries, tasks, taken, stopped, next, opened>>
      /\ version' \in {version, version + 1}
      /\ \/ pc = "close" /\ pc' = "returned" /\ manifest' = entries
         \/ UNCHANGED <<pc, manifest>>
  BY DEF Close, InventoryChanges, locals, history
<1>2. \A n \in Blocks : Settled(n) => Settled(n)'
  BY <1>1, StaysSettled
<1>3. PassedInv'
  BY <1>1, <1>2 DEF SettleInv, PassedInv, InHand
<1>4. RecordedInv'
  BY <1>1 DEF SettleInv, RecordedInv, Settled, Summary
<1>5. Onward'
  BY <1>1, OpenedTyped DEF TypeInv, SettleInv, Onward
<1> QED
  BY <1>1, <1>3, <1>4, <1>5 DEF SettleInv, ClosedInv, FailedRows

\* Every step keeps SettleInv.
LEMMA NextSettles ==
    ASSUME TypeInv, ReportsInv, SettleInv, [Next]_vars PROVE SettleInv'
<1>1. CASE NothingToSchedule
  <2>1. Active = {} => \A n \in Blocks : tasks[n].state = "none"
    BY DEF Active
  <2> QED
    BY <1>1, <2>1, QuietSettles DEF NothingToSchedule, storeVars, disk, locals, history
<1>2. CASE Wait \/ Abort \/ UNCHANGED vars
  BY <1>2, QuietSettles
     DEF Wait, Abort, Mishap, vars, storeVars, disk, locals, history
<1>3. ASSUME NEW n \in Blocks, ReportRemoved(n)
      PROVE  SettleInv'
  BY <1>3, QuietSettles DEF ReportRemoved, Mishap, locals
<1> QED
  BY <1>1, <1>2, <1>3, ResetSettles, SkipSettles, TakeSettles, BeginSettles, SubmitSettles,
     RecordSettles, LeaveSettles, WorkerSettles, CloseSettles DEF Next, PlannerStep

\* What the planning thread has passed in this run is settled or still in hand, through
\* workers that end in any order and inventories that change.
THEOREM SettlesInductive == Spec => [](TypeInv /\ SettleInv)
<1>1. TypeInv /\ ReportsInv /\ SettleInv /\ [Next]_vars => SettleInv'
  BY NextSettles
<1>2. Init => SettleInv
  BY InitSettles
<1> QED
  BY <1>1, <1>2, ReportsInductive, PTL DEF Spec
-----------------------------------------------------------------------------
\* The variables keep their types: in particular no run takes up more blocks
\* than its limit (max_blocks_this_run).
THEOREM TypeCorrect == Spec => []TypeOK
<1>1. TypeInv => TypeOK
  BY DEF TypeInv
<1> QED
  BY <1>1, TypesInductive, PTL

\* Collections that were started are in the manifest on disk and in the shard,
\* and no two attempts of a block share a log, whatever interrupts the run.
THEOREM AttemptsAreKept == Spec => []AttemptsKept
<1>1. ASSUME TypeInv, AttemptsInv PROVE AttemptsKept
  <2> SUFFICES ASSUME NEW n \in Blocks,
                      NEW i \in DOMAIN shards[n].attempts,
                      NEW j \in DOMAIN shards[n].attempts,
                      i # j, shards[n].attempts[i].status # "running"
               PROVE  shards[n].attempts[i].log # shards[n].attempts[j].log
    BY <1>1 DEF AttemptsInv, Counted, AttemptsKept
  <2>1. /\ shards[n].attempts[i].log = i
        /\ shards[n].attempts[j].log \in {0, j}
    BY <1>1 DEF AttemptsInv, Numbered, NumberedRow
  <2>2. i # 0
    BY <1>1 DEF TypeInv, TypeOK, StoreTypeOK, BlockRows
  <2> QED
    BY <2>1, <2>2
<1> QED
  BY <1>1, AttemptsInductive, PTL

\* A complete row names the edition of the inventories that its report was
\* collected from, whatever changed between the two readings.
THEOREM CompleteRowsAreBacked == Spec => []CompleteFromNamedInventory
<1>1. TypeInv /\ ReportsInv => CompleteFromNamedInventory
  BY DEF ReportsInv
<1> QED
  BY <1>1, ReportsInductive, PTL

\* A run of any length that has gone through all planned blocks leaves none of them
\* running or untouched and a manifest that agrees with every shard, whatever was
\* interrupted before: _parallel_state_collection forgets no future of its pool.
THEOREM FullRunsSettle == Spec => []FullRunSettles
<1>1. ASSUME TypeInv, SettleInv PROVE FullRunSettles
  <2> SUFFICES ASSUME Full, NEW n \in Blocks
               PROVE  shards[n].status \in {"completed", "failed"} /\ manifest[n] = Summary(shards[n])
    BY DEF FullRunSettles
  <2>1. n < next
    BY <1>1, StudyStoreAssumption DEF Full, Blocks, TypeInv, TypeOK
  <2>2. ~InHand(n)
    BY <1>1 DEF Full, SettleInv, ClosedInv, InHand
  <2>3. Settled(n)
    BY <1>1, <2>1, <2>2 DEF Full, SettleInv, PassedInv
  <2> QED
    BY <1>1, <2>3 DEF Full, SettleInv, ClosedInv, Settled
<1> QED
  BY <1>1, SettlesInductive, PTL

\* When such a run claims complete coverage, every block was collected from
\* inventories no older than those the run found when it began (_summarize).
THEOREM FullRunsAreCurrent == Spec => []FullRunClaimsCurrent
<1>1. ASSUME TypeInv, SettleInv PROVE FullRunClaimsCurrent
  <2> SUFFICES ASSUME Full, ClaimsCoverage(manifest), NEW n \in Blocks
               PROVE  shards[n].status = "completed" /\ shards[n].stageIdentity.edition >= opened
    BY DEF FullRunClaimsCurrent
  <2>1. n < next
    BY <1>1, StudyStoreAssumption DEF Full, Blocks, TypeInv, TypeOK
  <2>2. ~InHand(n)
    BY <1>1 DEF Full, SettleInv, ClosedInv, InHand
  <2>3. Settled(n)
    BY <1>1, <2>1, <2>2 DEF Full, SettleInv, PassedInv
  <2>4. manifest[n].complete /\ manifest[n] = Summary(shards[n])
    BY <1>1, <2>3 DEF Full, SettleInv, ClosedInv, Settled, ClaimsCoverage
  <2>5. shards[n].status = "completed"
    BY <1>1, <2>3, <2>4 DEF SettleInv, FailedRows, Settled, Summary
  <2>6. opened \in Nat /\ shards[n].stageIdentity.edition \in Nat
    BY <1>1, OpenedTyped, StudyStoreAssumption
       DEF TypeInv, TypeOK, StoreTypeOK, BlockRows, Identities
  <2> QED
    BY <2>3, <2>5, <2>6 DEF Settled
<1> QED
  BY <1>1, SettlesInductive, PTL
-----------------------------------------------------------------------------
\* A block that has been handed out has been begun.
TasksBegun == \A n \in Blocks : tasks[n].state # "none" => begun[n] > 0

LedgerInv == TypeInv /\ AttemptsInv /\ TasksBegun
-----------------------------------------------------------------------------
LEMMA QuietTasks ==
    ASSUME TasksBegun, UNCHANGED begun,
           \A n \in Blocks : tasks'[n].state # "none" => tasks[n].state # "none"
    PROVE  TasksBegun'
  BY DEF TasksBegun

LEMMA WorkerTasks ==
    ASSUME TypeInv, TasksBegun, NEW n \in Blocks, WorkerStep(n) \/ InterruptBootstrap(n)
    PROVE  TasksBegun'
<1>1. PICK state \in TaskStates : tasks' = [tasks EXCEPT ![n].state = state]
  BY DEF WorkerStep, Collect, CollectFails, InterruptBootstrap, TaskStates
<1>2. /\ \A m \in Blocks \ {n} : tasks'[m] = tasks[m]
  BY <1>1, TasksTyped DEF TypeInv
<1>3. tasks[n].state # "none" /\ begun' = begun
  BY DEF WorkerStep, Collect, CollectFails, InterruptBootstrap, Mishap, history
<1> QED
  BY <1>2, <1>3, QuietTasks

LEMMA SubmitTasks == ASSUME TypeInv, TasksBegun, Submit PROVE TasksBegun'
<1>1. taken.number \in Blocks
  BY DEF TypeInv, TakenInv, Handling, Submit
<1>2. PICK n \in Blocks : n = taken.number
  BY <1>1
<1>3. begun \in [Blocks -> Nat] /\ tasks \in [Blocks -> [state : TaskStates, before : Identities]]
  BY DEF TypeInv, TypeOK
<1>4. /\ begun' = [begun EXCEPT ![n] = begun[n] + 1]
      /\ tasks' = [tasks EXCEPT ![n] = [state |-> "collecting", before |-> taken.before]]
  BY <1>2 DEF Submit
<1>5. begun'[n] > 0 /\ begun[n] \in Nat
  BY <1>3, <1>4
<1>6. \A m \in Blocks \ {n} : begun'[m] = begun[m] /\ tasks'[m] = tasks[m]
  BY <1>3, <1>4
<1> QED
  BY <1>5, <1>6 DEF TasksBegun

LEMMA DroppedTasks ==
    ASSUME TypeInv, TasksBegun, Start \/ Settle \/ Unwind \/ Crash PROVE TasksBegun'
<1>1. begun' = begun
  BY DEF Start, Settle, Unwind, Crash, Mishap, history
<1>2. CASE Settle
  <2>1. tasks \in [Blocks -> [state : TaskStates, before : Identities]]
    BY DEF TypeInv, TypeOK
  <2>2. \A n \in Blocks : tasks'[n] \in {NoTask, tasks[n]}
    BY <1>2, <2>1 DEF Settle
  <2> QED
    BY <1>1, <2>2, QuietTasks DEF NoTask
<1>3. CASE Start \/ Unwind \/ Crash
  <2>1. tasks' = [n \in Blocks |-> NoTask]
    BY <1>3 DEF Start, Unwind, Crash, Gone, Reset
  <2> QED
    BY <2>1 DEF TasksBegun, NoTask
<1> QED
  BY <1>2, <1>3

LEMMA NextTasks == ASSUME TypeInv, TasksBegun, [Next]_vars PROVE TasksBegun'
<1>1. CASE NothingToSchedule \/ SkipReady \/ DiskFull \/ TakeBlock \/ BeginBlock
           \/ Wait \/ RecordAgain \/ Close \/ Abort
  <2>1. tasks' = tasks /\ begun' = begun
    BY <1>1 DEF NothingToSchedule, SkipReady, DiskFull, TakeBlock, BeginBlock, Wait,
         RecordAgain, Close, Abort, Mishap, locals, history
  <2> QED
    BY <2>1, QuietTasks
<1>2. ASSUME NEW n \in Blocks, Record(n) \/ ReportRemoved(n) PROVE TasksBegun'
  <2>1. tasks' = tasks /\ begun' = begun
    BY <1>2 DEF Record, ReportRemoved, Mishap, locals, history
  <2> QED
    BY <2>1, QuietTasks
<1>3. CASE UNCHANGED vars \/ (InventoryChanges /\ UNCHANGED <<pc, locals, history>>)
  <2>1. tasks' = tasks /\ begun' = begun
    BY <1>3 DEF vars, locals, history
  <2> QED
    BY <2>1, QuietTasks
<1> QED
  BY <1>1, <1>2, <1>3, WorkerTasks, SubmitTasks, DroppedTasks DEF Next, PlannerStep

\* Together with types and attempts: a block that has been handed to a worker has been
\* begun (begin, then submit).
THEOREM LedgerInductive == Spec => []LedgerInv
<1>1. Init => LedgerInv
  BY InitTypes, InitAttempts DEF Init, LedgerInv, TasksBegun, NoTask
<1>2. LedgerInv /\ [Next]_vars => LedgerInv'
  BY NextTypes, NextAttempts, NextTasks DEF LedgerInv
<1> QED
  BY <1>1, <1>2, PTL DEF Spec
-----------------------------------------------------------------------------
LEMMA LoggedTyped == ASSUME TypeInv PROVE Logged \in [Blocks -> Nat]
  BY CountsTyped DEF TypeInv, Logged

\* The manifest in memory never counts less than the one on disk.
LEMMA WrittenGrows ==
    ASSUME LedgerInv, pc # "off", NEW n \in Blocks
    PROVE  /\ manifest[n].attempts <= entries[n].attempts
           /\ manifest[n].attempts \in Nat /\ entries[n].attempts \in Nat
  BY CountsTyped DEF LedgerInv, TypeInv, AttemptsInv, Between

\* Nothing is made; the manifest is left alone or grows; what is newly completed
\* was begun.
LEMMA RecordStep ==
    ASSUME LedgerInv, TypeInv', begun' = begun,
           \A n \in Blocks : manifest[n].attempts <= manifest'[n].attempts,
           \A n \in Blocks : shards'[n].status = "completed" =>
                                shards[n].status = "completed" \/ begun[n] > 0
    PROVE  Ledger!Record
<1>1. Logged' \in [Blocks -> Nat]
  <2>1. manifest' \in [Blocks -> Entries]
    BY DEF TypeInv, TypeOK, StoreTypeOK
  <2> QED
    BY <2>1 DEF Logged, Entries
<1>2. \A n \in Blocks : Logged'[n] >= Logged[n]
  BY CountsTyped DEF Logged, LedgerInv, TypeInv
<1>3. Completed' \subseteq Blocks /\ \A n \in Completed' \ Completed : begun[n] > 0
  BY DEF Completed
<1> QED
  BY <1>1, <1>2, <1>3 DEF Ledger!Record

LEMMA QuietStep ==
    ASSUME UNCHANGED <<shards, manifest, begun>>
    PROVE  UNCHANGED Ledger!ledger
  BY DEF Ledger!ledger, Logged, Completed

LEMMA WriteStep ==
    ASSUME LedgerInv, TypeInv', DiskFull \/ Settle \/ Close PROVE Ledger!Record
<1>1. shards' = shards /\ begun' = begun /\ manifest' = entries' /\ pc # "off"
  BY DEF DiskFull, Planning, Settle, Close, Mishap, history
<1>2. CASE Settle \/ Close
  <2>1. entries' = entries
    BY <1>2 DEF Settle, Close
  <2> QED
    BY <1>1, <2>1, WrittenGrows, RecordStep
<1>3. CASE DiskFull
  <2>1. next \in Blocks /\ entries' = [entries EXCEPT ![next] = Materialised(next)]
    BY <1>3, NextIsBlock DEF DiskFull, LedgerInv, TypeInv
  <2>2. \A n \in Blocks : entries'[n].attempts = entries[n].attempts
    BY <1>1, <2>1, MaterialisedAttempts DEF LedgerInv
  <2> QED
    BY <1>1, <2>2, WrittenGrows, RecordStep
<1> QED
  BY <1>2, <1>3

\* Replacing a shard makes a claim only where the block was begun.
LEMMA ShardStep ==
    ASSUME LedgerInv, TypeInv', NEW n \in Blocks, NEW row,
           Checkpoint(n, row), UNCHANGED <<manifest, begun>>,
           row.status = "completed" => shards[n].status = "completed" \/ begun[n] > 0
    PROVE  Ledger!Record
<1>1. shards \in [Blocks -> BlockRows]
  BY DEF LedgerInv, TypeInv, TypeOK, StoreTypeOK
<1>2. shards'[n] = row /\ \A m \in Blocks \ {n} : shards'[m] = shards[m]
  BY <1>1 DEF Checkpoint
<1>3. \A m \in Blocks : manifest[m].attempts <= manifest'[m].attempts
  BY CountsTyped DEF LedgerInv, TypeInv
<1> QED
  BY <1>2, <1>3, RecordStep

LEMMA ReplaceStep ==
    ASSUME LedgerInv, TypeInv',
           SkipReady \/ BeginBlock \/ RecordAgain \/ \E n \in Blocks : Record(n)
    PROVE  Ledger!Record
<1>1. CASE SkipReady
  <2>1. next \in Blocks
    BY <1>1, NextIsBlock DEF SkipReady, LedgerInv, TypeInv
  <2>2. Checkpoint(next, StoredBlock(next)) /\ UNCHANGED <<manifest, begun>>
    BY <1>1 DEF SkipReady, history
  <2>3. StoredBlock(next).status = "completed" => shards[next].status = "completed"
    BY DEF StoredBlock, EmptyBlock
  <2> QED
    BY <2>1, <2>2, <2>3, ShardStep
<1>2. CASE BeginBlock
  <2>1. taken.number \in Blocks
    BY <1>2 DEF LedgerInv, TypeInv, TakenInv, Handling, BeginBlock
  <2>2. PICK n \in Blocks : n = taken.number
    BY <2>1
  <2>3. Checkpoint(n, Begun(StoredBlock(n))) /\ UNCHANGED <<manifest, begun>>
    BY <1>2, <2>2 DEF BeginBlock, history
  <2>4. StoredBlock(n) \in BlockRows
    BY StoredTyped DEF LedgerInv, TypeInv
  <2>5. Begun(StoredBlock(n)).status = "running"
    BY <2>4 DEF Begun, BlockRows
  <2> QED
    BY <2>3, <2>5, ShardStep
<1>3. CASE RecordAgain
  <2>1. taken.number \in Blocks
    BY <1>3 DEF LedgerInv, TypeInv, TakenInv, Handling, RecordAgain
  <2>2. PICK n \in Blocks : n = taken.number
    BY <2>1
  <2>3. Checkpoint(n, Recorded(n, shards[n], taken.before, FALSE))
        /\ UNCHANGED <<manifest, begun>>
    BY <1>3, <2>2 DEF RecordAgain, Mishap
  <2>4. Recorded(n, shards[n], taken.before, FALSE).status = "failed"
    BY DEF Recorded
  <2> QED
    BY <2>3, <2>4, ShardStep
<1>4. ASSUME NEW n \in Blocks, Record(n) PROVE Ledger!Record
  <2>1. Checkpoint(n, Recorded(n, shards[n], tasks[n].before, tasks[n].state = "ok"))
        /\ UNCHANGED <<manifest, begun>>
    BY <1>4 DEF Record, history
  <2>2. Recorded(n, shards[n], tasks[n].before, tasks[n].state = "ok").status = "completed"
        => tasks[n].state = "ok"
    BY DEF Recorded
  <2>3. tasks[n].state = "ok" => begun[n] > 0
    BY DEF LedgerInv, TasksBegun
  <2> QED
    BY <2>1, <2>2, <2>3, ShardStep
<1> QED
  BY <1>1, <1>2, <1>3, <1>4

\* The manifest is written, and only then does the worker begin.
LEMMA SubmitStep ==
    ASSUME LedgerInv, TypeInv', Submit PROVE \E n \in Blocks : Ledger!Make(n)
<1>1. pc = "submit" /\ taken.number \in Blocks
  BY DEF LedgerInv, TypeInv, TakenInv, Handling, Submit
<1>2. PICK n \in Blocks : n = taken.number
  BY <1>1
<1>3. /\ shards' = shards /\ manifest' = entries
      /\ begun' = [begun EXCEPT ![n] = begun[n] + 1]
  BY <1>2 DEF Submit
<1>4. begun[n] < entries[n].attempts
  BY <1>1, <1>2 DEF LedgerInv, AttemptsInv, OnRecord
<1>5. Logged' = [m \in Blocks |-> entries[m].attempts]
  BY <1>3 DEF Logged
<1>6. Logged' \in [Blocks -> Nat]
  BY <1>5, CountsTyped DEF LedgerInv, TypeInv
<1>7. \A m \in Blocks : Logged'[m] >= Logged[m]
  BY <1>1, <1>5, WrittenGrows DEF Logged
<1>8. begun[n] < Logged'[n]
  BY <1>4, <1>5
<1>9. Completed' = Completed
  BY <1>3 DEF Completed
<1>10. Ledger!Make(n)
  BY <1>3, <1>6, <1>7, <1>8, <1>9 DEF Ledger!Make
<1> QED
  BY <1>10

LEMMA StepRefined ==
    ASSUME LedgerInv, TypeInv', [Next]_vars PROVE [Ledger!Next]_(Ledger!ledger)
<1>1. CASE NothingToSchedule \/ TakeBlock \/ Wait \/ Unwind \/ Abort \/ Crash \/ Start
  <2>1. UNCHANGED <<shards, manifest, begun>>
    BY <1>1 DEF NothingToSchedule, TakeBlock, Wait, Unwind, Abort, Crash, Start, Gone,
         Mishap, disk, storeVars, history
  <2> QED
    BY <2>1, QuietStep
<1>2. ASSUME NEW n \in Blocks, WorkerStep(n) \/ InterruptBootstrap(n) \/ ReportRemoved(n)
      PROVE  UNCHANGED Ledger!ledger
  <2>1. UNCHANGED <<shards, manifest, begun>>
    BY <1>2 DEF WorkerStep, Collect, CollectFails, InterruptBootstrap, ReportRemoved,
         Mishap, disk, storeVars, history
  <2> QED
    BY <2>1, QuietStep
<1>3. CASE UNCHANGED vars \/ (InventoryChanges /\ UNCHANGED <<pc, locals, history>>)
  <2>1. UNCHANGED <<shards, manifest, begun>>
    BY <1>3 DEF vars, InventoryChanges, disk, storeVars, history
  <2> QED
    BY <2>1, QuietStep
<1>4. CASE DiskFull \/ Settle \/ Close
  BY <1>4, WriteStep DEF Ledger!Next
<1>5. CASE SkipReady \/ BeginBlock \/ RecordAgain \/ \E n \in Blocks : Record(n)
  BY <1>5, ReplaceStep DEF Ledger!Next
<1>6. CASE Submit
  BY <1>6, SubmitStep DEF Ledger!Next
<1> QED
  BY <1>1, <1>2, <1>3, <1>4, <1>5, <1>6 DEF Next, PlannerStep

LEMMA InitRefined == ASSUME Init PROVE Ledger!Init
<1>1. Logged = [n \in Blocks |-> 0]
  BY DEF Init, StoreInit, NoManifest, Absent, Logged
<1>2. Completed = {}
  BY DEF Init, StoreInit, EmptyBlock, Completed
<1> QED
  BY <1>1, <1>2 DEF Init, Ledger!Init

\* The parallel collection of states implements the ledger: an attempt is on
\* record before a worker makes it, no recorded attempt is forgotten, and no
\* block is completed that was never attempted (begin, record, _write).
THEOREM LedgerImplemented == Spec => Ledger!Spec
<1>1. Init => Ledger!Init
  BY InitRefined
<1>2. LedgerInv /\ LedgerInv' /\ [Next]_vars => [Ledger!Next]_(Ledger!ledger)
  BY StepRefined DEF LedgerInv
<1> QED
  BY <1>1, <1>2, LedgerInductive, PTL DEF Spec, Ledger!Spec
-----------------------------------------------------------------------------
(* The serial loop.                                                        *)
\* Where a block is in hand.
Working == {"opened", "stage", "begun", "staging", "cover", "quote", "quoting", "filed",
            "close", "closed"}

\* A block in hand has the stages of its shard, which the manifest knows of before a
\* stage is begun.
BlockInHand ==
    at \in Working =>
        /\ here.number \in Serial!Planned
        /\ block.stages = blocks[here.number].stages
        /\ known[here.number].shard
        /\ at # "opened" => book[here.number].shard

\* A stage that is being run, or a quote that is being made.
StepInHand ==
    /\ at \in {"begun", "staging"} => here.stage \in Serial!Stages
    /\ at \in {"quoting", "filed"} => here.job \in Serial!Jobs

SerialTypes == Serial!TypeOK /\ BlockInHand /\ StepInHand

\* The process knows every shard the manifest does.
Knows == at # "off" => \A n \in Serial!Planned : book[n].shard => known[n].shard

\* Attempts on record, in the shards the manifest knows of, are no fewer than those made.
Counts ==
    /\ \A n \in Serial!Planned, s \in Serial!Stages :
          started[n][s] <= Serial!Row(<<n, s>>).attempts
    /\ at = "begun" =>
          started[here.number][here.stage] < blocks[here.number].stages[here.stage].attempts

\* A stage is completed after it was started.
Claims ==
    /\ \A n \in Serial!Planned, s \in Serial!Stages :
          blocks[n].stages[s].status = "completed" => started[n][s] > 0
    /\ at = "staging" => started[here.number][here.stage] > 0

SerialLedgerInv == Knows /\ Counts /\ Claims

\* A block that claims coverage has completed its stages, under inventories no older than
\* those the run began with.
Covered(b) ==
    b.complete => /\ ran.opened <= b.inventory
                  /\ \A s \in Serial!Stages : b.stages[s].status = "completed"

\* A completed quote was made on inventories no older than those it was asked under.
MadeAfter(b) ==
    \A j \in Serial!Jobs :
        b.scenarios[j].status = "completed" => b.scenarios[j].inventory <= b.scenarios[j].digest

\* A quote that this run has settled, and its report.
QuoteSettled(q, report) ==
    /\ q.status \in {"completed", "failed"}
    /\ q.status = "completed" => report = q.digest /\ ran.opened <= q.inventory

\* What the run has passed of the blocks, and of the block in hand.
BlockPassed(n) ==
    /\ known[n] = Serial!Summarised(blocks[n])
    /\ Covered(blocks[n])
    /\ Serial!Quotable =>
          \A j \in Serial!Jobs : QuoteSettled(blocks[n].scenarios[j], quotes[n][j])

Passing ==
    /\ at # "off" => \A n \in Serial!Planned : n < here.number => BlockPassed(n)
    /\ at = "closed" => BlockPassed(here.number)
    /\ at = "returned" => book = known

InHandCovered ==
    /\ ran.opened <= edition
    /\ at \in {"quote", "quoting", "filed", "close"} => Covered(block)

InHandQuoted ==
    /\ at \in {"opened", "stage", "begun", "staging", "cover"} => here.job = 1
    /\ at = "close" => ~Serial!Quotable
    /\ at \in {"quote", "quoting", "filed"} =>
          /\ ran.opened <= here.inventory /\ here.inventory <= edition
          /\ \A j \in Serial!Jobs :
                j < here.job => QuoteSettled(block.scenarios[j], quotes[here.number][j])
    /\ at \in {"quoting", "filed"} => block.scenarios[here.job].inventory = here.inventory
    /\ at = "filed" => here.inventory <= quotes[here.number][here.job]

Made == MadeAfter(block) /\ \A n \in Serial!Planned : MadeAfter(blocks[n])

SerialRunInv == Passing /\ InHandCovered /\ InHandQuoted /\ Made
-----------------------------------------------------------------------------
Summaries == [shard : BOOLEAN, complete : BOOLEAN, completed : 0 .. NumJobs]

\* Blocks, stages, jobs and editions are numbered from one.
LEMMA SerialNumbers ==
    /\ SerialBlocks \in Nat /\ 1 <= SerialBlocks /\ NumStages \in Nat /\ 1 <= NumStages
    /\ NumJobs \in Nat /\ 1 <= NumJobs /\ SerialVersions \in Nat /\ 1 <= SerialVersions
    /\ SerialLimits \subseteq Nat \ {0} /\ MaxRuns \in Nat /\ SerialMishaps \in Nat
<1>1. /\ SerialBlocks \in Nat \ {0} /\ NumStages \in Nat \ {0} /\ NumJobs \in Nat \ {0}
      /\ SerialVersions \in Nat \ {0}
  BY SerialAssumption DEF Serial!StudyRunnerAssumption
<1>2. SerialLimits \subseteq Nat \ {0} /\ MaxRuns \in Nat /\ SerialMishaps \in Nat
  BY SerialAssumption DEF Serial!StudyRunnerAssumption
<1> QED
  BY <1>1, <1>2

\* A block that has no shard is one.
LEMMA NewBlockTyped == Serial!NewBlock \in Serial!BlockFiles
<1>1. 0 \in Serial!Editions
  BY SerialNumbers DEF Serial!Editions
<1>2. [status |-> "none", attempts |-> 0] \in Serial!StageRows
  BY DEF Serial!StageRows
<1>3. [status |-> "none", inventory |-> 0, digest |-> 0] \in Serial!Quotes
  BY <1>1 DEF Serial!Quotes
<1> QED
  BY <1>1, <1>2, <1>3 DEF Serial!NewBlock, Serial!BlockFiles

\* What a manifest says of a block.
LEMMA SummaryTyped ==
    ASSUME NEW b \in Serial!BlockFiles
    PROVE  /\ Serial!Summarised(b) \in Summaries
           /\ Serial!Summarised(b).shard /\ Serial!Summarised(b).complete = b.complete
<1> DEFINE finished == {j \in Serial!Jobs : b.scenarios[j].status = "completed"}
<1>1. IsFiniteSet(1 .. NumJobs) /\ Cardinality(1 .. NumJobs) = NumJobs
  BY SerialNumbers, FS_Interval
<1>2. finished \subseteq 1 .. NumJobs
  BY DEF Serial!Jobs
<1>3. Cardinality(finished) \in Nat /\ Cardinality(finished) <= NumJobs
  BY <1>1, <1>2, FS_Subset, FS_CardinalityType
<1>4. Cardinality(finished) \in 0 .. NumJobs
  BY <1>3, SerialNumbers
<1>5. b.complete \in BOOLEAN
  BY DEF Serial!BlockFiles
<1>6. Serial!Cardinality(finished) = Cardinality(finished)
  BY DEF Serial!Cardinality, Cardinality
<1> QED
  BY <1>4, <1>5, <1>6 DEF Serial!Summarised, Summaries

\* _checkpoint_block replaces one shard and its summary.
LEMMA Filed ==
    ASSUME Serial!TypeOK, NEW n \in Serial!Planned, here.number = n,
           NEW b \in Serial!BlockFiles, Serial!File(b)
    PROVE  /\ blocks' \in [Serial!Planned -> Serial!BlockFiles]
           /\ known' \in [Serial!Planned -> Summaries]
           /\ blocks'[n] = b /\ known'[n] = Serial!Summarised(b) /\ known'[n].shard
           /\ \A m \in Serial!Planned \ {n} : blocks'[m] = blocks[m] /\ known'[m] = known[m]
<1>1. Serial!Summarised(b) \in Summaries /\ Serial!Summarised(b).shard
  BY SummaryTyped
<1>2. /\ blocks \in [Serial!Planned -> Serial!BlockFiles]
      /\ known \in [Serial!Planned -> Summaries]
  BY DEF Serial!TypeOK, Summaries
<1>3. /\ blocks' = [blocks EXCEPT ![n] = b]
      /\ known' = [known EXCEPT ![n] = Serial!Summarised(b)]
  BY DEF Serial!File
<1> QED
  BY <1>1, <1>2, <1>3

\* One stage of a block changes.
LEMMA StageChanged ==
    ASSUME NEW b \in Serial!BlockFiles, NEW s \in Serial!Stages, NEW row \in Serial!StageRows
    PROVE  LET c == [b EXCEPT !.stages[s] = row] IN
           /\ c \in Serial!BlockFiles
           /\ c.stages[s] = row /\ \A t \in Serial!Stages \ {s} : c.stages[t] = b.stages[t]
           /\ c.scenarios = b.scenarios /\ c.inventory = b.inventory /\ c.complete = b.complete
<1> DEFINE stages == [b.stages EXCEPT ![s] = row]
<1>1. b.stages \in [Serial!Stages -> Serial!StageRows]
  BY DEF Serial!BlockFiles
<1>2. /\ stages \in [Serial!Stages -> Serial!StageRows]
      /\ stages[s] = row /\ \A t \in Serial!Stages \ {s} : stages[t] = b.stages[t]
  BY <1>1
<1>3. [b EXCEPT !.stages[s] = row] = [b EXCEPT !.stages = stages]
  OBVIOUS
<1> HIDE DEF stages
<1> QED
  BY <1>2, <1>3 DEF Serial!BlockFiles

\* One quote of a block changes.
LEMMA QuoteChanged ==
    ASSUME NEW b \in Serial!BlockFiles, NEW j \in Serial!Jobs, NEW q \in Serial!Quotes
    PROVE  LET c == [b EXCEPT !.scenarios[j] = q] IN
           /\ c \in Serial!BlockFiles
           /\ c.scenarios[j] = q /\ \A i \in Serial!Jobs \ {j} : c.scenarios[i] = b.scenarios[i]
           /\ c.stages = b.stages /\ c.inventory = b.inventory /\ c.complete = b.complete
<1> DEFINE scenarios == [b.scenarios EXCEPT ![j] = q]
<1>1. b.scenarios \in [Serial!Jobs -> Serial!Quotes]
  BY DEF Serial!BlockFiles
<1>2. /\ scenarios \in [Serial!Jobs -> Serial!Quotes]
      /\ scenarios[j] = q /\ \A i \in Serial!Jobs \ {j} : scenarios[i] = b.scenarios[i]
  BY <1>1
<1>3. [b EXCEPT !.scenarios[j] = q] = [b EXCEPT !.scenarios = scenarios]
  OBVIOUS
<1> HIDE DEF scenarios
<1> QED
  BY <1>2, <1>3 DEF Serial!BlockFiles
-----------------------------------------------------------------------------
(* Types.                                                                  *)
Places == [number : 1 .. SerialBlocks + 1, stage : 1 .. NumStages + 1,
           job : 1 .. NumJobs + 1, inventory : Serial!Editions]
Runs == [mode : Serial!Modes, limit : SerialLimits \cup {0}, processed : Nat, stopped : BOOLEAN]

\* The type of a manifest, of a place and of a run.
LEMMA PlaceTyped ==
    Serial!TypeOK => /\ here \in Places /\ run \in Runs
                     /\ book \in [Serial!Planned -> Summaries]
                     /\ known \in [Serial!Planned -> Summaries]
  BY DEF Serial!TypeOK, Places, Runs, Summaries

\* What goes wrong is counted.
LEMMA TroubleTyped == ASSUME Serial!TypeOK, Serial!Trouble PROVE troubles' \in 0 .. SerialMishaps
  BY SerialNumbers DEF Serial!TypeOK, Places, Runs, Serial!Trouble

\* At first nothing is in hand.
LEMMA InitSerialTypes == ASSUME Serial!Init PROVE SerialTypes
<1>1. Serial!TypeOK
  BY NewBlockTyped, SerialNumbers
     DEF Serial!Init, Serial!TypeOK, Serial!NoBook, Serial!Unknown, Serial!Idle, Serial!NoRun,
         Serial!Quiet, Serial!Modes, Serial!Editions
<1> QED
  BY <1>1 DEF Serial!Init, SerialTypes, BlockInHand, StepInHand, Working

\* The next run begins with what is on disk.
LEMMA StartSerialTypes == ASSUME SerialTypes, Serial!Start PROVE SerialTypes'
<1>1. at' = "next" /\ here' = Serial!Idle /\ block' = Serial!NewBlock /\ known' = book
  BY DEF Serial!Start
<1>2. run' \in Runs
  BY DEF Serial!Start, Runs
<1>3. ran' \in [count : 0 .. MaxRuns, opened : Serial!Editions]
  BY SerialNumbers DEF SerialTypes, Serial!TypeOK, Places, Runs, Serial!Start
<1>4. here' \in Places
  BY <1>1, SerialNumbers DEF Serial!Idle, Serial!Editions, Places
<1>5. Serial!TypeOK'
  BY <1>1, <1>2, <1>3, <1>4, NewBlockTyped
     DEF Places, Runs, SerialTypes, Serial!TypeOK, Serial!Start, Serial!runnerDisk
<1> QED
  BY <1>1, <1>5 DEF SerialTypes, BlockInHand, StepInHand, Working

\* Steps that write the manifest, or only move on.
LEMMA MoveSerialTypes ==
    ASSUME SerialTypes,
           \/ Serial!DiskFull \/ Serial!LimitReached \/ Serial!Finish \/ Serial!EditionChanges
           \/ UNCHANGED serialVars
    PROVE  SerialTypes'
<1>1. Serial!TypeOK'
  <2>1. CASE Serial!DiskFull
    <3>1. run' \in Runs /\ troubles' \in 0 .. SerialMishaps
      BY <2>1, PlaceTyped, TroubleTyped DEF SerialTypes, Serial!DiskFull, Runs
    <3> QED
      BY <2>1, <3>1 DEF SerialTypes, Serial!TypeOK, Places, Runs, Serial!DiskFull, Runs
  <2>2. CASE Serial!LimitReached
    BY <2>2 DEF SerialTypes, Serial!TypeOK, Places, Runs, Serial!LimitReached, Serial!runnerDisk,
                Serial!runnerLocals
  <2>3. CASE Serial!Finish
    BY <2>3 DEF SerialTypes, Serial!TypeOK, Places, Runs, Serial!Finish, Serial!runnerLocals, Serial!Quiet
  <2>4. CASE Serial!EditionChanges
    BY <2>4, SerialNumbers
       DEF SerialTypes, Serial!TypeOK, Places, Runs, Serial!EditionChanges, Serial!runnerLocals, Serial!Editions
  <2>5. CASE UNCHANGED serialVars
    BY <2>5 DEF SerialTypes, Serial!TypeOK, Places, Runs, serialVars
  <2> QED
    BY <2>1, <2>2, <2>3, <2>4, <2>5
<1>2. /\ UNCHANGED <<blocks, known, block, here>>
      /\ at' \in {"finish", "returned"} \/ UNCHANGED <<at, book>>
  BY DEF Serial!DiskFull, Serial!LimitReached, Serial!Finish, Serial!EditionChanges,
         Serial!runnerDisk, Serial!runnerLocals, serialVars
<1> QED
  BY <1>1, <1>2 DEF SerialTypes, BlockInHand, StepInHand, Working

\* Where the loop is, it has a block before it.
LEMMA LoopingBlock ==
    ASSUME Serial!TypeOK, Serial!Looping
    PROVE  here.number \in Serial!Planned /\ Serial!Stored(here.number) \in Serial!BlockFiles
<1>1. here.number \in 1 .. SerialBlocks + 1 /\ here.number <= SerialBlocks
  BY DEF Serial!TypeOK, Places, Runs, Serial!Looping
<1>2. here.number \in Serial!Planned
  BY <1>1, SerialNumbers DEF Serial!Planned
<1> QED
  BY <1>2, NewBlockTyped DEF Serial!TypeOK, Places, Runs, Serial!Stored

\* A block is skipped, ...
LEMMA SkipSerialTypes == ASSUME SerialTypes, Serial!SkipAcquired PROVE SerialTypes'
<1>1. Serial!TypeOK /\ Serial!Looping
  BY DEF SerialTypes, Serial!SkipAcquired
<1>2. PICK n \in Serial!Planned : here.number = n /\ Serial!Stored(n) \in Serial!BlockFiles
  BY <1>1, LoopingBlock
<1>3. PICK b \in Serial!BlockFiles : b = Serial!Stored(n)
  BY <1>2
<1>4. Serial!File(b)
  BY <1>2, <1>3 DEF Serial!SkipAcquired
<1>5. /\ blocks' \in [Serial!Planned -> Serial!BlockFiles]
      /\ known' \in [Serial!Planned -> Summaries]
  BY <1>1, <1>2, <1>4, Filed
<1>6. here' \in Places
  <2>1. n + 1 \in 1 .. SerialBlocks + 1
    BY SerialNumbers DEF Serial!Planned
  <2>2. here' = [here EXCEPT !.number = n + 1]
    BY <1>2 DEF Serial!SkipAcquired
  <2> QED
    BY <1>1, <2>1, <2>2, PlaceTyped DEF Places
<1>7. at' = "next" /\ UNCHANGED <<book, quotes, edition, block, run, ran, started, troubles>>
  BY <1>1 DEF Serial!SkipAcquired, Serial!Looping
<1>8. Serial!TypeOK'
  BY <1>1, <1>5, <1>6, <1>7 DEF Serial!TypeOK, Places, Runs, Summaries
<1> QED
  BY <1>7, <1>8 DEF SerialTypes, BlockInHand, StepInHand, Working

\* ... or opened, ...
LEMMA OpenSerialTypes == ASSUME SerialTypes, Serial!Open PROVE SerialTypes'
<1>1. Serial!TypeOK /\ Serial!Looping
  BY DEF SerialTypes, Serial!Open
<1>2. PICK n \in Serial!Planned : here.number = n /\ Serial!Stored(n) \in Serial!BlockFiles
  BY <1>1, LoopingBlock
<1>3. PICK b \in Serial!BlockFiles : b = Serial!Stored(n)
  BY <1>2
<1>4. Serial!File(b) /\ block' = b
  BY <1>2, <1>3 DEF Serial!Open
<1>5. /\ blocks' \in [Serial!Planned -> Serial!BlockFiles]
      /\ known' \in [Serial!Planned -> Summaries] /\ blocks'[n] = b /\ known'[n].shard
  BY <1>1, <1>2, <1>4, Filed
<1>6. here' \in Places /\ here'.number = n
  <2>1. 1 \in 1 .. NumStages + 1 /\ 1 \in 1 .. NumJobs + 1
    BY SerialNumbers
  <2>2. edition \in Serial!Editions
    BY <1>1 DEF Serial!TypeOK, Places, Runs
  <2>3. here' = [here EXCEPT !.stage = 1, !.job = 1, !.inventory = edition]
    BY DEF Serial!Open
  <2> QED
    BY <1>1, <1>2, <2>1, <2>2, <2>3, PlaceTyped DEF Places
<1>7. at' = "opened" /\ UNCHANGED <<book, quotes, edition, ran, started, troubles>>
  BY DEF Serial!Open
<1>8. run' \in Runs
  BY <1>1 DEF Serial!TypeOK, Places, Runs, Serial!Open
<1>9. Serial!TypeOK'
  BY <1>1, <1>4, <1>5, <1>6, <1>7, <1>8 DEF Serial!TypeOK, Places, Runs, Summaries
<1> QED
  BY <1>4, <1>5, <1>6, <1>7, <1>9 DEF SerialTypes, BlockInHand, StepInHand

\* ... and then the manifest knows of it.
LEMMA OpenedSerialTypes == ASSUME SerialTypes, Serial!Opened PROVE SerialTypes'
<1>1. /\ at = "opened" /\ at' \in {"stage", "cover"} /\ book' = known
      /\ UNCHANGED <<blocks, quotes, edition, known, block, here, run, ran, started, troubles>>
  BY DEF Serial!Opened, Serial!runnerLocals
<1>2. Serial!TypeOK'
  BY <1>1 DEF SerialTypes, Serial!TypeOK, Places, Runs
<1> QED
  BY <1>1, <1>2 DEF SerialTypes, BlockInHand, StepInHand, Working

\* A stage that is begun is a stage.
LEMMA StagingStage ==
    ASSUME SerialTypes, Serial!Staging
    PROVE  here.number \in Serial!Planned /\ here.stage \in Serial!Stages
<1>1. here.stage \in 1 .. NumStages + 1 /\ here.stage <= NumStages
  BY DEF SerialTypes, Serial!TypeOK, Places, Runs, Serial!Staging
<1>2. here.stage \in Serial!Stages
  BY <1>1, SerialNumbers DEF Serial!Stages
<1> QED
  BY <1>2 DEF SerialTypes, BlockInHand, Working, Serial!Staging

\* The stage after one that is done.
LEMMA StageAfter ==
    ASSUME Serial!TypeOK, here.stage \in Serial!Stages, here' = [here EXCEPT !.stage = @ + 1]
    PROVE  /\ here' \in Places
           /\ here'.number = here.number /\ here'.inventory = here.inventory
           /\ here'.job = here.job
<1>1. here.stage + 1 \in 1 .. NumStages + 1
  BY SerialNumbers DEF Serial!Stages
<1> QED
  BY <1>1 DEF Serial!TypeOK, Places, Runs

\* Stages are skipped and called, and what came of them is covered.
LEMMA StepSerialTypes ==
    ASSUME SerialTypes,
           Serial!SkipStage \/ Serial!CallStage \/ Serial!StagesEnd \/ Serial!Cover
    PROVE  SerialTypes'
<1> USE DEF SerialTypes
<1>1. CASE Serial!SkipStage
  <2>1. /\ at = "stage" /\ UNCHANGED <<blocks, book, quotes, edition, at, known, block, run, ran,
                                       started, troubles>>
    BY <1>1 DEF Serial!SkipStage, Serial!Staging, Serial!runnerDisk
  <2>2. /\ here' \in Places
        /\ here'.number = here.number
    BY <1>1, StagingStage, StageAfter DEF Serial!SkipStage
  <2>3. Serial!TypeOK'
    BY <2>1, <2>2 DEF Serial!TypeOK, Places, Runs
  <2> QED
    BY <2>1, <2>2, <2>3 DEF BlockInHand, StepInHand
<1>2. CASE Serial!CallStage
  <2>1. /\ at = "begun" /\ at' = "staging"
        /\ UNCHANGED <<blocks, book, quotes, edition, known, block, here, run, ran, troubles>>
    BY <1>2 DEF Serial!CallStage, Serial!runnerDisk, Serial!runnerLocals
  <2>2. here.number \in Serial!Planned /\ here.stage \in Serial!Stages
    BY <2>1 DEF BlockInHand, StepInHand, Working
  <2>3. PICK n \in Serial!Planned, s \in Serial!Stages : n = here.number /\ s = here.stage
    BY <2>2
  <2>4. started' = [started EXCEPT ![n] = [started[n] EXCEPT ![s] = started[n][s] + 1]]
    BY <1>2, <2>3 DEF Serial!CallStage
  <2>5. started' \in [Serial!Planned -> [Serial!Stages -> Nat]]
    <3>1. started[n] \in [Serial!Stages -> Nat]
      BY DEF Serial!TypeOK, Places, Runs
    <3> QED
      BY <2>4, <3>1 DEF Serial!TypeOK, Places, Runs
  <2>6. Serial!TypeOK'
    BY <2>1, <2>5 DEF Serial!TypeOK, Places, Runs
  <2> QED
    BY <2>1, <2>6 DEF BlockInHand, StepInHand, Working
<1>3. CASE Serial!StagesEnd
  <2>1. /\ at = "stage" /\ at' = "cover" /\ block' = [block EXCEPT !.inventory = edition]
        /\ UNCHANGED <<blocks, book, quotes, edition, known, here, run, ran, started, troubles>>
    BY <1>3 DEF Serial!StagesEnd, Serial!runnerDisk
  <2>2. block' \in Serial!BlockFiles /\ block'.stages = block.stages
    BY <2>1 DEF Serial!TypeOK, Places, Runs, Serial!BlockFiles
  <2>3. Serial!TypeOK'
    BY <2>1, <2>2 DEF Serial!TypeOK, Places, Runs
  <2> QED
    BY <2>1, <2>2, <2>3 DEF BlockInHand, StepInHand, Working
<1>4. CASE Serial!Cover
  <2>1. /\ at = "cover" /\ at' \in {"quote", "close"}
        /\ here' = [here EXCEPT !.inventory = edition]
        /\ UNCHANGED <<blocks, book, quotes, edition, known, run, ran, started, troubles>>
    BY <1>4 DEF Serial!Cover, Serial!runnerDisk
  <2>2. block' \in Serial!BlockFiles /\ block'.stages = block.stages
    BY <1>4 DEF Serial!Cover, Serial!TypeOK, Serial!BlockFiles
  <2>3. /\ here' \in Places
        /\ here'.number = here.number
    BY <2>1 DEF Serial!TypeOK, Places, Runs
  <2>4. Serial!TypeOK'
    BY <2>1, <2>2, <2>3 DEF Serial!TypeOK, Places, Runs
  <2> QED
    BY <2>1, <2>2, <2>3, <2>4 DEF BlockInHand, StepInHand, Working
<1> QED
  BY <1>1, <1>2, <1>3, <1>4

\* The stages of a block in hand, and of its shard with it.
LEMMA RowSerialTypes ==
    ASSUME SerialTypes, at \in Working \ {"opened"},
           NEW b \in Serial!BlockFiles, block' = b, Serial!File(b),
           UNCHANGED <<book, quotes, edition, run, ran, started>>,
           troubles' \in 0 .. SerialMishaps,
           here' \in Places,
           here'.number = here.number,
           at' \in {"begun", "stage", "quote", "closed"},
           at' = "begun" => here'.stage \in Serial!Stages
    PROVE  SerialTypes'
<1>1. here.number \in Serial!Planned /\ book[here.number].shard
  BY DEF SerialTypes, BlockInHand
<1>2. PICK n \in Serial!Planned : here.number = n
  BY <1>1
<1>3. /\ blocks' \in [Serial!Planned -> Serial!BlockFiles]
      /\ known' \in [Serial!Planned -> Summaries] /\ blocks'[n] = b /\ known'[n].shard
  BY <1>2, Filed DEF SerialTypes
<1>4. Serial!TypeOK'
  BY <1>3 DEF SerialTypes, Serial!TypeOK, Places, Runs, Summaries
<1> QED
  BY <1>1, <1>2, <1>3, <1>4 DEF SerialTypes, BlockInHand, StepInHand

\* What begins a stage, and what ends one, is a change of its row.
LEMMA StageRow ==
    ASSUME SerialTypes, Serial!BeginStage \/ Serial!EndStage
    PROVE  /\ here.number \in Serial!Planned /\ here.stage \in Serial!Stages
           /\ \E row \in Serial!StageRows :
                /\ block' = [block EXCEPT !.stages[here.stage] = row]
                /\ Serial!BeginStage => /\ row.status = "running"
                                        /\ row.attempts = block.stages[here.stage].attempts + 1
                /\ Serial!EndStage => row.attempts = block.stages[here.stage].attempts
           /\ block' \in Serial!BlockFiles
<1>1. here.number \in Serial!Planned /\ here.stage \in Serial!Stages
  BY StagingStage
     DEF Serial!BeginStage, Serial!EndStage, SerialTypes, BlockInHand, StepInHand, Working
<1>2. PICK s \in Serial!Stages : s = here.stage
  BY <1>1
<1>3. PICK old \in Serial!StageRows : old = block.stages[s]
  BY DEF SerialTypes, Serial!TypeOK, Places, Runs, Serial!BlockFiles
<1>4. block \in Serial!BlockFiles
  BY DEF SerialTypes, Serial!TypeOK, Places, Runs
<1>5. CASE Serial!BeginStage
  <2> DEFINE row == [status |-> "running", attempts |-> old.attempts + 1]
  <2>1. row \in Serial!StageRows
    BY DEF Serial!StageRows
  <2>2. block' = [block EXCEPT !.stages[s] = row] /\ at = "stage"
    BY <1>2, <1>3, <1>5 DEF Serial!BeginStage, Serial!Staging
  <2>3. block' \in Serial!BlockFiles
    BY <1>4, <2>1, <2>2, StageChanged
  <2> QED
    BY <1>1, <1>2, <1>3, <2>1, <2>2, <2>3 DEF Serial!EndStage
<1>6. CASE Serial!EndStage
  <2>1. PICK status \in {"completed", "failed"} :
            block' = [block EXCEPT !.stages[s].status = status]
    BY <1>2, <1>6 DEF Serial!EndStage
  <2> DEFINE row == [old EXCEPT !.status = status]
  <2>2. row \in Serial!StageRows /\ row.attempts = old.attempts
    BY DEF Serial!StageRows
  <2>3. block' = [block EXCEPT !.stages[s] = row] /\ at = "staging"
    BY <1>3, <1>6, <2>1 DEF Serial!EndStage
  <2> HIDE DEF row
  <2>4. block' \in Serial!BlockFiles
    BY <1>4, <2>2, <2>3, StageChanged
  <2> QED
    BY <1>1, <1>2, <1>3, <2>2, <2>3, <2>4 DEF Serial!BeginStage, Serial!Staging
<1> QED
  BY <1>5, <1>6

\* A stage is begun and ends.
LEMMA StageSerialTypes ==
    ASSUME SerialTypes, Serial!BeginStage \/ Serial!EndStage PROVE SerialTypes'
<1>1. here.stage \in Serial!Stages /\ block' \in Serial!BlockFiles
  BY StageRow
<1>2. PICK b \in Serial!BlockFiles : block' = b
  BY <1>1
<1>3. /\ at \in Working \ {"opened"} /\ at' \in {"begun", "stage"} /\ Serial!File(b)
      /\ UNCHANGED <<book, quotes, edition, run, ran, started>>
  BY <1>2 DEF Serial!BeginStage, Serial!EndStage, Serial!Staging, Working, Serial!File
<1>4. troubles' \in 0 .. SerialMishaps
  BY TroubleTyped DEF SerialTypes, Serial!TypeOK, Places, Runs, Serial!BeginStage, Serial!EndStage
<1>5. here' = here \/ here' = [here EXCEPT !.stage = @ + 1]
  BY DEF Serial!BeginStage, Serial!EndStage
<1>6. /\ here' \in Places
      /\ here'.number = here.number
  BY <1>1, <1>5, StageAfter DEF SerialTypes, Serial!TypeOK, Places, Runs
<1>7. at' = "begun" => here'.stage \in Serial!Stages
  BY <1>1 DEF Serial!BeginStage, Serial!EndStage
<1> QED
  BY <1>2, <1>3, <1>4, <1>6, <1>7, RowSerialTypes

\* A quote that is asked for is a job of the block.
LEMMA QuotingJob ==
    ASSUME SerialTypes, Serial!Quoting
    PROVE  here.number \in Serial!Planned /\ here.job \in Serial!Jobs
<1>1. here.job \in 1 .. NumJobs + 1 /\ here.job <= NumJobs
  BY DEF SerialTypes, Serial!TypeOK, Serial!Quoting
<1>2. here.job \in Serial!Jobs
  BY <1>1, SerialNumbers DEF Serial!Jobs
<1> QED
  BY <1>2 DEF SerialTypes, BlockInHand, Working, Serial!Quoting

\* The job after one that is done.
LEMMA JobAfter ==
    ASSUME Serial!TypeOK, here.job \in Serial!Jobs, here' = [here EXCEPT !.job = @ + 1]
    PROVE  /\ here' \in Places
           /\ here'.number = here.number /\ here'.inventory = here.inventory
           /\ here'.stage = here.stage /\ here'.job = here.job + 1
<1>1. here.job + 1 \in 1 .. NumJobs + 1
  BY SerialNumbers DEF Serial!Jobs
<1> QED
  BY <1>1, PlaceTyped DEF Places

\* What changes a quote of the block in hand.
LEMMA QuoteRow ==
    ASSUME SerialTypes, Serial!AskQuote \/ Serial!FileQuote \/ Serial!FailQuote
    PROVE  /\ here.number \in Serial!Planned /\ here.job \in Serial!Jobs
           /\ \E q \in Serial!Quotes :
                /\ block' = [block EXCEPT !.scenarios[here.job] = q]
                /\ Serial!AskQuote => q.status = "planned" /\ q.inventory = here.inventory
                /\ Serial!FileQuote =>
                      /\ q.status = "completed" /\ q.digest = quotes[here.number][here.job]
                      /\ q.inventory = block.scenarios[here.job].inventory
                /\ Serial!FailQuote => q.status = "failed"
           /\ block' \in Serial!BlockFiles /\ block'.stages = block.stages
<1>1. here.number \in Serial!Planned /\ here.job \in Serial!Jobs
  BY QuotingJob
     DEF Serial!AskQuote, Serial!FileQuote, Serial!FailQuote, SerialTypes, BlockInHand,
         StepInHand, Working
<1>2. PICK j \in Serial!Jobs : j = here.job
  BY <1>1
<1>3. PICK n \in Serial!Planned : n = here.number
  BY <1>1
<1>4. PICK old \in Serial!Quotes : old = block.scenarios[j]
  BY DEF SerialTypes, Serial!TypeOK, Serial!BlockFiles
<1>5. block \in Serial!BlockFiles /\ here.inventory \in Serial!Editions
      /\ quotes[n][j] \in Serial!Editions /\ 0 \in Serial!Editions
  <2>1. quotes[n] \in [Serial!Jobs -> Serial!Editions]
    BY DEF SerialTypes, Serial!TypeOK
  <2> QED
    BY <2>1, SerialNumbers, PlaceTyped DEF SerialTypes, Serial!TypeOK, Places, Serial!Editions
<1>6. CASE Serial!AskQuote
  <2> DEFINE q == [status |-> "planned", inventory |-> here.inventory, digest |-> 0]
  <2>1. q \in Serial!Quotes
    BY <1>5 DEF Serial!Quotes
  <2>2. block' = [block EXCEPT !.scenarios[j] = q] /\ at = "quote"
    BY <1>2, <1>6 DEF Serial!AskQuote, Serial!Quoting
  <2>3. block' \in Serial!BlockFiles /\ block'.stages = block.stages
    BY <1>5, <2>1, <2>2, QuoteChanged
  <2> QED
    BY <1>1, <1>2, <2>1, <2>2, <2>3 DEF Serial!FileQuote, Serial!FailQuote
<1>7. CASE Serial!FileQuote
  <2> DEFINE q == [old EXCEPT !.status = "completed", !.digest = quotes[n][j]]
  <2>1. q \in Serial!Quotes /\ q.status = "completed" /\ q.digest = quotes[n][j]
        /\ q.inventory = old.inventory
    BY <1>5 DEF Serial!Quotes
  <2>2. block' = [block EXCEPT !.scenarios[j] = q] /\ at = "filed" /\ at' = "quote"
    <3>1. block' = [block EXCEPT !.scenarios[j].status = "completed",
                                 !.scenarios[j].digest = quotes[n][j]]
      BY <1>2, <1>3, <1>7 DEF Serial!FileQuote
    <3>2. block.scenarios \in [Serial!Jobs -> Serial!Quotes]
      BY <1>5 DEF Serial!BlockFiles
    <3> QED
      BY <1>4, <1>5, <1>7, <3>1, <3>2 DEF Serial!FileQuote, Serial!BlockFiles
  <2> HIDE DEF q
  <2>3. block' \in Serial!BlockFiles /\ block'.stages = block.stages
    BY <1>5, <2>1, <2>2, QuoteChanged
  <2>4. ~Serial!AskQuote
    BY <2>2 DEF Serial!AskQuote, Serial!Quoting
  <2>5. ~Serial!FailQuote
    <3>1. block'.scenarios[j].status = "completed"
      BY <1>5, <2>1, <2>2, QuoteChanged
    <3>2. [old EXCEPT !.status = "failed"] \in Serial!Quotes
      BY DEF Serial!Quotes
    <3>3. ASSUME Serial!FailQuote
          PROVE  block'.scenarios[j] = [old EXCEPT !.status = "failed"]
      <4>1. block' = [block EXCEPT !.scenarios[j] = [old EXCEPT !.status = "failed"]]
        BY <1>2, <1>4, <3>3 DEF Serial!FailQuote
      <4> QED
        BY <1>5, <3>2, <4>1, QuoteChanged
    <3>4. [old EXCEPT !.status = "failed"].status = "failed"
      BY DEF Serial!Quotes
    <3> QED
      BY <3>1, <3>3, <3>4
  <2> QED
    BY <1>1, <1>2, <1>3, <1>4, <2>1, <2>2, <2>3, <2>4, <2>5
<1>8. CASE Serial!FailQuote
  <2> DEFINE q == [old EXCEPT !.status = "failed"]
  <2>1. q \in Serial!Quotes /\ q.status = "failed"
    BY DEF Serial!Quotes
  <2>2. block' = [block EXCEPT !.scenarios[j] = q] /\ at \in {"quoting", "filed"}
    BY <1>2, <1>4, <1>8 DEF Serial!FailQuote
  <2> HIDE DEF q
  <2>3. block' \in Serial!BlockFiles /\ block'.stages = block.stages
    BY <1>5, <2>1, <2>2, QuoteChanged
  <2>4. ~Serial!AskQuote
    BY <2>2 DEF Serial!AskQuote, Serial!Quoting
  <2> QED
    BY <1>1, <1>2, <1>7, <2>1, <2>2, <2>3, <2>4
<1> QED
  BY <1>6, <1>7, <1>8

\* Quotes are kept and asked for, made, filed and given up.
LEMMA QuoteSerialTypes ==
    ASSUME SerialTypes,
           \/ Serial!KeepQuote \/ Serial!AskQuote \/ Serial!MakeQuote \/ Serial!FileQuote
           \/ Serial!FailQuote
    PROVE  SerialTypes'
<1>1. CASE Serial!KeepQuote
  <2>1. /\ at = "quote" /\ at' = "quote"
        /\ UNCHANGED <<blocks, book, quotes, edition, known, block, run, ran, started, troubles>>
    BY <1>1 DEF Serial!KeepQuote, Serial!Quoting, Serial!runnerDisk
  <2>2. here' \in Places /\ here'.number = here.number
    BY <1>1, QuotingJob, JobAfter DEF SerialTypes, Serial!KeepQuote
  <2>3. Serial!TypeOK'
    BY <2>1, <2>2 DEF SerialTypes, Serial!TypeOK, Places
  <2> QED
    BY <2>1, <2>2, <2>3 DEF SerialTypes, BlockInHand, StepInHand, Working
<1>2. CASE Serial!AskQuote
  <2>1. /\ at = "quote" /\ at' = "quoting"
        /\ UNCHANGED <<blocks, book, quotes, edition, known, here, run, ran, started, troubles>>
    BY <1>2 DEF Serial!AskQuote, Serial!Quoting, Serial!runnerDisk
  <2>2. here.job \in Serial!Jobs /\ block' \in Serial!BlockFiles /\ block'.stages = block.stages
    BY <1>2, QuoteRow
  <2>3. Serial!TypeOK'
    BY <2>1, <2>2 DEF SerialTypes, Serial!TypeOK
  <2> QED
    BY <2>1, <2>2, <2>3 DEF SerialTypes, BlockInHand, StepInHand, Working
<1>3. CASE Serial!MakeQuote
  <2>1. /\ at = "quoting" /\ at' = "filed"
        /\ UNCHANGED <<blocks, book, edition, known, block, here, run, ran, started, troubles>>
    BY <1>3 DEF Serial!MakeQuote, Serial!runnerLocals
  <2>2. PICK n \in Serial!Planned, j \in Serial!Jobs : here.number = n /\ here.job = j
    BY <2>1 DEF SerialTypes, BlockInHand, StepInHand, Working
  <2>3. quotes' = [quotes EXCEPT ![n] = [quotes[n] EXCEPT ![j] = edition]]
    BY <1>3, <2>2 DEF Serial!MakeQuote
  <2>4. quotes' \in [Serial!Planned -> [Serial!Jobs -> Serial!Editions]]
    <3>1. quotes[n] \in [Serial!Jobs -> Serial!Editions] /\ edition \in Serial!Editions
      BY DEF SerialTypes, Serial!TypeOK
    <3> QED
      BY <2>3, <3>1 DEF SerialTypes, Serial!TypeOK
  <2>5. Serial!TypeOK'
    BY <2>1, <2>4 DEF SerialTypes, Serial!TypeOK
  <2> QED
    BY <2>1, <2>5 DEF SerialTypes, BlockInHand, StepInHand, Working
<1>4. CASE Serial!FileQuote \/ Serial!FailQuote
  <2>1. here.job \in Serial!Jobs /\ block' \in Serial!BlockFiles
    BY <1>4, QuoteRow
  <2>2. PICK b \in Serial!BlockFiles : block' = b
    BY <2>1
  <2>3. /\ at \in Working \ {"opened"} /\ at' = "quote" /\ Serial!File(b)
        /\ here' = [here EXCEPT !.job = @ + 1]
        /\ UNCHANGED <<book, quotes, edition, run, ran, started>>
    BY <1>4, <2>2 DEF Serial!FileQuote, Serial!FailQuote, Working, Serial!File
  <2>4. troubles' \in 0 .. SerialMishaps
    BY <1>4, TroubleTyped DEF SerialTypes, Serial!TypeOK, Serial!FileQuote, Serial!FailQuote
  <2>5. here' \in Places /\ here'.number = here.number
    BY <2>1, <2>3, JobAfter DEF SerialTypes
  <2> QED
    BY <2>2, <2>3, <2>4, <2>5, RowSerialTypes
<1> QED
  BY <1>1, <1>2, <1>3, <1>4

\* A block is closed, and the next is looked at.
LEMMA CloseSerialTypes ==
    ASSUME SerialTypes, Serial!CloseBlock \/ Serial!NextBlock PROVE SerialTypes'
<1>1. CASE Serial!CloseBlock
  <2>1. PICK b \in Serial!BlockFiles : block = b
    BY DEF SerialTypes, Serial!TypeOK
  <2>2. /\ at \in Working \ {"opened"} /\ at' = "closed" /\ Serial!File(b)
        /\ UNCHANGED <<book, quotes, edition, block, here, run, ran, started, troubles>>
    BY <1>1, <2>1 DEF Serial!CloseBlock, Working
  <2>3. here' \in Places /\ troubles' \in 0 .. SerialMishaps /\ block' = b
    BY <2>1, <2>2, PlaceTyped DEF SerialTypes, Serial!TypeOK
  <2> QED
    BY <2>2, <2>3, RowSerialTypes
<1>2. CASE Serial!NextBlock
  <2>1. /\ at = "closed" /\ at' = "next" /\ book' = known
        /\ here' = [Serial!Idle EXCEPT !.number = here.number + 1]
        /\ UNCHANGED <<blocks, quotes, edition, known, block, run, ran, started, troubles>>
    BY <1>2 DEF Serial!NextBlock
  <2>2. here.number + 1 \in 1 .. SerialBlocks + 1
    BY <2>1, SerialNumbers DEF SerialTypes, BlockInHand, Working, Serial!Planned
  <2>3. here' \in Places
    BY <2>1, <2>2, SerialNumbers DEF Serial!Idle, Places, Serial!Editions
  <2>4. Serial!TypeOK'
    BY <2>1, <2>3 DEF SerialTypes, Serial!TypeOK, Places
  <2> QED
    BY <2>1, <2>4 DEF SerialTypes, BlockInHand, StepInHand, Working
<1> QED
  BY <1>1, <1>2

\* A process that is gone has nothing in hand.
LEMMA GoneSerialTypes ==
    ASSUME SerialTypes,
           \/ Serial!InterruptStage \/ Serial!Killed
           \/ \E n \in Serial!Planned, j \in Serial!Jobs : Serial!QuoteRemoved(n, j)
    PROVE  SerialTypes'
<1>1. /\ at' = "off" /\ known' = Serial!NoBook /\ block' = Serial!NewBlock
      /\ here' = Serial!Idle /\ run' = Serial!NoRun
      /\ Serial!Trouble /\ UNCHANGED <<blocks, edition, ran, started>>
      /\ book' = known \/ book' = book
  BY DEF Serial!InterruptStage, Serial!Killed, Serial!QuoteRemoved, Serial!Gone
<1>2. quotes' \in [Serial!Planned -> [Serial!Jobs -> Serial!Editions]]
  <2>1. quotes \in [Serial!Planned -> [Serial!Jobs -> Serial!Editions]]
    BY DEF SerialTypes, Serial!TypeOK
  <2>2. ASSUME NEW n \in Serial!Planned, NEW j \in Serial!Jobs, Serial!QuoteRemoved(n, j)
        PROVE  quotes' \in [Serial!Planned -> [Serial!Jobs -> Serial!Editions]]
    <3>1. quotes' = [quotes EXCEPT ![n] = [quotes[n] EXCEPT ![j] = 0]]
      BY <2>2 DEF Serial!QuoteRemoved
    <3>2. quotes[n] \in [Serial!Jobs -> Serial!Editions] /\ 0 \in Serial!Editions
      BY <2>1, SerialNumbers DEF Serial!Editions
    <3> QED
      BY <2>1, <3>1, <3>2
  <2> QED
    BY <2>1, <2>2 DEF Serial!InterruptStage, Serial!Killed
<1>3. troubles' \in 0 .. SerialMishaps
  BY <1>1, TroubleTyped DEF SerialTypes
<1>4. here' \in Places /\ run' \in Runs /\ known' \in [Serial!Planned -> Summaries]
  BY <1>1, SerialNumbers
     DEF Serial!Idle, Serial!NoRun, Serial!NoBook, Serial!Unknown, Places, Runs, Summaries,
         Serial!Editions, Serial!Modes
<1>5. Serial!TypeOK'
  BY <1>1, <1>2, <1>3, <1>4, NewBlockTyped
     DEF SerialTypes, Serial!TypeOK, Places, Runs, Summaries, Serial!Quiet
<1> QED
  BY <1>1, <1>5 DEF SerialTypes, BlockInHand, StepInHand, Working

\* Every step keeps the types.
LEMMA NextSerialTypes ==
    ASSUME SerialTypes, [Serial!Next]_serialVars PROVE SerialTypes'
  BY StartSerialTypes, MoveSerialTypes, SkipSerialTypes, OpenSerialTypes, OpenedSerialTypes,
     StepSerialTypes, StageSerialTypes, QuoteSerialTypes, CloseSerialTypes, GoneSerialTypes
     DEF Serial!Next, Serial!RunnerStep
-----------------------------------------------------------------------------
(* The ledger of the serial loop.                                          *)
\* What the directory says of a stage.
LEMMA RowIs ==
    \A n \in Serial!Planned, s \in Serial!Stages :
        /\ Serial!Row(<<n, s>>) = IF book[n].shard THEN blocks[n].stages[s]
                                  ELSE [status |-> "none", attempts |-> 0]
        /\ Serial!Row(<<n, s>>)' = IF book'[n].shard THEN blocks'[n].stages[s]
                                   ELSE [status |-> "none", attempts |-> 0]
  BY DEF Serial!Row, Serial!NewBlock

\* What the directory says of a stage has the type of a stage's row.
LEMMA RowTyped ==
    ASSUME Serial!TypeOK, NEW i \in Serial!Planned \X Serial!Stages
    PROVE  /\ Serial!Row(i).attempts \in Nat
           /\ i = <<i[1], i[2]>> /\ i[1] \in Serial!Planned /\ i[2] \in Serial!Stages
           /\ started[i[1]][i[2]] \in Nat
<1>1. i = <<i[1], i[2]>> /\ i[1] \in Serial!Planned /\ i[2] \in Serial!Stages
  OBVIOUS
<1>2. PICK n \in Serial!Planned, s \in Serial!Stages : n = i[1] /\ s = i[2]
  BY <1>1
<1>3. blocks[n].stages[s] \in Serial!StageRows /\ started[n] \in [Serial!Stages -> Nat]
  BY DEF Serial!TypeOK, Serial!BlockFiles
<1>4. blocks[n].stages[s].attempts \in Nat
  BY <1>3 DEF Serial!StageRows
<1>5. Serial!NewBlock.stages[s].attempts = 0
  BY DEF Serial!NewBlock
<1> QED
  BY <1>1, <1>2, <1>3, <1>4, <1>5 DEF Serial!Row

\* Attempts on record grow, and claims are made for what was started.
LEMMA SerialRecord ==
    ASSUME SerialTypes, SerialTypes', UNCHANGED started,
           \A n \in Serial!Planned, s \in Serial!Stages :
              /\ Serial!Row(<<n, s>>).attempts <= Serial!Row(<<n, s>>)'.attempts
              /\ Serial!Row(<<n, s>>)'.status = "completed" =>
                    Serial!Row(<<n, s>>).status = "completed" \/ started[n][s] > 0
    PROVE  Serial!Ledger!Record
<1> DEFINE items == Serial!Planned \X Serial!Stages
<1>1. \A i \in items : Serial!Row(i).attempts \in Nat
  BY RowTyped DEF SerialTypes
<1>2. \A i \in items : Serial!Row(i)'.attempts \in Nat
  <2> SUFFICES ASSUME NEW i \in items PROVE Serial!Row(i)'.attempts \in Nat
    OBVIOUS
  <2>1. PICK n \in Serial!Planned, s \in Serial!Stages : i = <<n, s>>
    OBVIOUS
  <2>2. blocks'[n].stages[s] \in Serial!StageRows
    BY DEF SerialTypes, Serial!TypeOK, Serial!BlockFiles
  <2> QED
    BY <2>1, <2>2, RowIs DEF Serial!StageRows
<1>3. \A i \in items : /\ Serial!Row(i).attempts <= Serial!Row(i)'.attempts
                       /\ Serial!Row(i)'.status = "completed" =>
                             Serial!Row(i).status = "completed" \/ started[i[1]][i[2]] > 0
  BY RowTyped DEF SerialTypes
<1>4. [i \in items |-> Serial!Row(i).attempts]' \in [items -> Nat]
  BY <1>2
<1>5. \A i \in items : [k \in items |-> Serial!Row(k).attempts]'[i]
                          >= [k \in items |-> Serial!Row(k).attempts][i]
  BY <1>1, <1>2, <1>3
<1>6. {i \in items : Serial!Row(i).status = "completed"}' \subseteq items
  OBVIOUS
<1>7. \A i \in {k \in items : Serial!Row(k).status = "completed"}'
                  \ {k \in items : Serial!Row(k).status = "completed"} :
         [k \in items |-> started[k[1]][k[2]]][i] > 0
  BY <1>3
<1>8. [k \in items |-> started[k[1]][k[2]]]' = [k \in items |-> started[k[1]][k[2]]]
  OBVIOUS
<1> QED
  BY <1>4, <1>5, <1>6, <1>7, <1>8 DEF Serial!Ledger!Record

\* A step that leaves what is on record alone.  A shard the manifest does not know
\* of may be begun anew.
LEMMA SerialStays ==
    ASSUME SerialTypes, SerialTypes', SerialLedgerInv, UNCHANGED started,
           \A n \in Serial!Planned :
              /\ book'[n].shard = book[n].shard
              /\ \/ blocks'[n].stages = blocks[n].stages
                 \/ ~book[n].shard /\ blocks'[n].stages = Serial!NewBlock.stages
              /\ at' # "off" /\ book[n].shard => known'[n].shard,
           at' \in {"begun", "staging"} => at' = at /\ here' = here /\ blocks' = blocks
    PROVE  SerialLedgerInv' /\ UNCHANGED Serial!Ledger!ledger
<1>1. \A n \in Serial!Planned, s \in Serial!Stages :
         Serial!Row(<<n, s>>)' = Serial!Row(<<n, s>>)
  <2> SUFFICES ASSUME NEW n \in Serial!Planned, NEW s \in Serial!Stages
               PROVE  Serial!Row(<<n, s>>)' = Serial!Row(<<n, s>>)
    OBVIOUS
  <2>1. book[n].shard \in BOOLEAN /\ book'[n].shard = book[n].shard
    BY PlaceTyped DEF SerialTypes, Summaries
  <2>2. blocks'[n].stages = blocks[n].stages \/ ~book[n].shard
    OBVIOUS
  <2> QED
    BY <2>1, <2>2, RowIs
<1>2. Knows'
  BY DEF Knows
<1>3. Counts'
  BY <1>1 DEF SerialLedgerInv, Counts
<1>4. Claims'
  <2>1. \A s \in Serial!Stages : Serial!NewBlock.stages[s].status = "none"
    BY DEF Serial!NewBlock
  <2> QED
    BY <2>1 DEF SerialLedgerInv, Claims
<1>5. UNCHANGED Serial!Ledger!ledger
  <2>1. \A i \in Serial!Planned \X Serial!Stages : Serial!Row(i)' = Serial!Row(i)
    BY <1>1, RowTyped DEF SerialTypes
  <2> QED
    BY <2>1 DEF Serial!Ledger!ledger
<1> QED
  BY <1>2, <1>3, <1>4, <1>5 DEF SerialLedgerInv

\* The manifest is written as the process knows it.
LEMMA SerialWritten ==
    ASSUME SerialTypes, SerialTypes', SerialLedgerInv, UNCHANGED <<blocks, started>>,
           at # "off", book' = known, at' = "off" \/ known' = known,
           at' \notin {"begun", "staging"}
    PROVE  SerialLedgerInv' /\ Serial!Ledger!Record
<1>1. \A n \in Serial!Planned : book[n].shard => book'[n].shard
  BY DEF SerialLedgerInv, Knows
<1>2. \A n \in Serial!Planned, s \in Serial!Stages :
         /\ Serial!Row(<<n, s>>).attempts <= Serial!Row(<<n, s>>)'.attempts
         /\ Serial!Row(<<n, s>>)'.status = "completed" => started[n][s] > 0
         /\ started[n][s] <= Serial!Row(<<n, s>>)'.attempts
  <2> SUFFICES ASSUME NEW n \in Serial!Planned, NEW s \in Serial!Stages
               PROVE  /\ Serial!Row(<<n, s>>).attempts <= Serial!Row(<<n, s>>)'.attempts
                      /\ Serial!Row(<<n, s>>)'.status = "completed" => started[n][s] > 0
                      /\ started[n][s] <= Serial!Row(<<n, s>>)'.attempts
    OBVIOUS
  <2>1. started[n][s] <= Serial!Row(<<n, s>>).attempts
    BY DEF SerialLedgerInv, Counts
  <2>2. blocks[n].stages[s].status = "completed" => started[n][s] > 0
    BY DEF SerialLedgerInv, Claims
  <2>3. blocks[n].stages[s].attempts \in Nat /\ started[n][s] \in Nat
    <3>1. blocks[n].stages[s] \in Serial!StageRows /\ started[n] \in [Serial!Stages -> Nat]
      BY DEF SerialTypes, Serial!TypeOK, Serial!BlockFiles
    <3> QED
      BY <3>1 DEF Serial!StageRows
  <2> QED
    BY <1>1, <2>1, <2>2, <2>3, RowIs
<1>3. Knows' /\ Counts' /\ Claims'
  BY <1>2 DEF SerialLedgerInv, Knows, Counts, Claims
<1> QED
  BY <1>2, <1>3, SerialRecord DEF SerialLedgerInv

\* A row of the stage in hand, and of its shard with it.
LEMMA SerialRowed ==
    ASSUME SerialTypes, SerialTypes', SerialLedgerInv,
           Serial!BeginStage \/ Serial!EndStage
    PROVE  SerialLedgerInv' /\ Serial!Ledger!Record
<1>1. PICK n \in Serial!Planned, s \in Serial!Stages : here.number = n /\ here.stage = s
  BY StageRow
<1>2. PICK row \in Serial!StageRows :
         /\ block' = [block EXCEPT !.stages[s] = row]
         /\ Serial!BeginStage => /\ row.status = "running"
                                 /\ row.attempts = block.stages[s].attempts + 1
         /\ Serial!EndStage => row.attempts = block.stages[s].attempts
  BY <1>1, StageRow
<1>3. PICK b \in Serial!BlockFiles : block' = b
  BY StageRow
<1>4. /\ b.stages[s] = row /\ \A t \in Serial!Stages \ {s} : b.stages[t] = block.stages[t]
  <2>1. PICK old \in Serial!BlockFiles : old = block
    BY DEF SerialTypes, Serial!TypeOK
  <2>2. b = [old EXCEPT !.stages[s] = row]
    BY <1>2, <1>3, <2>1
  <2> QED
    BY <2>1, <2>2, StageChanged
<1>5. /\ Serial!File(b) /\ UNCHANGED <<book, started>>
      /\ at \in {"stage", "staging"} /\ at' \in {"begun", "stage"}
      /\ at' = "begun" => Serial!BeginStage /\ here' = here
      /\ at = "staging" \/ Serial!BeginStage
  BY <1>3 DEF Serial!BeginStage, Serial!EndStage, Serial!Staging, Serial!File
<1>6. /\ blocks'[n] = b /\ known'[n].shard
      /\ \A m \in Serial!Planned \ {n} : blocks'[m] = blocks[m] /\ known'[m] = known[m]
  BY <1>1, <1>5, Filed DEF SerialTypes
<1>7. book[n].shard /\ block.stages = blocks[n].stages
  BY <1>1, <1>5 DEF SerialTypes, BlockInHand, Working
<1>8. /\ blocks[n].stages[s].attempts \in Nat /\ row.attempts \in Nat /\ started[n][s] \in Nat
      /\ \A m \in Serial!Planned, t \in Serial!Stages : Serial!Row(<<m, t>>).attempts \in Nat
  <2>1. blocks[n].stages[s] \in Serial!StageRows /\ started[n] \in [Serial!Stages -> Nat]
    BY DEF SerialTypes, Serial!TypeOK, Serial!BlockFiles
  <2> QED
    BY <2>1, RowTyped DEF Serial!StageRows, SerialTypes
<1>9. \A m \in Serial!Planned, t \in Serial!Stages :
         m # n \/ t # s => Serial!Row(<<m, t>>)' = Serial!Row(<<m, t>>)
  BY <1>3, <1>4, <1>5, <1>6, <1>7, RowIs
<1>10. Serial!Row(<<n, s>>)' = row /\ Serial!Row(<<n, s>>) = blocks[n].stages[s]
  BY <1>3, <1>4, <1>5, <1>6, <1>7, RowIs
<1>11. /\ blocks[n].stages[s].attempts <= row.attempts
       /\ Serial!BeginStage => blocks[n].stages[s].attempts < row.attempts
  BY <1>2, <1>7, <1>8, <1>5 DEF Serial!BeginStage, Serial!EndStage
<1>12. started[n][s] <= blocks[n].stages[s].attempts
  BY <1>10 DEF SerialLedgerInv, Counts
<1>13. row.status = "completed" => started[n][s] > 0
  BY <1>1, <1>2, <1>5 DEF SerialLedgerInv, Claims
<1>14. Knows'
  BY <1>5, <1>6 DEF SerialLedgerInv, Knows
<1>15. Counts'
  <2>1. \A m \in Serial!Planned, t \in Serial!Stages : started'[m][t] <= Serial!Row(<<m, t>>)'.attempts
    <3> SUFFICES ASSUME NEW m \in Serial!Planned, NEW t \in Serial!Stages
                 PROVE  started'[m][t] <= Serial!Row(<<m, t>>)'.attempts
      OBVIOUS
    <3>1. started'[m][t] = started[m][t] /\ started[m][t] <= Serial!Row(<<m, t>>).attempts
      BY <1>5 DEF SerialLedgerInv, Counts
    <3>2. CASE m # n \/ t # s
      BY <1>9, <3>1, <3>2
    <3>3. CASE m = n /\ t = s
      BY <1>8, <1>10, <1>11, <1>12, <3>1, <3>3
    <3> QED
      BY <3>2, <3>3
  <2>2. at' = "begun" => started[n][s] < row.attempts
    BY <1>5, <1>8, <1>11, <1>12
  <2> QED
    BY <1>1, <1>4, <1>5, <1>6, <2>1, <2>2 DEF Counts
<1>16. Claims'
  BY <1>4, <1>5, <1>6, <1>7, <1>13 DEF SerialLedgerInv, Claims
<1>17. Serial!Ledger!Record
  <2>1. \A m \in Serial!Planned, t \in Serial!Stages :
           /\ Serial!Row(<<m, t>>).attempts <= Serial!Row(<<m, t>>)'.attempts
           /\ Serial!Row(<<m, t>>)'.status = "completed" =>
                 Serial!Row(<<m, t>>).status = "completed" \/ started[m][t] > 0
    <3> SUFFICES ASSUME NEW m \in Serial!Planned, NEW t \in Serial!Stages
                 PROVE  /\ Serial!Row(<<m, t>>).attempts <= Serial!Row(<<m, t>>)'.attempts
                        /\ Serial!Row(<<m, t>>)'.status = "completed" =>
                              Serial!Row(<<m, t>>).status = "completed" \/ started[m][t] > 0
      OBVIOUS
    <3>1. CASE m # n \/ t # s
      BY <1>8, <1>9, <3>1
    <3>2. CASE m = n /\ t = s
      BY <1>8, <1>10, <1>11, <1>13, <3>2
    <3> QED
      BY <3>1, <3>2
  <2> QED
    BY <1>5, <2>1, SerialRecord
<1> QED
  BY <1>14, <1>15, <1>16, <1>17 DEF SerialLedgerInv

\* A stage is called: its attempt is on record.
LEMMA SerialCalled ==
    ASSUME SerialTypes, SerialTypes', SerialLedgerInv, Serial!CallStage
    PROVE  /\ SerialLedgerInv'
           /\ \E i \in Serial!Planned \X Serial!Stages : Serial!Ledger!Make(i)
<1>1. /\ at = "begun" /\ at' = "staging"
      /\ UNCHANGED <<blocks, book, known, here>>
  BY DEF Serial!CallStage, Serial!runnerDisk, Serial!runnerLocals
<1>2. PICK n \in Serial!Planned, s \in Serial!Stages : here.number = n /\ here.stage = s
  BY <1>1 DEF SerialTypes, BlockInHand, StepInHand, Working
<1>3. /\ started \in [Serial!Planned -> [Serial!Stages -> Nat]]
      /\ started[n] \in [Serial!Stages -> Nat] /\ started[n][s] \in Nat
  BY DEF SerialTypes, Serial!TypeOK
<1>4. started' = [started EXCEPT ![n] = [started[n] EXCEPT ![s] = started[n][s] + 1]]
  BY <1>2 DEF Serial!CallStage
<1>5. /\ started'[n][s] = started[n][s] + 1
      /\ \A m \in Serial!Planned, t \in Serial!Stages :
            m # n \/ t # s => started'[m][t] = started[m][t]
  BY <1>3, <1>4
<1>6. book[n].shard
  BY <1>1, <1>2 DEF SerialTypes, BlockInHand, Working
<1>7. /\ Serial!Row(<<n, s>>) = blocks[n].stages[s]
      /\ started[n][s] < blocks[n].stages[s].attempts
      /\ blocks[n].stages[s].attempts \in Nat
  <2>1. blocks[n].stages[s] \in Serial!StageRows
    BY DEF SerialTypes, Serial!TypeOK, Serial!BlockFiles
  <2> QED
    BY <1>1, <1>2, <1>6, <2>1, RowIs DEF SerialLedgerInv, Counts, Serial!StageRows
<1>8. \A m \in Serial!Planned, t \in Serial!Stages :
         Serial!Row(<<m, t>>)' = Serial!Row(<<m, t>>)
  BY <1>1, RowIs
<1>9. Counts'
  <2>1. started'[n][s] <= Serial!Row(<<n, s>>)'.attempts
    BY <1>3, <1>5, <1>7, <1>8
  <2>2. \A m \in Serial!Planned, t \in Serial!Stages :
           started'[m][t] <= Serial!Row(<<m, t>>)'.attempts
    BY <1>5, <1>8, <2>1 DEF SerialLedgerInv, Counts
  <2> QED
    BY <1>1, <2>2 DEF Counts
<1>10. Claims'
  <2>1. \A m \in Serial!Planned, t \in Serial!Stages :
           blocks[m].stages[t].status = "completed" => started'[m][t] > 0
    <3> SUFFICES ASSUME NEW m \in Serial!Planned, NEW t \in Serial!Stages,
                        blocks[m].stages[t].status = "completed"
                 PROVE  started'[m][t] > 0
      OBVIOUS
    <3>1. started[m][t] > 0
      BY DEF SerialLedgerInv, Claims
    <3> QED
      BY <1>3, <1>5, <3>1
  <2> QED
    BY <1>1, <1>2, <1>3, <1>5, <2>1 DEF Claims
<1>11. Knows'
  BY <1>1 DEF SerialLedgerInv, Knows
<1>12. Serial!Ledger!Make(<<n, s>>)
  <2> DEFINE items == Serial!Planned \X Serial!Stages
             made == [i \in items |-> started[i[1]][i[2]]]
  <2>1. \A i \in items : Serial!Row(i)' = Serial!Row(i) /\ Serial!Row(i).attempts \in Nat
    BY <1>8, RowTyped DEF SerialTypes
  <2>2. made' = [made EXCEPT ![<<n, s>>] = made[<<n, s>>] + 1]
    <3>1. \A i \in items : i # <<n, s>> => i[1] # n \/ i[2] # s
      OBVIOUS
    <3>2. \A i \in items : started'[i[1]][i[2]] = IF i = <<n, s>> THEN started[n][s] + 1
                                                ELSE started[i[1]][i[2]]
      BY <1>5, <3>1
    <3> QED
      BY <3>2
  <2>3. <<n, s>> \in items /\ made[<<n, s>>] < Serial!Row(<<n, s>>)'.attempts
    BY <1>7, <1>8
  <2>4. [i \in items |-> Serial!Row(i).attempts]' = [i \in items |-> Serial!Row(i).attempts]
    BY <2>1
  <2>5. {i \in items : Serial!Row(i).status = "completed"}'
           = {i \in items : Serial!Row(i).status = "completed"}
    BY <2>1
  <2>6. [i \in items |-> Serial!Row(i).attempts] \in [items -> Nat]
    BY <2>1
  <2>7. \A k \in items : [i \in items |-> Serial!Row(i).attempts][k]
                           >= [i \in items |-> Serial!Row(i).attempts][k]
    BY <2>1
  <2>8. made[<<n, s>>] < [i \in items |-> Serial!Row(i).attempts][<<n, s>>]
    BY <2>1, <2>3
  <2> QED
    BY <2>2, <2>4, <2>5, <2>6, <2>7, <2>8 DEF Serial!Ledger!Make
<1> QED
  BY <1>9, <1>10, <1>11, <1>12 DEF SerialLedgerInv

\* Steps that file no stages anew.
LEMMA SerialUnwritten ==
    ASSUME SerialTypes, SerialTypes', SerialLedgerInv,
           \/ Serial!Start \/ Serial!LimitReached \/ Serial!SkipStage \/ Serial!StagesEnd
           \/ Serial!Cover \/ Serial!KeepQuote \/ Serial!AskQuote \/ Serial!MakeQuote
           \/ Serial!Killed \/ Serial!EditionChanges \/ UNCHANGED serialVars
           \/ \E n \in Serial!Planned, j \in Serial!Jobs : Serial!QuoteRemoved(n, j)
    PROVE  SerialLedgerInv' /\ UNCHANGED Serial!Ledger!ledger
<1>1. /\ UNCHANGED <<blocks, book, started>>
      /\ at' = "off" \/ known' = book \/ (known' = known /\ at # "off") \/ UNCHANGED <<at, known>>
      /\ at' \in {"begun", "staging"} => at' = at /\ here' = here
  BY DEF Serial!Start, Serial!LimitReached, Serial!SkipStage, Serial!StagesEnd, Serial!Cover,
         Serial!KeepQuote, Serial!AskQuote, Serial!MakeQuote, Serial!Killed,
         Serial!EditionChanges, Serial!QuoteRemoved, Serial!Gone, Serial!Looping,
         Serial!Staging, Serial!Quoting, serialVars, Serial!runnerDisk, Serial!runnerLocals
<1>2. \A n \in Serial!Planned : at' # "off" /\ book[n].shard => known'[n].shard
  BY <1>1 DEF SerialLedgerInv, Knows
<1> QED
  BY <1>1, <1>2, SerialStays

\* Shards that are filed with the stages they had.
LEMMA SerialFiled ==
    ASSUME SerialTypes, SerialTypes', SerialLedgerInv,
           \/ Serial!SkipAcquired \/ Serial!Open \/ Serial!FileQuote \/ Serial!FailQuote
           \/ Serial!CloseBlock
    PROVE  SerialLedgerInv' /\ UNCHANGED Serial!Ledger!ledger
<1>1. PICK n \in Serial!Planned, b \in Serial!BlockFiles :
         /\ here.number = n /\ Serial!File(b)
         /\ b.stages = blocks[n].stages
            \/ (~book[n].shard /\ b.stages = Serial!NewBlock.stages)
  <2>1. CASE Serial!SkipAcquired \/ Serial!Open
    <3>1. here.number \in Serial!Planned /\ Serial!Stored(here.number) \in Serial!BlockFiles
      BY <2>1, LoopingBlock DEF SerialTypes, Serial!SkipAcquired, Serial!Open
    <3>2. PICK n \in Serial!Planned, b \in Serial!BlockFiles :
              here.number = n /\ b = Serial!Stored(n)
      BY <3>1
    <3>3. Serial!File(b)
      BY <2>1, <3>2 DEF Serial!SkipAcquired, Serial!Open
    <3>4. b = blocks[n] \/ (~book[n].shard /\ b = Serial!NewBlock)
      <4>1. at # "off"
        BY <2>1 DEF Serial!SkipAcquired, Serial!Open, Serial!Looping
      <4> QED
        BY <3>2, <4>1 DEF Serial!Stored, SerialLedgerInv, Knows
    <3> QED
      BY <3>2, <3>3, <3>4
  <2>2. CASE Serial!FileQuote \/ Serial!FailQuote
    <3>1. here.number \in Serial!Planned /\ block' \in Serial!BlockFiles
          /\ block'.stages = block.stages /\ Serial!File(block')
      BY <2>2, QuoteRow DEF Serial!FileQuote, Serial!FailQuote
    <3>2. block.stages = blocks[here.number].stages
      BY <2>2 DEF SerialTypes, BlockInHand, Working, Serial!FileQuote, Serial!FailQuote
    <3>3. PICK n \in Serial!Planned, b \in Serial!BlockFiles : here.number = n /\ b = block'
      BY <3>1
    <3> QED
      BY <3>1, <3>2, <3>3 DEF Serial!File
  <2>3. CASE Serial!CloseBlock
    <3>1. /\ here.number \in Serial!Planned /\ block \in Serial!BlockFiles
          /\ block.stages = blocks[here.number].stages /\ Serial!File(block)
      BY <2>3 DEF SerialTypes, Serial!TypeOK, BlockInHand, Working, Serial!CloseBlock
    <3>2. PICK n \in Serial!Planned, b \in Serial!BlockFiles : here.number = n /\ b = block
      BY <3>1
    <3> QED
      BY <3>1, <3>2
  <2> QED
    BY <2>1, <2>2, <2>3
<1>2. /\ blocks'[n] = b /\ known'[n].shard
      /\ \A m \in Serial!Planned \ {n} : blocks'[m] = blocks[m] /\ known'[m] = known[m]
  BY <1>1, Filed DEF SerialTypes
<1>3. UNCHANGED <<book, started>> /\ at # "off" /\ at' \notin {"begun", "staging"}
  BY DEF Serial!SkipAcquired, Serial!Open, Serial!FileQuote, Serial!FailQuote,
         Serial!CloseBlock, Serial!Looping
<1>4. \A m \in Serial!Planned : book[m].shard => known'[m].shard
  BY <1>2, <1>3 DEF SerialLedgerInv, Knows
<1>5. \A m \in Serial!Planned :
         \/ blocks'[m].stages = blocks[m].stages
         \/ ~book[m].shard /\ blocks'[m].stages = Serial!NewBlock.stages
  BY <1>1, <1>2
<1> QED
  BY <1>3, <1>4, <1>5, SerialStays

\* Every step keeps the invariant, and is one of the ledger's.
LEMMA NextSerialLedger ==
    ASSUME SerialTypes, SerialTypes', SerialLedgerInv, [Serial!Next]_serialVars
    PROVE  SerialLedgerInv' /\ [Serial!Ledger!Next]_(Serial!Ledger!ledger)
<1>1. CASE \/ Serial!Start \/ Serial!LimitReached \/ Serial!SkipStage \/ Serial!StagesEnd
           \/ Serial!Cover \/ Serial!KeepQuote \/ Serial!AskQuote \/ Serial!MakeQuote
           \/ Serial!Killed \/ Serial!EditionChanges \/ UNCHANGED serialVars
           \/ \E n \in Serial!Planned, j \in Serial!Jobs : Serial!QuoteRemoved(n, j)
  BY <1>1, SerialUnwritten
<1>2. CASE \/ Serial!SkipAcquired \/ Serial!Open \/ Serial!FileQuote \/ Serial!FailQuote
           \/ Serial!CloseBlock
  BY <1>2, SerialFiled
<1>3. CASE \/ Serial!DiskFull \/ Serial!Opened \/ Serial!NextBlock \/ Serial!Finish
           \/ Serial!InterruptStage
  <2>1. /\ UNCHANGED <<blocks, started>> /\ at # "off" /\ book' = known
        /\ at' = "off" \/ known' = known
        /\ at' \notin {"begun", "staging"}
    BY <1>3 DEF Serial!DiskFull, Serial!Opened, Serial!NextBlock, Serial!Finish,
                Serial!InterruptStage, Serial!Gone, Serial!Looping, Serial!runnerLocals
  <2> QED
    BY <2>1, SerialWritten DEF Serial!Ledger!Next
<1>4. CASE Serial!BeginStage \/ Serial!EndStage
  BY <1>4, SerialRowed DEF Serial!Ledger!Next
<1>5. CASE Serial!CallStage
  BY <1>5, SerialCalled DEF Serial!Ledger!Next
<1> QED
  BY <1>1, <1>2, <1>3, <1>4, <1>5 DEF Serial!Next, Serial!RunnerStep

\* At first nothing is on record.
LEMMA InitSerialLedger == ASSUME Serial!Init PROVE SerialLedgerInv /\ Serial!Ledger!Init
<1>1. /\ at = "off"
      /\ \A n \in Serial!Planned : ~book[n].shard /\ blocks[n] = Serial!NewBlock
      /\ \A n \in Serial!Planned, s \in Serial!Stages : started[n][s] = 0
  BY DEF Serial!Init, Serial!NoBook, Serial!Unknown
<1>2. \A s \in Serial!Stages : /\ Serial!NewBlock.stages[s].status = "none"
                               /\ Serial!NewBlock.stages[s].attempts = 0
  BY DEF Serial!NewBlock
<1>3. SerialLedgerInv
  BY <1>1, <1>2, RowIs DEF SerialLedgerInv, Knows, Counts, Claims
<1>4. \A i \in Serial!Planned \X Serial!Stages :
         /\ Serial!Row(i).attempts = 0 /\ Serial!Row(i).status = "none"
         /\ started[i[1]][i[2]] = 0
  BY <1>1, <1>2 DEF Serial!Row
<1>5. Serial!Ledger!Init
  BY <1>4 DEF Serial!Ledger!Init
<1> QED
  BY <1>3, <1>5

\* The serial loop's variables, in its own order.
LEMMA SerialVars == [Serial!Next]_(Serial!runnerVars) => [Serial!Next]_serialVars
  BY DEF Serial!runnerVars, Serial!runnerDisk, Serial!runnerLocals, serialVars

\* The types of the serial loop.
THEOREM SerialTyped == Serial!Spec => []SerialTypes
<1>1. Serial!Init => SerialTypes
  BY InitSerialTypes
<1>2. SerialTypes /\ [Serial!Next]_(Serial!runnerVars) => SerialTypes'
  BY NextSerialTypes, SerialVars
<1> QED
  BY <1>1, <1>2, PTL DEF Serial!Spec

\* The serial loop implements the ledger: a stage's attempt is in the manifest's
\* shard before the stage is called, none is forgotten, and no stage is completed
\* that was never called (run_study's stages, _checkpoint_block, _write).
THEOREM SerialLedgerImplemented == Serial!Spec => Serial!Ledger!Spec
<1>1. Serial!Init => SerialLedgerInv /\ Serial!Ledger!Init
  BY InitSerialLedger
<1>2. SerialTypes /\ SerialTypes' /\ SerialLedgerInv /\ [Serial!Next]_(Serial!runnerVars)
      => SerialLedgerInv' /\ [Serial!Ledger!Next]_(Serial!Ledger!ledger)
  BY NextSerialLedger, SerialVars
<1> QED
  BY <1>1, <1>2, SerialTyped, PTL DEF Serial!Spec, Serial!Ledger!Spec

\* A directory is filled in one way, and the other stands still.
LEMMA StudyIsBoth == StudySpec => Spec /\ Serial!Spec
<1>1. StudyInit => Init /\ Serial!Init
  BY DEF StudyInit
<1>2. [StudyNext]_<<vars, serialVars, kind>>
      => [Next]_vars /\ [Serial!Next]_(Serial!runnerVars)
  BY DEF StudyNext, Serial!runnerVars, Serial!runnerDisk, Serial!runnerLocals, serialVars
<1> QED
  BY <1>1, <1>2, PTL DEF StudySpec, Spec, Serial!Spec

\* Work that costs requests is on record before it is made and is never forgotten,
\* whichever way the directory is filled, for any number of blocks, stages, workers,
\* runs and mishaps (begin and record; the stage loop and _checkpoint_block).
THEOREM StudyImplementsLedger == StudySpec => ImplementsLedger
  BY StudyIsBoth, LedgerImplemented, SerialLedgerImplemented, PTL DEF ImplementsLedger
-----------------------------------------------------------------------------
(* What the serial loop has passed it has settled.                         *)
\* A block that has been passed stays so while neither its shard, its summary nor its
\* reports change.
LEMMA PassedStays ==
    ASSUME NEW n, BlockPassed(n), ran' = ran, run'.mode = run.mode,
           blocks'[n] = blocks[n], known'[n] = known[n], quotes'[n] = quotes[n]
    PROVE  BlockPassed(n)'
<1>1. Serial!Summarised(blocks[n])' = Serial!Summarised(blocks[n])
  BY DEF Serial!Summarised, Serial!Jobs
<1>2. Serial!Quotable' = Serial!Quotable
  BY DEF Serial!Quotable
<1>3. Covered(blocks[n])'
  BY DEF BlockPassed, Covered, Serial!Stages
<1>4. ASSUME Serial!Quotable, NEW j \in Serial!Jobs
      PROVE  QuoteSettled(blocks[n].scenarios[j], quotes[n][j])'
  BY <1>4 DEF BlockPassed, QuoteSettled
<1> QED
  BY <1>1, <1>2, <1>3, <1>4 DEF BlockPassed, Serial!Jobs

\* A step within a block, or out of the loop, leaves the blocks before it as they are.
LEMMA PassingStays ==
    ASSUME Passing, ran' = ran, run'.mode = run.mode, here'.number = here.number,
           at # "off", at' \notin {"closed", "returned"},
           \A n \in Serial!Planned :
              n < here.number => /\ blocks'[n] = blocks[n] /\ known'[n] = known[n]
                                 /\ quotes'[n] = quotes[n]
    PROVE  Passing'
<1>1. ASSUME NEW n \in Serial!Planned, n < here.number PROVE BlockPassed(n)'
  <2>1. BlockPassed(n)
    BY <1>1 DEF Passing
  <2> QED
    BY <1>1, <2>1, PassedStays
<1> QED
  BY <1>1 DEF Passing, Serial!Planned

\* A change to the block in hand is none to the ones before it.
LEMMA OthersStay ==
    ASSUME Serial!TypeOK, NEW n \in Serial!Planned, here.number = n,
           NEW b \in Serial!BlockFiles, Serial!File(b), UNCHANGED quotes
    PROVE  \A m \in Serial!Planned :
              m < here.number => /\ blocks'[m] = blocks[m] /\ known'[m] = known[m]
                                 /\ quotes'[m] = quotes[m]
<1>1. \A m \in Serial!Planned : m < n => m # n
  BY SerialNumbers DEF Serial!Planned
<1> QED
  BY <1>1, Filed

\* The block filed has its quotes made after they were asked for.
LEMMA MadeFiled ==
    ASSUME Serial!TypeOK, Made, NEW n \in Serial!Planned, here.number = n,
           NEW b \in Serial!BlockFiles, Serial!File(b), MadeAfter(b), MadeAfter(block)'
    PROVE  Made'
<1>1. /\ blocks'[n] = b
      /\ \A m \in Serial!Planned \ {n} : blocks'[m] = blocks[m]
  BY Filed
<1>2. ASSUME NEW m \in Serial!Planned PROVE MadeAfter(blocks[m])'
  BY <1>1 DEF Made, MadeAfter, Serial!Jobs
<1> QED
  BY <1>2 DEF Made, Serial!Planned

\* The first block is the first.
LEMMA FirstBlock == \A n \in Serial!Planned : ~(n < 1)
  BY SerialNumbers DEF Serial!Planned

\* A block without a shard has no quotes.
LEMMA NewBlockMade == MadeAfter(Serial!NewBlock) /\ MadeAfter(Serial!NewBlock)'
  BY DEF MadeAfter, Serial!NewBlock, Serial!Jobs

\* Nothing has been passed at first.
LEMMA InitSerialRun == ASSUME Serial!Init PROVE SerialRunInv
<1>1. /\ at = "off" /\ ran.opened = 0 /\ edition = 1 /\ block = Serial!NewBlock
      /\ \A n \in Serial!Planned : blocks[n] = Serial!NewBlock
  BY DEF Serial!Init
<1> QED
  BY <1>1, NewBlockMade DEF SerialRunInv, Passing, InHandCovered, InHandQuoted, Made

\* Nor by a run that begins, or when the process is gone.
LEMMA StartSerialRun ==
    ASSUME SerialTypes, SerialRunInv,
           \/ Serial!Start \/ Serial!Killed \/ Serial!InterruptStage
           \/ \E n \in Serial!Planned, j \in Serial!Jobs : Serial!QuoteRemoved(n, j)
    PROVE  SerialRunInv'
<1>1. /\ block' = Serial!NewBlock /\ here' = Serial!Idle /\ UNCHANGED <<blocks, edition>>
      /\ \/ at' = "off" /\ ran' = ran
         \/ at' = "next" /\ ran'.opened = edition
  <2>1. CASE Serial!Start
    BY <2>1 DEF Serial!Start, Serial!runnerDisk
  <2>2. ASSUME Serial!Gone PROVE /\ block' = Serial!NewBlock /\ here' = Serial!Idle
                                 /\ UNCHANGED <<blocks, edition, ran>> /\ at' = "off"
    BY <2>2 DEF Serial!Gone
  <2> QED
    BY <2>1, <2>2 DEF Serial!Killed, Serial!InterruptStage, Serial!QuoteRemoved
<1>2. Passing'
  BY <1>1, FirstBlock DEF Passing, Serial!Idle, Serial!Planned
<1>3. InHandCovered'
  BY <1>1 DEF SerialTypes, Serial!TypeOK, Serial!Editions, SerialRunInv, InHandCovered
<1>4. InHandQuoted'
  BY <1>1 DEF InHandQuoted
<1>5. Made'
  BY <1>1, NewBlockMade DEF SerialRunInv, Made, MadeAfter, Serial!Planned, Serial!Jobs
<1> QED
  BY <1>2, <1>3, <1>4, <1>5 DEF SerialRunInv

\* Nor does it matter that the disk is full, that the limit is reached or that the run
\* returns, or that the inventories change.
LEMMA MoveSerialRun ==
    ASSUME SerialTypes, SerialRunInv,
           \/ Serial!DiskFull \/ Serial!LimitReached \/ Serial!Finish \/ Serial!EditionChanges
           \/ UNCHANGED serialVars
    PROVE  SerialRunInv'
<1>1. /\ UNCHANGED <<blocks, quotes, known, block, here, ran>> /\ run'.mode = run.mode
      /\ \/ at' = "finish" /\ at # "off" /\ edition' = edition
         \/ at' = "returned" /\ at # "off" /\ book' = known /\ edition' = edition
         \/ UNCHANGED <<at, book>> /\ edition' \in {edition, edition + 1}
  BY DEF Serial!DiskFull, Serial!LimitReached, Serial!Finish, Serial!EditionChanges,
         Serial!Looping, Serial!runnerDisk, Serial!runnerLocals, serialVars, SerialTypes,
         Serial!TypeOK
<1>2. ASSUME NEW n \in Serial!Planned, BlockPassed(n) PROVE BlockPassed(n)'
  BY <1>1, <1>2, PassedStays
<1>3. here.number \in Serial!Planned \/ at' # "closed"
  BY <1>1 DEF SerialTypes, BlockInHand, Working
<1>4. Passing'
  <2>1. at' # "off" => \A n \in Serial!Planned : n < here'.number => BlockPassed(n)'
    BY <1>1, <1>2 DEF SerialRunInv, Passing
  <2>2. at' = "closed" => BlockPassed(here.number)'
    BY <1>1, <1>2, <1>3 DEF SerialRunInv, Passing
  <2> QED
    BY <1>1, <2>1, <2>2 DEF SerialRunInv, Passing, Serial!Planned
<1>5. edition' >= edition /\ edition' \in Nat /\ edition \in Nat
      /\ ran.opened \in Nat /\ here.inventory \in Nat
  BY <1>1 DEF SerialTypes, Serial!TypeOK, Serial!Editions
<1>6. InHandCovered'
  <2>1. ran'.opened <= edition'
    BY <1>1, <1>5 DEF SerialRunInv, InHandCovered
  <2>2. Covered(block)' = Covered(block)
    BY <1>1 DEF Covered, Serial!Stages
  <2> QED
    BY <1>1, <2>1, <2>2 DEF SerialRunInv, InHandCovered
<1>7. InHandQuoted'
  <2>1. Serial!Quotable' = Serial!Quotable
    BY <1>1 DEF Serial!Quotable
  <2>2. here.inventory <= edition => here'.inventory <= edition'
    BY <1>1, <1>5
  <2>3. \A j \in Serial!Jobs :
           QuoteSettled(block.scenarios[j], quotes[here.number][j])'
              = QuoteSettled(block.scenarios[j], quotes[here.number][j])
    BY <1>1 DEF QuoteSettled
  <2> QED
    BY <1>1, <2>1, <2>2, <2>3 DEF SerialRunInv, InHandQuoted, Serial!Jobs
<1>8. Made'
  BY <1>1 DEF SerialRunInv, Made, MadeAfter, Serial!Planned, Serial!Jobs
<1> QED
  BY <1>4, <1>6, <1>7, <1>8 DEF SerialRunInv

\* A block that is skipped has been acquired under the inventories as they are.
LEMMA SkipSerialRun == ASSUME SerialTypes, SerialRunInv, Serial!SkipAcquired PROVE SerialRunInv'
<1>1. Serial!TypeOK /\ Serial!Looping
  BY DEF SerialTypes, Serial!SkipAcquired
<1>2. PICK n \in Serial!Planned, b \in Serial!BlockFiles :
         here.number = n /\ b = Serial!Stored(n)
  BY <1>1, LoopingBlock
<1>3. /\ Serial!File(b) /\ here' = [here EXCEPT !.number = @ + 1]
      /\ UNCHANGED <<book, quotes, edition, at, block, run, ran, started, troubles>>
  BY <1>2 DEF Serial!SkipAcquired
<1>4. at = "next" /\ at' = "next"
  BY <1>1, <1>3 DEF Serial!Looping
<1>5. /\ blocks'[n] = b /\ known'[n] = Serial!Summarised(b)
      /\ \A m \in Serial!Planned \ {n} : blocks'[m] = blocks[m] /\ known'[m] = known[m]
  BY <1>1, <1>2, <1>3, Filed
<1>6. /\ ~Serial!Quotable /\ b.inventory = edition
      /\ \A s \in Serial!Stages : b.stages[s].status = "completed"
  <2>1. Serial!Skipping
    BY DEF Serial!SkipAcquired
  <2>2. ~Serial!Quotable /\ Serial!StagesReady(b, edition)
    BY <1>2, <2>1 DEF Serial!Skipping
  <2>3. Serial!Acquires
    BY <2>2 DEF Serial!Quotable, Serial!Acquires
  <2> QED
    BY <2>2, <2>3 DEF Serial!StagesReady, Serial!Done
<1>7. BlockPassed(n)'
  <2>1. Serial!Summarised(blocks[n])' = Serial!Summarised(b)
    BY <1>5 DEF Serial!Summarised, Serial!Jobs
  <2>2. Covered(blocks[n])'
    BY <1>3, <1>5, <1>6 DEF SerialRunInv, InHandCovered, Covered, Serial!Stages
  <2>3. ~Serial!Quotable'
    BY <1>3, <1>6 DEF Serial!Quotable
  <2> QED
    BY <1>5, <2>1, <2>2, <2>3 DEF BlockPassed
<1>8. here'.number = n + 1
  BY <1>1, <1>2, <1>3, PlaceTyped DEF Places
<1>9. ASSUME NEW m \in Serial!Planned, m < n + 1 PROVE BlockPassed(m)'
  <2>1. CASE m = n
    BY <1>7, <2>1
  <2>2. CASE m # n
    <3>1. m < n
      BY <1>9, <2>2, SerialNumbers DEF Serial!Planned
    <3>2. BlockPassed(m)
      BY <1>2, <1>4, <3>1 DEF SerialRunInv, Passing
    <3> QED
      BY <1>3, <1>5, <2>2, <3>2, PassedStays
  <2> QED
    BY <2>1, <2>2
<1>10. Passing'
  BY <1>4, <1>8, <1>9 DEF Passing, Serial!Planned
<1>11. MadeAfter(b) /\ MadeAfter(block)'
  BY <1>2, <1>3, NewBlockMade DEF SerialRunInv, Made, MadeAfter, Serial!Stored, Serial!Jobs
<1>12. Made'
  BY <1>1, <1>2, <1>3, <1>11, MadeFiled DEF SerialRunInv
<1>13. InHandCovered' /\ InHandQuoted'
  BY <1>3, <1>4 DEF SerialRunInv, InHandCovered, InHandQuoted
<1> QED
  BY <1>10, <1>12, <1>13 DEF SerialRunInv

\* A block that is opened is the shard on disk, its quotes still to be looked at.
LEMMA OpenSerialRun == ASSUME SerialTypes, SerialRunInv, Serial!Open PROVE SerialRunInv'
<1>1. Serial!TypeOK /\ Serial!Looping
  BY DEF SerialTypes, Serial!Open
<1>2. PICK n \in Serial!Planned, b \in Serial!BlockFiles :
         here.number = n /\ b = Serial!Stored(n)
  BY <1>1, LoopingBlock
<1>3. /\ Serial!File(b) /\ block' = b /\ at = "next" /\ at' = "opened"
      /\ here' = [here EXCEPT !.stage = 1, !.job = 1, !.inventory = edition]
      /\ UNCHANGED <<book, quotes, edition, ran, started, troubles>>
      /\ run'.mode = run.mode
  BY <1>1, <1>2, PlaceTyped DEF Serial!Open, Serial!Looping, Runs
<1>4. here'.number = here.number /\ here'.job = 1
  BY <1>1, <1>3, PlaceTyped DEF Places
<1>5. Passing'
  BY <1>1, <1>2, <1>3, <1>4, OthersStay, PassingStays DEF SerialRunInv
<1>6. MadeAfter(b) /\ MadeAfter(block)'
  BY <1>2, <1>3, NewBlockMade DEF SerialRunInv, Made, MadeAfter, Serial!Stored, Serial!Jobs
<1>7. Made'
  BY <1>1, <1>2, <1>3, <1>6, MadeFiled DEF SerialRunInv
<1>8. InHandCovered' /\ InHandQuoted'
  BY <1>3, <1>4 DEF SerialRunInv, InHandCovered, InHandQuoted
<1> QED
  BY <1>5, <1>7, <1>8 DEF SerialRunInv

\* Stages change neither the quotes of the block in hand nor the blocks before it.
LEMMA StageSerialRun ==
    ASSUME SerialTypes, SerialRunInv,
           \/ Serial!Opened \/ Serial!SkipStage \/ Serial!BeginStage \/ Serial!CallStage
           \/ Serial!EndStage \/ Serial!StagesEnd
    PROVE  SerialRunInv'
<1>1. /\ at \in {"opened", "stage", "begun", "staging"}
      /\ at' \in {"stage", "begun", "staging", "cover"}
      /\ UNCHANGED <<quotes, edition, run, ran>>
      /\ here' = here \/ (here.stage \in Serial!Stages /\ here' = [here EXCEPT !.stage = @ + 1])
  <2>1. Serial!EndStage => here.stage \in Serial!Stages
    BY DEF Serial!EndStage, SerialTypes, StepInHand
  <2>2. Serial!SkipStage => here.stage \in Serial!Stages
    BY StagingStage DEF Serial!SkipStage
  <2> QED
    BY <2>1, <2>2
       DEF Serial!Opened, Serial!SkipStage, Serial!BeginStage, Serial!CallStage,
           Serial!EndStage, Serial!StagesEnd, Serial!Staging, Serial!runnerDisk,
           Serial!runnerLocals
<1>2. PICK n \in Serial!Planned : here.number = n
  BY <1>1 DEF SerialTypes, BlockInHand, Working
<1>3. here'.number = here.number /\ here'.job = here.job
  BY <1>1, StageAfter DEF SerialTypes
<1>4. /\ block' \in Serial!BlockFiles /\ block'.scenarios = block.scenarios
      /\ Serial!File(block') \/ UNCHANGED <<blocks, known>>
  <2>1. CASE Serial!BeginStage \/ Serial!EndStage
    <3>1. PICK s \in Serial!Stages, row \in Serial!StageRows :
             block' = [block EXCEPT !.stages[s] = row]
      BY <2>1, StageRow
    <3>2. block \in Serial!BlockFiles
      BY DEF SerialTypes, Serial!TypeOK
    <3> QED
      BY <2>1, <3>1, <3>2, StageChanged DEF Serial!BeginStage, Serial!EndStage
  <2>2. CASE Serial!Opened \/ Serial!SkipStage \/ Serial!CallStage \/ Serial!StagesEnd
    BY <2>2 DEF SerialTypes, Serial!TypeOK, Serial!BlockFiles, Serial!Opened, Serial!SkipStage,
           Serial!CallStage, Serial!StagesEnd, Serial!runnerDisk, Serial!runnerLocals
  <2> QED
    BY <2>1, <2>2
<1>5. PICK b \in Serial!BlockFiles : block' = b
  BY <1>4
<1>6. Serial!File(b) \/ UNCHANGED <<blocks, known>>
  BY <1>4, <1>5 DEF Serial!File
<1>7. \A m \in Serial!Planned :
         m < here.number => /\ blocks'[m] = blocks[m] /\ known'[m] = known[m]
                            /\ quotes'[m] = quotes[m]
  BY <1>1, <1>2, <1>6, OthersStay DEF SerialTypes
<1>8. Passing'
  BY <1>1, <1>3, <1>7, PassingStays DEF SerialRunInv
<1>9. MadeAfter(b) /\ MadeAfter(block)'
  BY <1>4, <1>5 DEF SerialRunInv, Made, MadeAfter, Serial!Jobs
<1>10. Made'
  <2>1. CASE Serial!File(b)
    BY <1>2, <1>9, <2>1, MadeFiled DEF SerialTypes, SerialRunInv
  <2>2. CASE UNCHANGED <<blocks, known>>
    BY <1>9, <2>2 DEF SerialRunInv, Made, MadeAfter, Serial!Planned, Serial!Jobs
  <2> QED
    BY <1>6, <2>1, <2>2
<1>11. InHandCovered' /\ InHandQuoted'
  BY <1>1, <1>3 DEF SerialRunInv, InHandCovered, InHandQuoted
<1> QED
  BY <1>8, <1>10, <1>11 DEF SerialRunInv

\* The coverage of a block is claimed under the inventories as they are.
LEMMA CoverSerialRun == ASSUME SerialTypes, SerialRunInv, Serial!Cover PROVE SerialRunInv'
<1>1. /\ at = "cover" /\ at' = IF Serial!Quotable THEN "quote" ELSE "close"
      /\ here' = [here EXCEPT !.inventory = edition]
      /\ UNCHANGED <<blocks, book, quotes, edition, known, run, ran>>
  BY DEF Serial!Cover, Serial!runnerDisk
<1>2. here'.number = here.number /\ here'.job = 1 /\ here'.inventory = edition
  BY <1>1, PlaceTyped DEF SerialTypes, Places, SerialRunInv, InHandQuoted
<1>3. /\ block'.scenarios = block.scenarios /\ block'.stages = block.stages
      /\ block'.inventory = block.inventory
      /\ block'.complete => \A s \in Serial!Stages : Serial!Done(block, s, edition)
  BY DEF Serial!Cover, SerialTypes, Serial!TypeOK, Serial!BlockFiles
<1>4. Passing'
  BY <1>1, <1>2, PassingStays DEF SerialRunInv
<1>5. Made'
  BY <1>1, <1>3 DEF SerialRunInv, Made, MadeAfter, Serial!Planned, Serial!Jobs
<1>6. InHandCovered'
  <2>1. ASSUME block'.complete
        PROVE  /\ ran'.opened <= block'.inventory
               /\ \A s \in Serial!Stages : block'.stages[s].status = "completed"
    <3>1. \A s \in Serial!Stages : block.stages[s].status = "completed"
                                   /\ block.inventory = edition
      BY <1>3, <2>1 DEF Serial!Done
    <3>2. 1 \in Serial!Stages
      BY SerialNumbers DEF Serial!Stages
    <3> QED
      BY <1>1, <1>3, <3>1, <3>2 DEF SerialRunInv, InHandCovered
  <2> QED
    BY <1>1, <2>1 DEF SerialRunInv, InHandCovered, Covered, Serial!Stages
<1>7. InHandQuoted'
  <2>1. \A j \in Serial!Jobs : ~(j < 1)
    BY SerialNumbers DEF Serial!Jobs
  <2>2. Serial!Quotable' = Serial!Quotable
    BY <1>1 DEF Serial!Quotable
  <2>3. here'.inventory <= edition' /\ ran'.opened <= here'.inventory
    BY <1>1, <1>2 DEF SerialTypes, Serial!TypeOK, Serial!Editions, SerialRunInv, InHandCovered
  <2> QED
    BY <1>1, <1>2, <2>1, <2>2, <2>3 DEF InHandQuoted, Serial!Jobs
<1> QED
  BY <1>4, <1>5, <1>6, <1>7 DEF SerialRunInv

\* A step within the quotes of a block: those settled stay so, and so do the blocks before.
LEMMA QuotesGoOn ==
    ASSUME SerialTypes, SerialRunInv, UNCHANGED <<ran, edition>>, run'.mode = run.mode,
           at \in {"quote", "quoting", "filed"}, at' \in {"quote", "quoting", "filed"},
           here'.number = here.number, here'.inventory = here.inventory,
           block'.stages = block.stages, block'.inventory = block.inventory,
           block'.complete = block.complete,
           \A m \in Serial!Planned :
              m < here.number => /\ blocks'[m] = blocks[m] /\ known'[m] = known[m]
                                 /\ quotes'[m] = quotes[m],
           \A j \in Serial!Jobs :
              j < here'.job => QuoteSettled(block.scenarios[j], quotes[here.number][j])',
           at' \in {"quoting", "filed"} => block'.scenarios[here'.job].inventory = here.inventory,
           at' = "filed" => here.inventory <= quotes'[here.number][here'.job],
           Made'
    PROVE  SerialRunInv'
<1>1. Passing'
  BY PassingStays DEF SerialRunInv
<1>2. InHandCovered'
  BY DEF SerialRunInv, InHandCovered, Covered, Serial!Stages
<1>3. InHandQuoted'
  <2>1. \A j \in Serial!Jobs :
           j < here'.job => QuoteSettled(block.scenarios[j], quotes[here.number][j])'
    OBVIOUS
  <2> QED
    BY <2>1 DEF SerialRunInv, InHandQuoted, Serial!Jobs
<1> QED
  BY <1>1, <1>2, <1>3 DEF SerialRunInv

\* A quote on record is kept if it was asked for under the inventories as they are and
\* its report is the one filed.
LEMMA KeepSerialRun == ASSUME SerialTypes, SerialRunInv, Serial!KeepQuote PROVE SerialRunInv'
<1>1. /\ at = "quote" /\ here' = [here EXCEPT !.job = @ + 1]
      /\ UNCHANGED <<blocks, book, quotes, edition, at, known, block, run, ran>>
  BY DEF Serial!KeepQuote, Serial!Quoting, Serial!runnerDisk
<1>2. PICK n \in Serial!Planned, j \in Serial!Jobs : here.number = n /\ here.job = j
  BY QuotingJob DEF Serial!KeepQuote
<1>3. here'.number = n /\ here'.inventory = here.inventory /\ here'.job = j + 1
  BY <1>1, <1>2, JobAfter DEF SerialTypes
<1>4. QuoteSettled(block.scenarios[j], quotes[n][j])
  BY <1>1, <1>2 DEF Serial!KeepQuote, Serial!Kept, Serial!Complete, QuoteSettled,
       SerialRunInv, InHandQuoted
<1>5. ASSUME NEW i \in Serial!Jobs, i < j + 1
      PROVE  QuoteSettled(block.scenarios[i], quotes[here.number][i])'
  <2>1. i = j \/ i < j
    BY <1>5, SerialNumbers DEF Serial!Jobs
  <2>2. QuoteSettled(block.scenarios[i], quotes[n][i])
    BY <1>1, <1>2, <1>4, <2>1 DEF SerialRunInv, InHandQuoted
  <2> QED
    BY <1>1, <1>2, <1>3, <2>2 DEF QuoteSettled
<1>6. Made'
  BY <1>1 DEF SerialRunInv, Made, MadeAfter, Serial!Planned, Serial!Jobs
<1> QED
  BY <1>1, <1>2, <1>3, <1>5, <1>6, QuotesGoOn

\* Another is asked for again.
LEMMA AskSerialRun == ASSUME SerialTypes, SerialRunInv, Serial!AskQuote PROVE SerialRunInv'
<1>1. /\ at = "quote" /\ at' = "quoting"
      /\ UNCHANGED <<blocks, book, quotes, edition, known, here, run, ran>>
  BY DEF Serial!AskQuote, Serial!Quoting, Serial!runnerDisk
<1>2. PICK n \in Serial!Planned, j \in Serial!Jobs : here.number = n /\ here.job = j
  BY QuoteRow
<1>3. PICK q \in Serial!Quotes : /\ block' = [block EXCEPT !.scenarios[j] = q]
                                 /\ q.status = "planned" /\ q.inventory = here.inventory
  BY <1>2, QuoteRow
<1>4. /\ block'.scenarios[j] = q
      /\ \A i \in Serial!Jobs \ {j} : block'.scenarios[i] = block.scenarios[i]
      /\ block'.stages = block.stages /\ block'.inventory = block.inventory
      /\ block'.complete = block.complete
  <2>1. block \in Serial!BlockFiles
    BY DEF SerialTypes, Serial!TypeOK
  <2> QED
    BY <1>3, <2>1, QuoteChanged
<1>5. ASSUME NEW i \in Serial!Jobs, i < j
      PROVE  QuoteSettled(block.scenarios[i], quotes[here.number][i])'
  <2>1. QuoteSettled(block.scenarios[i], quotes[n][i])
    BY <1>1, <1>2, <1>5 DEF SerialRunInv, InHandQuoted
  <2>2. block'.scenarios[i] = block.scenarios[i]
    BY <1>4, <1>5, SerialNumbers DEF Serial!Jobs
  <2> QED
    BY <1>1, <1>2, <2>1, <2>2 DEF QuoteSettled
<1>6. Made'
  <2>1. MadeAfter(block)'
    <3> SUFFICES ASSUME NEW i \in Serial!Jobs, block'.scenarios[i].status = "completed"
                 PROVE  block'.scenarios[i].inventory <= block'.scenarios[i].digest
      BY DEF MadeAfter, Serial!Jobs
    <3> QED
      BY <1>3, <1>4 DEF SerialRunInv, Made, MadeAfter
  <2> QED
    BY <1>1, <2>1 DEF SerialRunInv, Made, MadeAfter, Serial!Planned, Serial!Jobs
<1> QED
  BY <1>1, <1>2, <1>3, <1>4, <1>5, <1>6, QuotesGoOn

\* It is made on the inventories as they are by then.
LEMMA MakeSerialRun == ASSUME SerialTypes, SerialRunInv, Serial!MakeQuote PROVE SerialRunInv'
<1>1. /\ at = "quoting" /\ at' = "filed"
      /\ UNCHANGED <<blocks, book, edition, known, block, here, run, ran>>
  BY DEF Serial!MakeQuote, Serial!runnerLocals
<1>2. PICK n \in Serial!Planned, j \in Serial!Jobs : here.number = n /\ here.job = j
  BY <1>1 DEF SerialTypes, BlockInHand, StepInHand, Working
<1>3. /\ quotes'[n][j] = edition
      /\ \A i \in Serial!Jobs \ {j} : quotes'[n][i] = quotes[n][i]
      /\ \A m \in Serial!Planned \ {n} : quotes'[m] = quotes[m]
  <2>1. quotes \in [Serial!Planned -> [Serial!Jobs -> Serial!Editions]]
        /\ quotes[n] \in [Serial!Jobs -> Serial!Editions]
    BY DEF SerialTypes, Serial!TypeOK
  <2>2. quotes' = [quotes EXCEPT ![n] = [quotes[n] EXCEPT ![j] = edition]]
    BY <1>2 DEF Serial!MakeQuote
  <2> QED
    BY <2>1, <2>2
<1>4. \A m \in Serial!Planned : m < n => m # n
  BY SerialNumbers DEF Serial!Planned
<1>5. ASSUME NEW i \in Serial!Jobs, i < j
      PROVE  QuoteSettled(block.scenarios[i], quotes[here.number][i])'
  <2>1. QuoteSettled(block.scenarios[i], quotes[n][i])
    BY <1>1, <1>2, <1>5 DEF SerialRunInv, InHandQuoted
  <2>2. quotes'[n][i] = quotes[n][i]
    BY <1>3, <1>5, SerialNumbers DEF Serial!Jobs
  <2> QED
    BY <1>1, <1>2, <2>1, <2>2 DEF QuoteSettled
<1>6. Made'
  BY <1>1 DEF SerialRunInv, Made, MadeAfter, Serial!Planned, Serial!Jobs
<1>7. here.inventory <= edition /\ block.scenarios[j].inventory = here.inventory
  BY <1>1, <1>2 DEF SerialRunInv, InHandQuoted
<1>8. \A m \in Serial!Planned :
         m < here.number => /\ blocks'[m] = blocks[m] /\ known'[m] = known[m]
                            /\ quotes'[m] = quotes[m]
  BY <1>1, <1>2, <1>3, <1>4
<1> QED
  BY <1>1, <1>2, <1>3, <1>5, <1>6, <1>7, <1>8, QuotesGoOn

\* It is filed with its report, or as failed.
LEMMA FileSerialRun ==
    ASSUME SerialTypes, SerialRunInv, Serial!FileQuote \/ Serial!FailQuote
    PROVE  SerialRunInv'
<1>1. /\ at \in {"quoting", "filed"} /\ at' = "quote" /\ (Serial!FileQuote => at = "filed")
      /\ Serial!File(block') /\ here' = [here EXCEPT !.job = @ + 1]
      /\ UNCHANGED <<book, quotes, edition, run, ran>>
  BY DEF Serial!FileQuote, Serial!FailQuote
<1>2. PICK n \in Serial!Planned, j \in Serial!Jobs : here.number = n /\ here.job = j
  BY QuoteRow
<1>3. PICK q \in Serial!Quotes :
         /\ block' = [block EXCEPT !.scenarios[j] = q]
         /\ \/ q.status = "failed"
            \/ /\ q.status = "completed" /\ q.digest = quotes[n][j] /\ at = "filed"
               /\ q.inventory = block.scenarios[j].inventory
  <2>1. CASE Serial!FileQuote
    BY <1>1, <1>2, <2>1, QuoteRow
  <2>2. CASE Serial!FailQuote
    BY <1>2, <2>2, QuoteRow
  <2> QED
    BY <2>1, <2>2
<1>4. /\ block' \in Serial!BlockFiles /\ block'.scenarios[j] = q
      /\ \A i \in Serial!Jobs \ {j} : block'.scenarios[i] = block.scenarios[i]
      /\ block'.stages = block.stages /\ block'.inventory = block.inventory
      /\ block'.complete = block.complete
  BY <1>3, QuoteChanged DEF SerialTypes, Serial!TypeOK
<1>5. here'.number = n /\ here'.inventory = here.inventory /\ here'.job = j + 1
  BY <1>1, <1>2, JobAfter DEF SerialTypes
<1>6. q.status = "completed" => /\ q.digest = quotes[n][j] /\ q.inventory = here.inventory
                                /\ ran.opened <= here.inventory
                                /\ here.inventory <= quotes[n][j]
  BY <1>1, <1>2, <1>3 DEF SerialRunInv, InHandQuoted
<1>7. ASSUME NEW i \in Serial!Jobs, i < j + 1
      PROVE  QuoteSettled(block.scenarios[i], quotes[here.number][i])'
  <2>1. CASE i = j
    <3>1. q.status \in {"completed", "failed"}
      BY <1>3
    <3> QED
      BY <1>1, <1>4, <1>5, <1>6, <2>1, <3>1 DEF QuoteSettled
  <2>2. CASE i # j
    <3>1. i < j
      BY <1>7, <2>2, SerialNumbers DEF Serial!Jobs
    <3>2. QuoteSettled(block.scenarios[i], quotes[n][i])
      <4>1. at \in {"quote", "quoting", "filed"}
        BY <1>1
      <4> QED
        BY <1>2, <3>1, <4>1 DEF SerialRunInv, InHandQuoted
    <3> QED
      BY <1>1, <1>4, <1>5, <2>2, <3>2 DEF QuoteSettled
  <2> QED
    BY <2>1, <2>2
<1>8. PICK b \in Serial!BlockFiles : b = block'
  BY <1>4
<1>9. Serial!File(b)
  BY <1>1, <1>8 DEF Serial!File
<1>10. MadeAfter(b) /\ MadeAfter(block)'
  <2>1. ASSUME NEW i \in Serial!Jobs, block'.scenarios[i].status = "completed"
        PROVE  block'.scenarios[i].inventory <= block'.scenarios[i].digest
    <3>1. CASE i = j
      BY <1>4, <1>6, <2>1, <3>1
    <3>2. CASE i # j
      BY <1>4, <2>1, <3>2 DEF SerialRunInv, Made, MadeAfter
    <3> QED
      BY <3>1, <3>2
  <2> QED
    BY <1>8, <2>1 DEF MadeAfter, Serial!Jobs
<1>11. Made'
  BY <1>2, <1>9, <1>10, MadeFiled DEF SerialTypes, SerialRunInv
<1>12. \A m \in Serial!Planned :
         m < here.number => /\ blocks'[m] = blocks[m] /\ known'[m] = known[m]
                            /\ quotes'[m] = quotes[m]
  BY <1>1, <1>2, <1>9, OthersStay DEF SerialTypes
<1>13. /\ UNCHANGED <<ran, edition>> /\ run'.mode = run.mode
       /\ at \in {"quote", "quoting", "filed"} /\ at' = "quote"
       /\ here'.number = here.number
  BY <1>1, <1>2, <1>5
<1>14. \A i \in Serial!Jobs :
          i < here'.job => QuoteSettled(block.scenarios[i], quotes[here.number][i])'
  BY <1>5, <1>7
<1> QED
  BY <1>4, <1>5, <1>11, <1>12, <1>13, <1>14, QuotesGoOn

\* A block is closed when all its quotes are settled, or none are asked of this run.
LEMMA CloseSerialRun == ASSUME SerialTypes, SerialRunInv, Serial!CloseBlock PROVE SerialRunInv'
<1>1. /\ at = "close" \/ (at = "quote" /\ here.job > NumJobs)
      /\ at' = "closed"
      /\ Serial!File(block) /\ UNCHANGED <<book, quotes, edition, block, here, run, ran>>
  BY DEF Serial!CloseBlock
<1>2. PICK n \in Serial!Planned : here.number = n
  BY <1>1 DEF SerialTypes, BlockInHand, Working
<1>3. PICK b \in Serial!BlockFiles : b = block
  BY DEF SerialTypes, Serial!TypeOK
<1>4. Serial!File(b)
  BY <1>1, <1>3
<1>5. /\ blocks'[n] = b /\ known'[n] = Serial!Summarised(b)
      /\ \A m \in Serial!Planned \ {n} : blocks'[m] = blocks[m] /\ known'[m] = known[m]
  BY <1>2, <1>4, Filed DEF SerialTypes
<1>6. BlockPassed(n)'
  <2>1. Serial!Summarised(blocks[n])' = Serial!Summarised(b)
    BY <1>5 DEF Serial!Summarised, Serial!Jobs
  <2>2. Covered(blocks[n])'
    BY <1>1, <1>3, <1>5 DEF SerialRunInv, InHandCovered, Covered, Serial!Stages
  <2>3. ASSUME Serial!Quotable, NEW j \in Serial!Jobs
        PROVE  QuoteSettled(blocks[n].scenarios[j], quotes[n][j])'
    <3>1. at = "quote" /\ here.job > NumJobs
      BY <1>1, <2>3 DEF SerialRunInv, InHandQuoted
    <3>2. j < here.job
      BY <3>1, SerialNumbers, PlaceTyped DEF Serial!Jobs, SerialTypes, Places
    <3>3. QuoteSettled(b.scenarios[j], quotes[n][j])
      BY <1>2, <1>3, <3>1, <3>2 DEF SerialRunInv, InHandQuoted
    <3> QED
      BY <1>1, <1>5, <3>3 DEF QuoteSettled
  <2>4. Serial!Quotable' = Serial!Quotable
    BY <1>1 DEF Serial!Quotable
  <2> QED
    BY <1>5, <2>1, <2>2, <2>3, <2>4 DEF BlockPassed, Serial!Jobs
<1>7. \A m \in Serial!Planned :
         m < n => /\ blocks'[m] = blocks[m] /\ known'[m] = known[m] /\ quotes'[m] = quotes[m]
  BY <1>1, <1>2, <1>4, OthersStay DEF SerialTypes
<1>8. ASSUME NEW m \in Serial!Planned, m < n PROVE BlockPassed(m)'
  <2>1. BlockPassed(m)
    BY <1>1, <1>2, <1>8 DEF SerialRunInv, Passing
  <2> QED
    BY <1>1, <1>7, <1>8, <2>1, PassedStays
<1>9. Passing'
  BY <1>1, <1>2, <1>6, <1>8 DEF Passing, Serial!Planned
<1>10. MadeAfter(b) /\ MadeAfter(block)'
  BY <1>1, <1>3 DEF SerialRunInv, Made, MadeAfter, Serial!Jobs
<1>11. Made'
  BY <1>2, <1>4, <1>10, MadeFiled DEF SerialTypes, SerialRunInv
<1>12. InHandCovered' /\ InHandQuoted'
  BY <1>1 DEF SerialRunInv, InHandCovered, InHandQuoted
<1> QED
  BY <1>9, <1>11, <1>12 DEF SerialRunInv

\* The next block is taken up when the one in hand has been passed.
LEMMA NextBlockSerialRun ==
    ASSUME SerialTypes, SerialRunInv, Serial!NextBlock PROVE SerialRunInv'
<1>1. /\ at = "closed" /\ at' = "next"
      /\ here' = [Serial!Idle EXCEPT !.number = here.number + 1]
      /\ UNCHANGED <<blocks, quotes, edition, known, block, run, ran>>
  BY DEF Serial!NextBlock
<1>2. PICK n \in Serial!Planned : here.number = n
  BY <1>1 DEF SerialTypes, BlockInHand, Working
<1>3. here'.number = n + 1
  BY <1>1, <1>2 DEF Serial!Idle
<1>4. ASSUME NEW m \in Serial!Planned, m < n + 1 PROVE BlockPassed(m)'
  <2>1. m = n \/ m < n
    BY <1>4, SerialNumbers DEF Serial!Planned
  <2>2. BlockPassed(m)
    BY <1>1, <1>2, <2>1 DEF SerialRunInv, Passing
  <2> QED
    BY <1>1, <2>2, PassedStays
<1>5. Passing'
  BY <1>1, <1>3, <1>4 DEF Passing, Serial!Planned
<1>6. Made'
  BY <1>1 DEF SerialRunInv, Made, MadeAfter, Serial!Planned, Serial!Jobs
<1>7. InHandCovered' /\ InHandQuoted'
  BY <1>1 DEF SerialRunInv, InHandCovered, InHandQuoted
<1> QED
  BY <1>5, <1>6, <1>7 DEF SerialRunInv

\* Every step of the serial loop keeps what it has settled.
LEMMA NextSerialRun ==
    ASSUME SerialTypes, SerialRunInv, [Serial!Next]_serialVars PROVE SerialRunInv'
  BY StartSerialRun, MoveSerialRun, SkipSerialRun, OpenSerialRun, StageSerialRun,
     CoverSerialRun, KeepSerialRun, AskSerialRun, MakeSerialRun, FileSerialRun,
     CloseSerialRun, NextBlockSerialRun
     DEF Serial!Next, Serial!RunnerStep

\* What the serial loop has passed of the blocks it has settled.
THEOREM SerialSettles == Serial!Spec => []SerialRunInv
<1>1. Serial!Init => SerialRunInv
  BY InitSerialRun
<1>2. SerialTypes /\ SerialRunInv /\ [Serial!Next]_(Serial!runnerVars) => SerialRunInv'
  BY NextSerialRun, SerialVars
<1> QED
  BY <1>1, <1>2, SerialTyped, PTL DEF Serial!Spec

\* What a full run has passed is every block of the plan.
LEMMA FullRunPassed ==
    ASSUME SerialTypes, SerialRunInv, Serial!FullRun
    PROVE  book = known /\ \A n \in Serial!Planned : BlockPassed(n)
<1>1. /\ at = "returned" /\ here.number > SerialBlocks
  BY DEF Serial!FullRun
<1>2. \A n \in Serial!Planned : n < here.number
  BY <1>1, SerialNumbers, PlaceTyped DEF SerialTypes, Places, Serial!Planned
<1> QED
  BY <1>1, <1>2 DEF SerialRunInv, Passing

\* A full run of the serial loop has settled every quote, and those it calls completed
\* have their report on disk, made on inventories no older than those they were asked
\* under, and those no older than the run's first (run_study, _complete).
THEOREM SerialQuotesBacked == StudySpec => []QuotesBacked
<1>1. SerialTypes /\ SerialRunInv => QuotesBacked
  <2> SUFFICES ASSUME SerialTypes, SerialRunInv, Serial!FullRun, Serial!Quotable,
                      NEW n \in Serial!Planned, NEW j \in Serial!Jobs
               PROVE  LET q == blocks[n].scenarios[j] IN
                         /\ q.status \in {"completed", "failed"}
                         /\ q.status = "completed" => /\ quotes[n][j] = q.digest
                                                      /\ q.digest >= q.inventory
                                                      /\ q.inventory >= ran.opened
    BY DEF QuotesBacked, Serial!QuotesBacked
  <2>1. QuoteSettled(blocks[n].scenarios[j], quotes[n][j])
    BY FullRunPassed DEF BlockPassed
  <2>2. blocks[n].scenarios[j].status = "completed"
        => blocks[n].scenarios[j].inventory <= blocks[n].scenarios[j].digest
    BY DEF SerialRunInv, Made, MadeAfter
  <2>3. blocks[n].scenarios[j] \in Serial!Quotes /\ ran.opened \in Nat
    BY DEF SerialTypes, Serial!TypeOK, Serial!BlockFiles, Serial!Editions
  <2> QED
    BY <2>1, <2>2, <2>3 DEF QuoteSettled, Serial!Quotes, Serial!Editions
<1> QED
  BY <1>1, StudyIsBoth, SerialTyped, SerialSettles, PTL

\* Where such a run of the serial loop claims complete coverage of a block, every stage of
\* it is completed, under inventories no older than the run's first.
LEMMA SerialCovers == SerialTypes /\ SerialRunInv => Serial!CoverageCurrent
<1> SUFFICES ASSUME SerialTypes, SerialRunInv, Serial!FullRun, NEW n \in Serial!Planned
             PROVE  /\ book[n] = Serial!Summarised(blocks[n])
                    /\ book[n].complete =>
                          /\ blocks[n].inventory >= ran.opened
                          /\ \A s \in Serial!Stages : blocks[n].stages[s].status = "completed"
  BY DEF Serial!CoverageCurrent
<1>1. book[n] = Serial!Summarised(blocks[n]) /\ Covered(blocks[n])
  BY FullRunPassed DEF BlockPassed
<1>2. blocks[n] \in Serial!BlockFiles /\ ran.opened \in Nat
  BY DEF SerialTypes, Serial!TypeOK, Serial!Editions
<1>3. book[n].complete = blocks[n].complete
  BY <1>1, <1>2, SummaryTyped
<1>4. blocks[n].inventory \in Nat
  BY <1>2 DEF Serial!BlockFiles, Serial!Editions
<1> QED
  BY <1>1, <1>2, <1>3, <1>4 DEF Covered

\* A full run, of either kind, that claims complete coverage has seen every block under
\* inventories no older than those it began with, whatever earlier runs left behind
\* (_summarize; _checkpoint_block and the shard's inventory identity).
THEOREM FullRunsCurrent == StudySpec => []FullRunsClaimCurrent
  BY StudyIsBoth, FullRunsAreCurrent, SerialTyped, SerialSettles, SerialCovers, PTL
     DEF FullRunsClaimCurrent

\* So does a run of the parallel collection that has settled every block of its plan.
THEOREM StudyRunsSettle == StudySpec => []FullRunSettles
  BY StudyIsBoth, FullRunsSettle, PTL
=============================================================================
