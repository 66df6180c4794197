# Swap Archeology in TLA+

Swap Archeology rebuilds the state of decentralised exchanges at a historical
Ethereum block, prices swaps on it in exact integers, and compares the routes it
finds with reference prices. Its results stand or fall with three promises: that
everything it reads belongs to the block it names; that the arithmetic done on it is
the arithmetic of the chain; and that what it keeps on disk (caches, checkpoints,
published files) says no more than was done, whatever crashes, is repeated or changes
in between. The modules here state these promises about the code under `src/`, check
them with TLC on small instances, and prove the most important ones with TLAPS for all
instances.

## The system

| Component | State it keeps | Operations | What makes it correct |
|---|---|---|---|
| RPC client (`rpc/client.py`, `rpc/headers.py`) | header files by number, SQLite table of call results by (block hash, to, data), log files by (address, topics, from, to), whether the provider takes block hashes | `get_block`, `eth_call`, `get_logs`, `_rpc` with retries | an answer filed under a block hash was produced by that block; answers are never replaced; log ranges have no gap; every call ends |
| Multicall (`rpc/multicall.py`) | nothing of its own; fills the call cache | `call` | batched reads return what direct reads return; a failure is believed only when seen alone |
| Snapshot store (`snapshot/store.py`) | `header.json` and `calls.json.gz` per block | `build`, `load`, `extend` | a stored snapshot only grows, whatever crashes |
| Acquisition (`universe.py`) | the run of one `acquire` | `acquire`, `load_states` | every pool not reported as failed has all its reads |
| Adapters (`adapters/`) | immutable `PoolState`s | read requests, `load_state`, `swap` | what was acquired loads; integer exactness; limits; no sequence of swaps is a gain |
| Evaluator (`evaluator/evaluate.py`) | one run of `evaluate` | `evaluate` | steps priced in order on the states they leave; feasible means a full fill |
| Solvers (`solver/`) | search frontiers | `solve` | a plan is never worse than the simplest one or an earlier one; pruning loses nothing |
| State collection (`collection*.py`) | reports, caches keyed by file signatures | `collect_block`, `prepared_collection_context` | a cached context is no older than its files |
| Study runner (`scripts/historical_study.py`) | manifest, one shard per block | serial and parallel collection, quotes, restart | attempts survive crashes; coverage is never overstated |
| Quote command (`cli.py`) | caches of inventories and prepared contexts | `quote_command` | a context is used only for the artifacts it was built from |
| Quote bridge (`web_api.py`), frontend proxy | answer files, a solver lock | `quote`, `reports` | one solver at a time; an answer is fresh and stands |
| Research scripts (`scripts/`) | one output directory each, with checkpoints, caches, indexes | collectors, worker pools, exporters | what is published is backed by the artifacts it names; resumption loses nothing |
| Discovery, explorer, other scripts, frontend | inventories, reports | one-shot builders and displays | input and output, no lasting protocol |

Calls go downward: the quote command, the collector and the study call `acquire`;
`acquire` asks adapters for reads and hands them to `SnapshotStore.extend`; the
store calls `Multicall3.call`; that calls `RpcClient.eth_call`. Solvers propose plans
and `Evaluator.evaluate` alone decides about them. Processes meet only on disk: the
cache directory, the snapshot directories, the inventories under `data/discovery`, the
manifests. The node is the other actor: it reorganises between any two requests,
refuses, limits and times out.

The hard behaviours, each listed in `PROJECT.json` at the line where it bites, are
reorganisations between the requests of one read, processes sharing files without
locks, crashes between two file operations, files that change between the computation
of a key and the reading of what it stands for, batches that fail for reasons their
members do not have, retries that meet halving, integer searches with overflow, ticks
and words at the border of what was loaded, and pools that share a reserve.

## Modules

### Reading the chain

**`NodeChain`** is the node, which is not part of the repository: a canonical fork
per height, and the forks it has abandoned. A fork label stands for a block hash.
A reorganisation moves every height from some point on to a fork nobody has seen;
an abandoned branch does not come back. (With branches that come back, the hash
before and after a by-number read could be equal although another branch was
canonical in between; the code cannot see that and the model says so here.)

**`RpcClient`** (extends `NodeChain`): `get_block` and `eth_call`. `headers` and
`calls` are the shared disk caches; `pc`, `block`, `spec`, `got`, `hashCalls`,
`returned` are each process's locals, `hashCalls` being `_block_hash_calls`. Every
answer of the node is one action, so `VerifyBefore`, `NumberAnswered` and
`VerifyAfter` are the three requests of the by-number route with anything in
between. An answer is identified by the block whose state produced it; retries of
`_rpc` are inside one action here and are the subject of the next module.

**`RpcLogs`** (extends `NodeChain`): `get_logs` and `_rpc`. The loop head is
`RangeDone`/`PlanChunk`; `CheckFile` is the reuse test with its live header;
`FetchLogs` and `SealFile` are the log request and the header request whose hash is
filed; `TransportFails`, `LimitExceeded`, `RangeRefused` and `RequestFails` are the
classes of failure `_rpc` and `get_logs` tell apart, with the attempts counted.
Other users of the cache directory appear as `HeaderFiled`. `WindowReorgs` says
whether the chain may reorganise a chunk between `FetchLogs` and `SealFile`.

**`Multicall`**: `Multicall3.call`. `missing`, `offset`, `size` and `chunk` are the
code's variables of the same names; batches may fail as a whole (`AggregateFails`),
a member may fail in the batch and be called alone (`SubcallAlone`) or raise there.

**`SnapshotStore`** and **`Acquire`**: one `extend` is a record of its program
counter, what it was asked for, the rows it has, and the file it holds open. File
names map to inodes because two processes share the name of the temporary: one may
go on writing to a file another has renamed. `Acquire` runs the phases of
`acquire` over it. An adapter is the sequence of its waves of reads: the LitePSM
has two, Uniswap V3 three. `Crash` kills a process anywhere. `MCReads` puts `Acquire`,
`Multicall` and `RpcLogs` side by side. In `Call` the places to be read
are the one enumeration of `Uncached` in increasing order (`InOrder`), which is what the
loop over `specs` builds.

### Pools

**`TickMath`** is the arithmetic Uniswap V3, V4 and Pancake V3 share: price
differences to amounts, the price after an input, one swap step, the tick bitmap with
its words. A table of prices at ticks stands for `getSqrtRatioAtTick`. **`TickPools`**
is the three adapters: the calls each wave asks for, in bulk or tick by tick and around
the hint of an earlier block; the state `load_state` builds from the answers that came;
the swap that walks initialized ticks within the words it has, or is refused at their
border. **`StablePools`** has both Curve adapters, the two Newton iterations as bounded
loops with the 255 turns as a parameter; a turn that would divide by zero refuses the
pool, as an iteration that never settles does. **`RatePools`** has those that price by a rate
or an offer: Lido's wrapper, the Origin ARM with its withdrawal queue, Fluid's two
curves, Bebop's offer, the USDS converter. **`PoolTrades`** takes one pool of any family
through its life: waves of reads of which some fail, `load_state`, and any swaps of one
trader. Its variable `whole` carries the same pool with everything loaded, so that a
partly loaded window can be compared with it.

**`LitePsm`** is the arithmetic of the LitePSM as one-step operators, with the
checked `uint256` multiplications cut to a word of `MaxUint`; `BuyGem` says what an
exact input of DAI buys by naming the exact preimage. It also has `litepsm_support`'s
endpoints. **`LitePsmTrades`** is the code: its binary search, step by step, and a
trader who sells and buys in any order. `SearchSettlesPreimage` is the refinement
between the two. `MCPools` holds `PoolTrades` and `LitePsmTrades`.

### Plans

**`Venues`** gives the pools an evaluation runs over (V2 pairs, LitePSM, wrapper,
converter), behind the `PoolState.swap` protocol. **`Evaluator`** is
`Evaluator.evaluate` over any `Swap`: `Reject`, `Begin`, one `ExecuteStep` per step,
`Settle`. The variable `chain` is not in the code: it holds the inventories as the same
steps would change them on chain, where pools of one owner share one, and
`PricedOnChainState` compares the code's `pool_states` with it.

**`BaselineSolver`** is `solver/baseline.py` as operators: routes of one and two hops,
the compilation of allocations into steps, the cheap quotes of splits (`SplitOutput`,
`OrderedOutput`, `AmountFirsts`) by which it decides what to compile, and `Evaluated`,
the verdict of the evaluator in one step. **`StatefulSearch`** is `solver/search.py`: a
beam search by depth (`Deepen`) and a ranking (`Rank`), with the amounts it tries,
the capacity boundary found by bisection, the deduplication of nodes, the heuristic
value of a node in exact fractions, and the cut after `max_expansions`. The dual solver
appears as what it is to the search: suggested actions. Their amounts are computed as
in `dual.py` for V2 pairs and LitePSMs; the prices the optimizer ends with are any of
`Prices`. `MCEvaluator` composes the two machines with one set of pools.

### Studies

**`StudyStore`** is the run directory of a study: `shards` (one per block),
`manifest` on disk, and `entries`, the manifest in the memory of the process. A block
is its acquisition row: status, attempts, the inventory identity it names, whether its
coverage is complete. `Begun` and `Recorded` are `begin` and `record`, `Checkpoint` is
`_checkpoint_block`, `EffectiveIdentity` is `_effective_inventory_identity`, which
depends on the inventory files (`version`) and on whether the header of the block is
cached already. **`StudyCollector`** is `_parallel_state_collection` over it. The
planning thread is `pc`: `plan` (`NothingToSchedule`, `SkipReady`, `DiskFull`,
`TakeBlock`), `begin` and `submit` (shard, then manifest, then worker), `wait`,
`record` and `recorded` (shard, then manifest), `close`. `tasks[n]` is the future of
block `n`. `Collect` and `CollectFails` are the worker's `collect_block`. `RecordAgain`
is the `except` clause after a `record` that failed; `Abort` and `Unwind` are an
exception on its way through the pool's `__exit__`; `Crash` kills the process. A next
run `Start`s from what is on disk.

**`StudyRunner`** is the serial loop of `run_study` over a directory of the other kind:
block after block the stages that are not done under the present inventories
(`BeginStage`, `CallStage`, `EndStage`, `StagesEnd`), the coverage (`Cover`), the quotes
(`KeepQuote`, `AskQuote`, `MakeQuote`, `FileQuote`, `FailQuote`), with the shard and the
manifest written where the code writes them.

**`AttemptLedger`** is the abstract specification of both: work that costs requests is
on record before it is made, the record is never shortened, and nothing is claimed that
was not attempted. `StudyCollector` maps its attempts to blocks, `StudyRunner` to pairs
of block and stage; `ImplementsLedger` says that each implements it. `Study` puts the
two kinds of directory side by side: `config_identity` keeps runs of one kind out of
directories of the other.

### Quotes

**`QuoteBridge`** is `QuoteBridge.quote` over `quote_command`. Each request is a thread
through `identify`, `parse`, `key`, `find`, `lock`, `recheck`, and once it holds the
lock the same reading of the inventories again, `prepare`, `build`, `rekey`, `publish`,
`release`. `parsed` and `contexts` are the two `OrderedDict` caches of `cli.py`, cut to
`Limit` entries. Inventories change and snapshots grow between any two steps.
**`CollectionQuotes`** is `prepared_collection_context`, with its stat, its reading and
its two caches, while `collect_block` of another process extends the snapshot and
replaces the report (`SnapshotExtended`, `Collected`) between any two of its steps. The
signature and the identity are each taken file by file, the report's part first
(`Sign`, `SignCalls`, `Identify`, `IdentifyCalls`). `amid` remembers the reports that
were put in place while a call had an earlier one in hand. `Quotes` puts the two machines
side by side.

### Research scripts

Each has one module: **`ExpansionCollector`** (`october_expansion_collect.py`:
processes, an advisory lock, pinned evidence that may be part of a block, files written
in place and files written through a temporary whose name the processes share, a manifest), **`CrashEvent`**
(`five_crash_liquidity.py`: a pool of workers, a checkpoint valid for one fingerprint,
artifacts, publication), **`SourcePrices`** (`october_source_prices.py`: workers over
shared artifacts, which go on when a sibling has failed and the run with it, also over an
edit of the code; one export), **`SwapEvents`** (`october_swap_events.py`: cached logs
of a branch that may have gone), **`CrashSelection`** (`select_binance_crashes.py`:
archives issued again, deepest falls days apart), **`SourcePipeline`**
(`source_expansion_pipeline.py`: plans through the old and the new sources),
**`OracleSweep`** (`recent_oracle_check.py`, `five_crash_oracle_check.py`: the search for
blocks by time, a pool of readers, candles), **`OracleReferences`**
(`collect_october_oracle_references.py` with `oracles/reference_collector.py`: pinned
reads, decoders, four files). `MCResearch` is the choice of one of them: they share no
directory and none waits for another.

`MC...` modules hold the instances that need definitions of their own, `...Proofs` modules the theorems.

## Runs

| Run | Instance | Shows |
|---|---|---|
| `rpc_pinned` | two processes, one height, three forks, a call that succeeds and one that reverts | `AnswersPinned`, `CacheNeverRewritten` under reorganisation, failure and restart |
| `rpc_logs_reorg` | a client over blocks 1 to 2, with reorganisations between the logs and their header | `ReusableFilesCurrent` fails |
| `reads` | one process acquiring four pools of one to three waves, with crashes; or five specs, two of which revert, in requests with repeats and batches of four; or a client over blocks 1 to 3 in chunks of 2, two forks, two attempts | `ReturnedAsDirect`, `AcquiredIsWhole`, `PublishedNeverShrinks`, `ReadsEnd`; `ChunksContiguous`, `ReuseReturnsCanonical`, `GetLogsEnds` |
| `multicall_repeats` | the batches of `reads` | `EveryPlaceFilled`, the closing assertion, fails |
| `acquire_two` | two processes, two pools | `AcquiredIsComplete` fails |
| `pools` | forty-five pools of ten families, up to one failed read and three swaps; a LitePSM of 14 DAI and 4 gem, fees in quarters, word 0..39 | `AcquiredLoads`, `SwapsAsWhole`, `TakerNeverGains`, `QuotesHold`, `ClaimsCovered`, `SearchSettlesPreimage`, `TraderNeverGains`, `SearchEnds` |
| `evaluator` | eight pools, four tokens, all plans of up to three of nineteen steps; or one of eight searches of up to four steps under two price vectors | `PricedOnChainState`, `TokensConserved`, `FeasibleIsFullFill`, `PlansAreBest` |
| `study` | collector: three blocks, two workers, two runs with or without a limit, two editions of the inventories, two mishaps; serial loop: two blocks of two stages and a quote, one mishap | `ImplementsLedger`, `CompleteFromNamedInventory`, `FullRunSettles`, `QuotesBacked`, `FullRunsClaimCurrent`, `RunsEnd` |
| `study_claim` | two blocks, two runs, no mishaps | `ClaimIsCurrent` fails |
| `quote` | two request threads, caches of one entry, two editions of inventories and snapshot, a restart; or one process over a block collected up to three times | `AnswersAreFresh`, `CollectionContextCurrent`, `AnswersStand`, `RequestsEnd` |
| `collection_replaced` | one process over a block collected twice | `ChangedEvidenceSeen` fails |
| `research` | each script's instance, below | `CompleteManifestTrue`, `PublishedCoherent`, `ReadingsExact`, `SwapsExact`, `ExportBacked`, `SelectionDeepest`, `NeverRegresses`, `RecordsKept`, `ScriptsEnd` |

A run over a sum of machines (`reads`, `pools`, `evaluator`, `study`, `quote`,
`research`) chooses one of them in its initial state; the others do not move. The sum
says nothing about the parts meeting each other, and nothing is claimed of that: they
have no state in common.

### What the properties say

* **Reading.** `AnswersPinned`: neither cache nor caller has an answer of another block
  than the pinned one. `ReturnedAsDirect`: a batched read is what a direct one would be,
  and no failure inside a batch is believed that was not seen alone. `AcquiredIsWhole`:
  what `acquire` returns has every read of every pool it does not report, and is what
  the store has published.
* **Pools.** `AcquiredLoads`: unless a read failed or the pool's own checks refuse it, a
  pool whose adapter asks for nothing more loads, whether or not hints of an earlier
  block were wrong. `SwapsAsWhole`: a window of loaded words and ticks swaps exactly as
  the whole pool would or refuses, and the liquidity in range stays the sum of the nets
  below. `TakerNeverGains`: no sequence of swaps on one pool leaves the trader with more
  of a token and no less of the others. `QuotesHold`: a Curve quote is what the swap pays, or for the legacy 3pool
  one unit more (it takes the fee after the scale is undone), and the endpoints of a LitePSM are the largest trades it accepts.
  `ClaimsCovered`: queued withdrawals of the ARM and the holders of wstETH stay covered.
* **Plans.** `PricedOnChainState`: no accepted plan prices a pool on an inventory another
  step has used up. `PlansAreBest`: the machine `Evaluator` and the one-step `Evaluated`
  agree on every plan; what a solver returns fills the request, is ordered and free of
  repeats; neither an earlier plan for this request nor a trade at a single venue is
  lost when the search is cut; no split that its quote ruled out would have won; and an
  exhaustive search that ends has the best plan reachable with its amounts, so
  deduplication loses nothing.
* **Studies.** `ImplementsLedger`, see above. `CompleteFromNamedInventory`: a complete
  row names the inventories its report was collected from. `QuotesBacked`: after a run
  of all blocks every quote is settled, and a completed one is on disk with the digest
  on record. `FullRunsClaimCurrent`: what such a run claims complete was seen complete
  under inventories no older than those it began with.
* **Quotes.** `AnswersAreFresh`: a report is of inventories no older than the request,
  through three caches whose keys are computed before the content is read.
  `CollectionContextCurrent`: a context is made of files no older than the call, and of
  the report it is filed under, unless that report was put in place while some call had an
  earlier one in hand. `AnswersStand`: an answer on file is never computed again. `RequestsEnd`: a request
  ends and does not keep the lock, whatever the solver raises.
* **Research.** `CompleteManifestTrue`: what a manifest says is collected is and stays
  so, but for a block that another process had found missing and not yet written when
  this one found it collected. `PublishedCoherent`, `RecordsKept`: rows are published with the artifacts
  they were made of, from inventories that are all there, and no step of a run takes what
  it has resumed or filed out of the checkpoint again.
  `ReadingsExact`: every target time gets the newest block that had come, every row the
  last candle that was over; the October references on the page are whole, made of the
  answers of their blocks with the mean tick rounded down, and the provenance names
  them, whatever subset runs, deaths and replays there were. `SwapsExact`: the page has
  each swap of the canonical branch once and its tables add up. `ExportBacked`: an
  export was priced by one edition of code and evidence, its artifacts are those on disk
  and have every report, all made by that edition, with two exceptions for blocks that a
  worker which outlived its run had before it. `SelectionDeepest`: the
  selected crashes are what a greedy choice from verified archives gives.
  `NeverRegresses`: what is published with more sources is no worse than with fewer.

### Bounds, and why they are enough

One height suffices for `rpc_pinned` because heights
interact only through a reorganisation, which moves them together, and every
quantity is kept per height; three forks allow a reorganisation before and another
after the call. Chunks of two over three blocks give a full chunk, a cut last chunk
and one halving; two attempts give a retry and a last attempt. Four in a batch of
five specs gives a second batch and two halvings. In `reads` `MaxPhases` equals the
deepest adapter, so that the last permitted wave is needed; the code's own bound is six
and its adapters need fewer, which is the assumption `AcquireAssumption` states. Two
inodes suffice for one process: the published file and the temporary. The branches of
`Load`, `PublishHeader`, `WriteRows` and `Rename` that need a second process fire only
in `acquire_two`.

In `pools` the word is so small that the dearest price overflows inside the LitePSM's
search interval. Nine ticks with two to a word of the bitmap give windows that end
inside a position, exact hits of a border, negative ticks and empty words; `MaxFailed`
is one because each failed call is handled by itself; three swaps go there, back and
on. Prices are integers of two digits: what depends on 2^96, 10^18 or 10^27 as such
(the reverts for width, the convergence within 255 turns from any balance) is not
checked. A swap may make twelve turns (`WalkTurns`, 100,000 in the code, where V4 counts
the turn that finds nothing left to do as well): nine ticks never need as many. Amounts are chosen per family to reach rounding to zero, a partial fill and a
refusal.

In `evaluator` three steps allow a buy, a production of DAI after it, and a use of a
pool another step has changed. The eight searches are three exhaustive ones (two pairs
of the same tokens in either order; a buy that leaves dust), a wide and a narrow beam, one
cut after three expansions, two cut after one or two that start from earlier plans, one of which
is for another amount and one through a pool that is not offered any more. Amounts are
at most 6 and the grid has three parts where the code has more.

In `study` the first block is collected
alone and the other two fill the pool, the second run meets every state the first can
leave behind, one block is mentioned by hash in the inventories, and `MaxMishaps`
counts failed collections, failed writes, interrupts, crashes, full disks and removed
reports together: two of them make a mishap while recovering from another. In `quote`
caches of one entry make every insertion an eviction; two threads and three requests
allow a refusal by the lock and a second look that finds an answer. In `research` there
are two collectors of two blocks of two reads, one pin with half of them, and two readings of three blocks; a pool of two workers over an event of two
blocks whose inventories change once, over three runs; fifteen headers with slots missed
and four windows; nine logs on four branches, one of a pool outside the catalog, one of
another topic than its pool's, one removed, one with a price of 0; two price runs with
three more workers, so that a worker of the first run meets the second, one death, one
edit of the code; five hours in two issues with falls that tie, whose checksums may be
cut off or blank; five plans through three pools; and references of three
blocks that revert, are garbled or short, or have a negative sum of ticks that no window
divides. Each instance meets a repetition after each kind of failure.

### What the violations say

* `rpc_logs_reorg`: `client.py` asks for the logs (297) before the header (303), and
  files that header's hash with the logs. A reorganisation in between leaves the old
  logs under the new hash, and the reuse test of `docs/INTERFACES.md` accepts them.
* `multicall_repeats`: when the batch of a repeated spec fails down to one call, only
  the first of its places is filled and the assertion at `multicall.py:72` fails.
* `acquire_two`: `extend` reloads, extends and publishes without a lock. A process
  whose snapshot was overwritten by another's gets back, from its next `extend`, one
  without its own first wave; its adapters take that for "phase 1 has not landed" and
  ask for nothing more, and `acquire` returns without reporting them.
* `study_claim`: `_summarize` sets `all_stage_coverage_complete` from the entries of all
  blocks. A run with `max_blocks_this_run` returns before it has looked at the blocks
  past its limit; after a change of the inventories their entries say complete as of the
  old ones, and the manifest it leaves claims complete coverage. Runs that go through all
  blocks do not have this problem (`FullRunsClaimCurrent`).

* `collection_replaced`: `_collection_inputs` reads the report (`collection_quotes.py:67`)
  before it takes the signature and the digests (74, 85) it files the report under. If the
  block is collected again in between, the old report stands under the new signature and
  every later call returns its context, while `docs/reports/phase8-offline-model-sweep.md:21`
  says "Changed evidence cannot silently reuse an old result".

### Exceptions

Four properties hold with an exception. Three of them state it themselves, in terms of a
history variable; the behaviours they except are in the runs, which is why the properties
fail without it.

* `CollectionContextCurrent` excepts reports in `amid`, the window of
  `collection_replaced`. In all other respects nothing is excluded: the snapshot grows
  between the two parts of the signature, of the identity, and before the context is
  built.
* `CompleteManifestTrue` excepts blocks in `exposed`. Seeding takes no lock
  (`october_expansion_collect.py:364`): a process that found a pin missing writes its part
  of the evidence over what another has meanwhile collected and called complete. Where
  nobody has the block in hand when it is validated, it stays collected, whatever is
  seeded, collected, torn or left half written afterwards.
* `ExportBacked` excepts blocks in `contested` and in `edited`. A run that raises because
  one worker failed (`october_source_prices.py:589-593`) leaves the others at work. If the
  next run comes to a block one of them still has before it (`contested`), two processes
  read, extend and replace one file, and one report is lost. If the code is edited while
  one has a block before it (`edited`), it files reports made by the code it has loaded
  under a fingerprint taken of the files on disk (line 602, `crash_slices._fingerprint`),
  and later runs take them for their own. A block in only one of the two sets keeps what
  the other would spoil: without an edit both processes write the same edition. What is
  left out is an edit while the window's own process is at work.
* The part `InventoriesWhole` of `CrashEvent` fails with `PrepareDies = TRUE`. An event's
  inventories are written one by one, and a dense run takes any there are for all of them
  (`five_crash_liquidity.py:982`): after a run that died in between, rows are priced on
  some of the pools, although line 13 promises the "Full October routing universe". Rows
  and artifacts agree all the same: the other part of `PublishedCoherent` is proved for
  either value.

### Seen while modelling

Facts of the code that a reader of the models may trip over; no run is about them.

* V4 read tick by tick skips ticks whose read failed, and a swap that crosses one is
  refused; a failed bulk read (TickLens) refuses the pool and never falls back to
  individual reads. A walk that stops exactly on a border may leave the tick in a
  word that was not loaded, and the next swap is refused. `uniswap_v3/math.py` says that
  callers translate `EvmRevert`; `state.py` does not.
* Fluid divides by a new price that may be 0. The converter does not check its
  `dai_join`. Bebop's `load_state` always refuses: offers come in by
  `load_state_from_quote` only. The wrapper's dependent reads do not decode `usds()`, so
  that a failure there shows only at load.
* In the solvers, overlap and capacity classification only save work: each candidate is
  evaluated. Actions that pay nothing are never searched. Deduplication by balances and
  states is sound because it is limited to V2 and V3 states; a refund depends on the
  history.
* `cli.py:151` looks a context up under the snapshot's identity before acquisition and
  files it under the one after; the caches of inventories may lose an entry between `get`
  and `move_to_end` when two threads meet, which refuses the request.
* `manifest['stopped']` is set when the disk is full and never removed
  (`historical_study.py:610`). The chunks of one range may come from different branches
  (`client.py:312`): each is canonical when it is taken.
* In the scripts: seeding happens outside the lock (`october_expansion_collect.py:364`);
  a run of some blocks shrinks the checkpoint and the sources of an event; archives are not written atomically (`select_binance_crashes.py:93`) and are
  caught by their checksum, whose own file may be cut off: a blank one raises at line 71
  in every later run; a size without a baseline raises in
  `source_expansion_pipeline.py`; a replay of the oracle references without a network
  request writes the acquisition that is a literal of the script into the provenance,
  also after another acquisition was recorded there, and `raw-responses.json` changes
  with each replay because its rows say how they were come by.

## Fairness

Safety runs assume none. `GetLogsEnds` assumes that a client that can take a step
takes one: requests have a timeout of 60 seconds, so each is answered or fails.
Nothing is assumed of the provider, which may refuse or limit for ever, or of the
chain, which may reorganise. `ReadsEnd` assumes the same of `Multicall3.call`, which
calls `eth_call`, which makes finitely many requests, and of a process that acquires; a
crash ends an acquisition too. `SearchEnds` assumes that a Python function that was
called runs on. `RunsEnd` assumes that the planning thread, each worker and the serial
loop take the steps they can: a worker's requests have timeouts, and `GetLogsEnds` and
`ReadsEnd` say that what it calls returns. `RequestsEnd` assumes that of each request
thread of `ThreadingHTTPServer`; the lock is taken without waiting, so no fairness of
the lock is needed. `ScriptsEnd` assumes that a script's process and its workers run on;
of two processes at one lock each is fair by itself, because the holder ends. The
solvers, the evaluator, pool trades, swap events and the selection of crashes have no
liveness property: they are bounded loops of one thread, and `ScriptsEnd` leaves the last
two out. Nor does it say that a selection succeeds: a blank checksum file makes each
later run raise.

## Proofs

`RpcClientProofs`. The answers in `calls` and `returned` belong to their blocks
because the answer pending in `got` does, and that is not inductive by itself: the
by-number answer is only known to be the canonical block's at the time of the call.
The invariant therefore says of a pending answer that its block is the pinned one or
that the pinned one has been abandoned, and that abandoned forks are not canonical;
then a second check that succeeds rules the second case out. `AnswersArePinned`,
`CacheIsStable` and the types follow, for any number of processes, heights, forks and
specs.

`RpcLogsProofs`. First the shape of files, payloads and pending answers (a file holds
exactly the chunk its name says), then, under `~WindowReorgs`, that a file or pending
answer whose last block is canonical is canonical throughout: reorganisations replace
suffixes, so the last block vouches for the others. `ChunksAreContiguous` needs only
the shape and holds with any reorganisation.

`ReadsProofs`. Two invariants, one for each end of a read. For `acquire` (`AcquireInv`)
with the directory to itself: an extension that waits for a file step holds everything
published, once it has read everything it was asked for too (`Gathered`), and what it is
about to rename is its rows, written to the end (`HoldsFile`); so the rename publishes a
superset, which is `NothingPublishedIsLost`, and what is returned is what is published.
A wave lands per phase: after `phases` extensions the first `phases` waves of every pool
not reported are in the snapshot, and while one is under way the next wave is in it or
asked for (`WavesLanded`). `DependentRequests` asks for the first wave with something
missing; that a set of waves has a first is where the well-foundedness of the numbers
comes in. Acquisition ends when nobody asks, or at the last phase, and adapters have no
more waves than phases. The hypothesis `Alone(p)` is needed: with a second process
neither theorem holds (`acquire_two`).

For a batched call (`BatchInv`): what the cache and the results hold is the direct
call's answer, a failure in the cache came by a direct call, and members of the batch
at hand stand in its order. `BatchedAsDirect` follows for any requests and any failures
of batches. `DistinctRequestsFilled` is the other half of the violation
`multicall_repeats`: without repeats every place that has no result is still ahead
(`PlacesAhead`), since the places to be read, counted and in order, are all the uncached
ones (`PlacesInOrder`, by the pigeonhole theorem of finite sets).

`PoolProofs`, the LitePSM. Fees are monotone and at most the gross (`FeeMonotone`,
`FeeAtMost`), so affordability is downward closed (`AffordableDown`) and the price
strictly increasing (`PriceStrict`). The loop invariant says that `low` is affordable
and nothing above `high` is. At the end the interval is a point, hence the largest
affordable amount, hence the only possible preimage: `SearchImplementsBuyGem`.
`NoGain` follows from the fee never being negative on a sale and never below zero on a
buy. All for any factor, fee denominator and word size.

`PoolProofs`, a pool of any family. `AcquiredPoolsLoad`: whatever the order of the
answers, what was asked includes the first reads, and acquisition is complete only when
nothing that depends on them is left (`AskedInv`). The rest is about the adapters. For a
pool read at once nothing else is needed; for a pool of ticks the whole window of words
has answered (`WindowAnswered`, `WholeWindow`), hence every tick initialized in it
has its net, by itself, by its word or in bulk (`NetsRead`), whichever words and ticks a
hint had asked for. The named assumption says which sources are meant: amounts are natural
numbers, and a pool called healthy is one that its family's own checks accept; a Pancake
pool is never read in bulk. Of a pool of ticks it says what its contract keeps: finitely many
ticks at multiples of the spacing, nets whose sum up to a tick is the liquidity there and
never negative, fees in parts of a million, a price between those of its tick and the
next, and for V3 and Pancake that the price was initialized. `ClaimsStayCovered`: an ARM pays WETH out of no more than
what its queue of withdrawals is not owed (`ArmCovers`); wrapping gives at most the shares
that the ether bought and unwrapping takes at least those it pays for, so the shares
behind wstETH exceed its supply by no less than at the start (`LidoCovers`, which rests on
`RoundTrip`: rounding down twice gains nothing).

`WindowsSwapAsWhole` follows a swap turn by turn, on the window that was loaded and on
the whole pool. Alone, that the two walks agree is not inductive: that the second has
every word and net that the first asks for rests on where the walk is, so the invariant
(`OnTheWay`, `Placed`) has its price between those of its tick and the next and its
liquidity the sum of the nets at or below the tick. A turn keeps it because a step ends
between its start and its target and takes no more than there is, fees included
(`StepFacts`, from `DownPrice` and `UpPrice`: a rounded price never passes the target, and
`FeeFitsStep`), and because the tick that the bitmap names is the next of all
initialized ticks or a border that skips none (`NextDown`, `NextUp`); so a crossing adds or takes
exactly one term of the sum (`BelowStep`), and a stop in between none (`BelowSame`).
`TurnShown` is that a window that covers the word makes the same turn and `TurnWhole` that
the whole pool never refuses it; the swap is the turns made one after the other, by
induction on their number (`WalkShown`). A loaded state starts there (`LoadPaired`), and
swaps leave it there (`SwapShown`). The sum over a set is a fold of the community modules,
treated as in `EvaluatorProofs`.

`NoGainButAtCurve`: no sequence of swaps leaves the trader with more of a token and no
less of the others, at a pool of any family but Curve. What the trader holds is not
inductive; the invariant (`GainInv`) is a bound on it, of a kind for each family:

* ticks: two potentials. A balance of the second token is worth itself and the liquidity
  summed over the prices up to the present one (`Worth1`), one of the first itself less the
  liquidity summed with the falls of the inverse price (`Worth0`; `Multiple`, a common
  multiple of all prices, keeps the inverses whole, `InverseFacts`). Between two stops of a
  swap the liquidity is one (`Even`, `DownSpan`, `UpSpan`), so the sums say what the move is
  worth, and every rounding of amounts and of the next price goes to the pool (`DownFair`,
  `UpFair`, from `DownPays`, `DownGets`, `DownShort` and their counterparts): a turn raises neither
  potential, nor does the swap (`SwapWorth`). Neither
  worth is above that of the start (`NoBetter`), and both sums rise with the price: where the
  price ends higher, some of the second token has been spent, where it ends lower, some of the
  first, and where there was no liquidity in between, nothing is gained of either
  (`NoBetterGains`). For any ticks, nets, spacing, fees and swaps, across any ticks and back;
* the wrapper, the ARM and the converter: the balances at fixed weights are worth nothing
  or less (`Backed`), because every conversion rounds down. An ARM has two rates that its
  operator sets, and the adapter checks only that they are not zero: with a product above
  par a round trip does gain, so the theorem is for `RatesWithinPar`;
* Bebop and Fluid: a pool that has been taken once is spent, and what was taken cost
  something (`OnceGain`). This needs a least input above zero (`MinInput`).

`QuotesAndEndpointsHold` has two halves. A Curve pool keeps natural balances, rates and
fees, and the pools that load have a rate for every coin (`CurvePools`, `CurveRates`; the
3pool's rates, which its adapter names, are multiples of the precision). Newton's turns
stay in the natural numbers (`InvariantNat`, `BalanceNat`, from `LoopTyped`: what a loop's
turns keep, the loop keeps), so that its value is a number whatever it is; the quote of an
NG pool is its swap, and the 3pool's fee taken before or after its scale is undone
differs by no more than one unit (`FeeAfterScale`). For the LitePSM, the amounts that a sale
or a draw accepts are all those below one that it accepts (`SellableDown`,
`DrawableDown`), so that the binary search, which ends at the last accepted one
(`LastAcceptedIs`), finds what the closed form says (`Clamp`), and what any DAI buys is
no more.

`EvaluatorProofs`. The invariant says that each pool the plan uses has its owner's
state, that balances are natural, and what a finished evaluation implies.
`PricedAsOnChain` rests on the assumption that pools of one owner share a capacity
identifier, as the wrapper does with the LitePSM; it shows that the check at the
start of `evaluate` is all that is needed.

`TokensAreConserved` takes the adapters as a hypothesis, `PoolsConserve`: each has a set
of states that its swaps stay in, and a swap moves what the pool has of a class of tokens
by exactly what goes in and comes out. `VenueTokensAreConserved` discharges it for any number of
V2 pairs, LitePSMs with any fees, wrappers and converters (`VenueConserves`), and so has
no hypothesis about behaviour. What is held is a sum over sets, a fold of the community
modules. The lemmas on sums are proved from the definition of the fold: that it is
defined at all, with values at every set (`SumDefined`), one step of it (`TotalStep`), that the
order of its steps does not matter (`TotalRemove`) and what a change of one term does
(`TotalChanged`). The induction over the size of a set is by its smallest counterexample
(`LeastExists`), since the library's theorems take operators.

`StudyProofs`, the parallel collection. Three layers. The types need only that the block in hand is a
block. For `AttemptsAreKept` the invariant orders four counts: collections started, the
manifest on disk, the manifest in memory, the shard (`Counted`, `Between`), says that a
block without a shard entry counts nothing, since its stored row is taken to be empty
(`Unsharded`), and that attempt `i` has log `i` once it has ended (`Numbered`); without
the latter an attempt left running by a crash could share a log. For
`CompleteRowsAreBacked` it says that a report to be recorded is between the edition read
when its block was taken up and the present one (`Ages`), and that a row is that of a
running attempt while a worker has the block (`CollectingRuns`), so that no report is
replaced under a complete row. For any number of blocks, workers, runs and mishaps.

For `FullRunSettles` and `FullRunClaimsCurrent` a fourth layer says what the planning
thread has passed in this run (`SettleInv`): a block before `next` is with a worker, is
the one in hand, or is `Settled`, its entry in memory the summary of its shard and, where
it is completed, its inventories no older than the run's first. Workers end in any order,
so the two halves of "passed" trade places one block at a time, and a run closes only when
the first half is empty. A run that claims coverage has only completed blocks because a
failed row is never complete (`FailedRows`).

Then the refinement of the parallel collection: every initial state of
`StudyCollector` maps to one of `AttemptLedger`, and every step to `Record`, to `Make` of
one block, or to a stutter. Worker steps start an attempt that the counts above say is on
record; writes of the manifest are `Record`s because the manifest in memory is never
behind the one on disk. It uses the invariant of the layers above and one more part: a block that was handed to a worker has been begun.

Last the serial loop, `StudyRunner` under the names of `Study`. The types need where a
block is in hand and that its stages are those of its shard (`BlockInHand`). The ledger
needs that the process knows every shard the manifest does (`Knows`), that attempts on
record, in shards the manifest knows of, are no fewer than those made (`Counts`), and that
completed stages were started (`Claims`); the manifest counts only shards it knows of,
which is why `Opened` must write it before the first stage. `SerialRunInv` says what
the loop has passed (`BlockPassed`: the summary in memory is the shard's, coverage is
claimed under inventories no older than the run's first, quotes are settled with the
reports on disk) and how far it has come in the block in hand: the coverage is recomputed
by `Cover` before any quote, quotes before `here.job` are settled, and the quote in hand
was asked for under inventories no newer than its report will be. Both halves meet in
`StudySpec`, each of whose steps is a step of one and a stutter of the other
(`StudyIsBoth`): `StudyImplementsLedger`, `SerialQuotesBacked` and `FullRunsCurrent` are
theorems about directories of either kind, for any number of blocks, stages, quotes,
limits, earlier runs and mishaps.

`QuotesProofs`. Each cache of the bridge holds values no older than the identity they are filed
under, and each answer is no older than its name: putting, touching and trimming keep
that, since a value is read after its identity is computed. The invariant follows a
request through this order (`Named`, `Identified`, `Loaded`, `Made`): it came before its
name, the name before the identity, the identity before the content, and the content
before what is made of it, whatever cache any of these comes from. `ReportsAreFresh` is
the end of that chain. `AnswersStay` needs who holds the lock at which point, and that
the holder's answer is missing until it publishes (`Settled`); that is inductive because
only `Recheck` lets it go on, and only if there is no answer. `ContextsAreCurrent` is
about the collection's caches: an entry of `inputs` has the report, the signature and the
identity of one edition (`InputsMatch`), a context is made of the report of its identity
and of a snapshot no older (`ContextsMatch`), and the call in hand has what it has read so
far from no earlier than its start (`Reading`, `SinceFiles`, `Naming`). Reports in `amid`
are excepted from `InputsMatch` and `ContextsMatch` alike: once a call has filed such a
report wrongly, what later calls make of it is excepted too. There is no other hypothesis.

`ResearchProofs`. A step of one script leaves the variables of the others alone
(`OwnSteps`), so each script has an invariant of its own.

* The pipeline: what it quotes are plans that spend all the input, or none, and what has
  been quoted with all sources is no worse than before (`FloorHolds`), because the plans
  from before are among the candidates.
* The collector of a window (`ExpansionInv`): that a block is collected is not inductive,
  since one who has it in hand may spoil it. A block is `Safe` if it is collected and
  nobody has it in hand; then nobody takes it in hand any more, because a look at it
  finds it collected (`LookingKeeps`). What the manifest says is safe but for `exposed`
  (`ManifestSafe`), and so is what has been looked at for the next one (`ValidatedSafe`).
  Those who collect exclude each other by the RPC lock (`LockHeld`); those who seed do not.
* Exports (`PricesInv`): while a run prices the window, what other processes have before
  them is contested (`MainAlone`), since its own workers have ended by then. The window's
  process has the edition on disk (`LoadedMain`), the others have it at blocks that are not
  `edited` (`Loaded`); a process writes only what is before it (`Wrote`), so what the run
  has priced stays on disk (`RowBacked`, `OthersWrite`) and the block in hand has the
  reports that are not wanted any more (`RowInHand`, `ReportInHand`). Reports were made by
  the edition their file names (`MakersTrue`), because what is kept of a file was.
* An event (`EventInv`): what a worker has is made of the inventories there are, because
  they are prepared only when nobody works; workers are at pending blocks; the others
  have row, record and artifacts of the run's fingerprint. An earlier form of
  `RecordsKept`, that no valid record is dropped, could not be proved and is false: the
  record of a block that is still pending may become valid again, when its inventories
  are put back between two runs, and be dropped by the next checkpoint. It needs more runs
  than the instance has. The property now speaks of what a run has resumed or filed.
  `EntireInv` adds that inventories are all there unless they are being written.
* The search for blocks (`SweepInv`): while a search is on, the time of `low` has come
  and that of no block after `high` (`Bracket`), whatever is guessed; so it cannot miss,
  and what it finds is exact. Candles: one is complete where the next is not
  (`CandleMatches`), by the length of a minute and where the kept minutes begin and end.
* The October references (`ReferencesInv`): rows are made of answers, answers that were
  read never change (`RowsStay`), and files are written only of the whole window, in
  turn. That a run of as many blocks as the window has is the window itself, in order, is
  `OrderedBlocks`: every place is the rank of one block (`RanksFilled`, by counting).
  `MeanTickFloors` is the rounding of the mean.

* The selection of crashes (`SelectionInv`): hours are ranked when all are read, each by an
  edition, since a checksum that is cut off or blank (`Checksums`) equals none. A sorted set has every element once, each after those that precede it
  (`SortedFacts`), because the places the order gives are a bijection (`PlacesFilled`). The
  fold that admits hours is a recursive function over the places done; that it exists is
  shown by induction over their number (`AdmitDefined`), which gives its step
  (`AdmitStep`) and, from it, why each hour is admitted or not (`AdmittedOf`,
  `AllAdmitted`): a deeper one is too close, or there were enough of deeper ones. So what
  is chosen is `Deepest`.
* The swap events (`SwapsInv`): a cached answer is a whole one, a run goes by one that was
  pinned to the `sources.json` there is, since that changes only between runs, and the page
  is what it yields. An answer has every log of its branch, some twice (`AnswerWhole`); of
  those the first is kept (`DedupedWhole`), which is all since block and index name a log;
  these are ordered like the hours above (`ChainOrder`). The tables: a sum over a set is
  the sums over parts that share nothing (`TotalSplit`, `TotalOfBuckets`); pools, blocks
  and minutes part the swaps, sizes too with those above the last bin, because each bin
  begins at the largest end below its own (`BinsPart`).

`ReadingsAreExact` puts the search and the references together. All of it for any number of
blocks, headers, targets, hours, processes, runs and files.

Some theorems (`AttemptsAreKept`, `SwapsConserve`, `ReuseIsSound`, `SearchIsRight`) prove
invariants that no run checks by themselves, being implied by or used for one that is.

Assumptions are the named `ASSUME`s of the modules; TLC evaluates each of them in a
run. Model-checked only: the liveness properties; the solvers (`PlansAreBest`), which
reach `RECURSIVE` operators; and `TakerNeverGains` at Curve pools, which rests on how near
Newton's iteration ends to the root, an induction over data.

## Not modelled

The readings of `data/discovery/1/curve.json` that `five_crash_liquidity.py:457-464` makes
outside an event's fingerprint: the model's `inventory` is what the fingerprint covers. The
order in which `baseline.py` enumerates splits, which decides only between plans that tie.
A `max_blocks` of 0 of the collector of a window, which collects nothing: in the model 0 is None.
Formatting, ABI and JSON coding, secrets and their redaction, the wording of reasons,
gas estimates. In the RPC client: `chain_id`, offline mode (every network step raises),
the old per-call files. In the store: `build`. In acquisition:
`observe_singleton_activation` and `load_states`. In the adapters: widths of words other
than the LitePSM's, hooks of V4 pools beyond the check that none touches swaps. In the
solvers: the optimizer of `dual.py` and what loaded ticks suggest for V3 pools
(`v3_continuous.py`, in decimals), whose amounts the search takes as proposals only. In
the study: manifests of version 1, the read plans handed to workers. In the scripts: the
pages, summaries and progress reports. Discovery (`discovery/`) builds inventories once
from `get_logs`; the explorer and the frontend display what is there; some sixty other
scripts analyse stored data once and keep nothing: their status is `not_modelled` in
`PROJECT.json`, each with its reason.

## Plan

Done: reading (`RpcClient`, `RpcLogs`, `Multicall`, `Acquire`), the pools of every
family, evaluator and solvers, both kinds of study with their ledger, both ways to a
quote, the research scripts that resume; proofs of all of these but the solvers and what
sequences of swaps at a Curve pool yield. Left, in this order:

1. Discovery: the inventories it writes file by file, as an actor of `QuoteBridge` in
   place of one change of edition.
2. The V3 suggestions of the dual solver over `TickPools`.
