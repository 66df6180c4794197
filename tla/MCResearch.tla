------------------------------- MODULE MCResearch -------------------------------
(***************************************************************************)
(* The research scripts.  Each has its directories to itself, under        *)
(* outputs/ and frontend/public/, and none waits for another: a behaviour  *)
(* of this module is one of one of them.  The instances: headers with      *)
(* slots missed; a pin with all its evidence and one with a part of it;    *)
(* logs on four branches, of a pool that is not in the catalog, of another *)
(* topic than the pool's, removed, and with a price of 0; drops that tie;  *)
(* plans through old and new pools; reads that revert, are garbled or      *)
(* short, and a sum of ticks below zero.                                   *)
(***************************************************************************)
EXTENDS Integers, TLC

CONSTANTS
    Collectors, Window, Reads, Evidence, MaxBlocks, MaxStarts, MaxTroubles, None,
    NumBlocks, NumFiles, PoolSize, MaxEdition, MaxRuns, MaxFaults, PrepareDies,
    Latest, Time, Points, Step, Windows, BracketStep, Ahead, Minute, Feeds,
    Logs, Branches, SwapWindow, Catalog, MinuteOf, Minutes, BinTops, MaxExperiments, MaxRepeats,
    Pricers, Main, PriceBlocks, Keys, MaxCode, MaxLaunches, MaxDeaths, MaxEdits,
    Hours, DayOf, Drop, Separation, Count, MaxIssue, MaxSelections,
    Plans, Before, All, PinBlocks, Sizes, Incomplete,
    Canonical, Datasets, Wanted, Replies, Seconds, BaseAmount, MaxJobs

VARIABLES
    task,
    stored, torn, listed, manifest, exposed, flock, proc, starts, troubles,
    discovery, inventory, raw, aggregates, checkpoint, sources, index, run,
    work, runs, faults,
    script, last, at, i, low, high, pins, answers, rows,
    canonical, cache, page, trades, place, taken, experiments,
    code, direct, reports, prices, exported, pricer, crew, contested, edited, launches, deaths, edits,
    issued, archive, checksum, stage, hour, content, universe, selection,
    minutes, selections,
    phase, pin, size, before, combined, compared,
    replies, job, jobs, files

Expansion == INSTANCE ExpansionCollector WITH faults <- troubles, MaxFaults <- MaxTroubles
Event == INSTANCE CrashEvent
Sweep == INSTANCE OracleSweep
Swaps == INSTANCE SwapEvents WITH Window <- SwapWindow, MaxRuns <- MaxExperiments
Prices == INSTANCE SourcePrices
Selection == INSTANCE CrashSelection
Pipeline == INSTANCE SourcePipeline WITH Missing <- Incomplete
References == INSTANCE OracleReferences

ASSUME ResearchAssumption ==
    /\ Expansion!ExpansionAssumption /\ Event!CrashEventAssumption /\ Sweep!SweepAssumption
    /\ Swaps!SwapAssumption /\ Prices!PricesAssumption /\ Selection!SelectionAssumption
    /\ Pipeline!PipelineAssumption /\ References!ReferencesAssumption

expansionVars == <<stored, torn, listed, manifest, exposed, flock, proc, starts, troubles>>
eventVars == <<discovery, inventory, raw, aggregates, checkpoint, sources, index, run,
                work, runs, faults>>
sweepVars == <<script, last, at, i, low, high, pins, answers, rows>>
swapVars == <<canonical, cache, page, trades, place, taken, experiments>>
priceVars == <<code, direct, reports, prices, exported, pricer, crew, contested, edited, launches,
              deaths, edits>>
selectionVars == <<issued, archive, checksum, stage, hour, content, universe, selection,
                minutes, selections>>
pipelineVars == <<phase, pin, size, before, combined, compared>>
referenceVars == <<replies, job, jobs, files>>

vars == <<task, expansionVars, eventVars, sweepVars, swapVars, priceVars, selectionVars,
          pipelineVars, referenceVars>>

Tasks == {"expansion", "event", "sweep", "swaps", "prices", "selection", "pipeline",
          "references"}

Init ==
    /\ task \in Tasks
    /\ Expansion!Init
    /\ Event!Init
    /\ Sweep!Init
    /\ Swaps!Init
    /\ Prices!Init
    /\ Selection!Init
    /\ Pipeline!Init
    /\ References!Init

Next ==
    \/ /\ task = "expansion" /\ Expansion!Next
       /\ UNCHANGED <<task, eventVars, sweepVars, swapVars,
                     priceVars, selectionVars, pipelineVars, referenceVars>>
    \/ /\ task = "event" /\ Event!Next
       /\ UNCHANGED <<task, expansionVars, sweepVars, swapVars,
                     priceVars, selectionVars, pipelineVars, referenceVars>>
    \/ /\ task = "sweep" /\ Sweep!Next
       /\ UNCHANGED <<task, expansionVars, eventVars, swapVars,
                     priceVars, selectionVars, pipelineVars, referenceVars>>
    \/ /\ task = "swaps" /\ Swaps!Next
       /\ UNCHANGED <<task, expansionVars, eventVars, sweepVars,
                     priceVars, selectionVars, pipelineVars, referenceVars>>
    \/ /\ task = "prices" /\ Prices!Next
       /\ UNCHANGED <<task, expansionVars, eventVars, sweepVars,
                     swapVars, selectionVars, pipelineVars, referenceVars>>
    \/ /\ task = "selection" /\ Selection!Next
       /\ UNCHANGED <<task, expansionVars, eventVars, sweepVars,
                     swapVars, priceVars, pipelineVars, referenceVars>>
    \/ /\ task = "pipeline" /\ Pipeline!Next
       /\ UNCHANGED <<task, expansionVars, eventVars, sweepVars,
                     swapVars, priceVars, selectionVars, referenceVars>>
    \/ /\ task = "references" /\ References!Next
       /\ UNCHANGED <<task, expansionVars, eventVars, sweepVars,
                     swapVars, priceVars, selectionVars, pipelineVars>>

\* A script that runs goes on; what waits for a lock or for a process is fair to
\* each process.
Fairness ==
    /\ \A p \in Collectors : WF_expansionVars(task = "expansion" /\ Expansion!ProcessStep(p))
    /\ WF_eventVars(task = "event" /\ Event!EventStep)
    /\ WF_sweepVars(task = "sweep" /\ Sweep!SweepStep)
    /\ WF_priceVars(task = "prices" /\ (Prices!Waited \/ Prices!WaitRaises \/ Prices!Export))
    /\ \A p \in Pricers : WF_priceVars(task = "prices" /\ Prices!PricerStep(p))
    /\ WF_pipelineVars(task = "pipeline" /\ Pipeline!PipelineStep)
    /\ WF_referenceVars(task = "references" /\ References!ReferenceStep)

Spec == Init /\ [][Next]_vars /\ Fairness
-----------------------------------------------------------------------------
TypeOK ==
    /\ Expansion!TypeOK /\ Event!TypeOK /\ Sweep!TypeOK /\ Prices!PricesTypeOK
    /\ References!ReferencesTypeOK

\* Every block that a manifest says is collected stays so, whatever other processes
\* seed, collect or fail at (collect_expansion), unless one had it in hand already
\* when it was found collected: seed_pinned_evidence takes no lock.
CompleteManifestTrue == Expansion!CompleteManifestTrue

\* The rows of an event are published with the artifacts and the inventories
\* they were made of (run_dense_event, _checkpoint_record_is_valid), which are all
\* there unless a run died while it prepared them ...
PublishedCoherent == Event!PublishedCoherent /\ (~PrepareDies => Event!InventoriesWhole)

\* ... and a run that stops has left what it resumed and filed to the next one
\* ("resumable per-block checkpoints", five_crash_liquidity.py:21).
RecordsKept == Event!RecordsKept

\* Each target time gets the newest block whose time has come, without the
\* search failing once it is bracketed, and each row the last candle that was
\* over at its block (find_block_for_target, match_binance_candle); the October
\* references are published whole, each made of its block's answers
\* (collect_block_references).
ReadingsExact ==
    /\ Sweep!PinsExact /\ Sweep!NeverLost /\ Sweep!CandlesMatched
    /\ References!ReferencesExact

\* The page has every swap of the canonical branch once, in order, also from
\* cached logs (validate_cache), and its tables add up (run_experiment).
SwapsExact == Swaps!SwapsExact /\ Swaps!BucketsAddUp

\* What is exported was priced by one edition of the code, and the artifacts it
\* names are those it was made of (_read_raw, _aggregate_report), though runs fail
\* and leave workers behind; every report is in them unless such a worker still had
\* the block before it.
ExportBacked == Prices!ExportBacked

\* The selected crashes are the deepest, days apart, from verified archives
\* (rank_and_select_clusters, download_with_sha256).
SelectionDeepest == Selection!SelectionDeepest

\* More sources never make a quote worse (run_pipeline, solve_best_candidate).
NeverRegresses == Pipeline!NeverRegresses

\* A script at work, p for the collectors; and at its end.
AtWork(p) ==
    CASE task = "expansion" -> ~(proc[p].at \in Expansion!Quiet)
      [] task = "event" -> run.at = "resume"
      [] task = "sweep" -> at = "bracket"
      [] task = "prices" -> ~Prices!In(Main, "idle")
      [] task = "pipeline" -> phase = "before"
      [] task = "references" -> job.at = "collect"
      [] OTHER -> FALSE
AtEnd(p) ==
    CASE task = "expansion" -> proc[p].at \in Expansion!Quiet
      [] task = "event" -> run.at \in Event!Quiet
      [] task = "sweep" -> at \in {"done", "raised"}
      [] task = "prices" -> Prices!In(Main, "idle")
      [] task = "pipeline" -> phase \in {"refused", "regressed", "raised", "success"}
      [] task = "references" -> job.at \in References!Resting
      [] OTHER -> TRUE

\* The scripts end: none waits for ever, for the RPC lock (rpc_lock), for its pool
\* (run_dense_event), for its workers (main of october_source_prices) or in a
\* search that does not close in (find_block_for_target).  The scripts of the swap
\* page and of the selection are loops over lists that wait for nobody: left out.
ScriptsEnd == \A p \in Collectors : AtWork(p) ~> AtEnd(p)
-----------------------------------------------------------------------------
MCTime == <<1, 2, 4, 7, 8, 9, 13, 14, 15, 16, 17, 23, 24, 25, 26>>

MCEvidence == 1 :> {"x"} @@ 2 :> {"x", "y"}

Log(branch, block, n, pool, weth, usdc, price) ==
    [branch |-> branch, block |-> block, index |-> n, pool |-> pool,
     topic |-> IF pool = "q" THEN "v2" ELSE "v3", removed |-> FALSE,
     weth |-> weth, usdc |-> usdc, price |-> price]

MCLogs == {Log("a", 1, 1, "p", 1, -3, 1), Log("a", 1, 2, "q", -10, 30, 1),
           Log("a", 2, 1, "p", -2, 7, 1), Log("b", 1, 1, "p", 2, -6, 1),
           Log("b", 2, 1, "p", 0, 1, 1), Log("b", 2, 2, "z", 2, -1, 1),
           [Log("c", 1, 1, "q", 1, -3, 1) EXCEPT !.topic = "v3"],
           [Log("c", 2, 1, "p", 1, -3, 1) EXCEPT !.removed = TRUE], Log("d", 1, 1, "p", 3, -9, 0)}

MCCatalog == "p" :> "v3" @@ "q" :> "v2"
MCMinutes == <<1, 2>>

MCDays == <<1, 2, 3, 4, 6>>
MCDrops == <<<<3, 5, 1, 5, 2>>, <<4, 2, 3, 1, 2>>>>

Through(pools, out, full) == [pools |-> pools, out |-> out, full |-> full]
MCPlans == {Through({"a"}, 3, TRUE), Through({"a", "b"}, 4, FALSE), Through({"b"}, 2, TRUE),
            Through({"a", "c"}, 5, TRUE), Through({"c"}, 1, TRUE)}

Value(n) == [kind |-> "value", value |-> n]
Without(kind) == [kind |-> kind, value |-> 0]
MCReplies == {<<Value(3), Value(-7), Value(-7)>>, <<Value(0), Value(6), Without("short")>>,
              <<Without("reverted"), Value(5), Without("reverted")>>,
              <<Without("garbled"), Without("garbled"), Value(4)>>}
MCSeconds == <<2, 5>>
MCDatasets == {<<1, 2, 3>>, <<1, 2>>, <<1, 1, 3>>, <<1, 0, 3>>}
MCWanted == {<<>>, <<{}>>, <<{1, 3}>>, <<{1, 2, 3}>>, <<{1, 4}>>}
=============================================================================
