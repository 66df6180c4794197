----------------------------- MODULE SourcePrices -----------------------------
(***************************************************************************)
(* october_source_prices.py: one process, or several that were started by  *)
(* one, price every block of a window offline.  A block has an artifact of *)
(* direct quotes and one of aggregate reports, which is read, extended by  *)
(* one report and written back; both are reused under the fingerprint they *)
(* were made with.  The process of the whole window publishes the rows.    *)
(*                                                                         *)
(* The code and the evidence have editions; an edition stands for both     *)
(* fingerprints.  A run that ends over a worker's failure leaves its other *)
(* workers at work, and the next run may price the blocks these still have *)
(* before them.  The code may be edited between two runs: such a worker    *)
(* goes on with what it has loaded, while the fingerprint of its reports   *)
(* is taken from the files on disk, block by block.                        *)
(***************************************************************************)
EXTENDS Naturals, FiniteSets

CONSTANTS Pricers,         \* processes, numbered
          Main,            \* the one of the whole window
          PriceBlocks,     \* its blocks, numbered
          Keys,            \* asset and size of an aggregate report, numbered
          MaxCode,         \* bound: editions
          MaxLaunches, MaxDeaths, MaxEdits  \* bounds: runs of the window; failures; edits

PricesAssumption ==
    /\ Pricers \subseteq Nat /\ Main \in Pricers
    /\ PriceBlocks \subseteq Nat /\ IsFiniteSet(PriceBlocks)
    /\ Keys # {} /\ Keys \subseteq Nat /\ MaxCode \in Nat \ {0}
    /\ {MaxLaunches, MaxDeaths, MaxEdits} \subseteq Nat

VARIABLES code,       \* the edition on disk
          direct,     \* raw/<hash>: the edition it is of
          reports,    \* aggregate-raw/<hash>: the edition it says it is of, the
                      \* reports in it, and (history) the editions that made them
          prices,     \* prices.json: the edition of each row
          exported,   \* frontend/public/october-sources.json
          pricer,     \* the processes
          crew,       \* procs: workers of the run that have not ended well
          contested,  \* history: blocks that workers of an earlier run still had
                      \* before them when the run began to price
          edited,     \* history: blocks that workers had before them when the code
                      \* was edited
          launches, deaths, edits

priceVars == <<code, direct, reports, prices, exported, pricer, crew, contested,
               edited, launches, deaths, edits>>

NoPage == [b \in PriceBlocks |-> 0]
ReportFiles == [edition : 0 .. MaxCode, keys : SUBSET Keys, makers : SUBSET (1 .. MaxCode)]
NoReports == [edition |-> 0, keys |-> {}, makers |-> {}]
Pricers1 == [at : {"idle", "wait", "block", "report", "write", "export"},
             edition : 0 .. MaxCode,      \* loaded, and fingerprint
             label : 0 .. MaxCode,        \* aggregate_fingerprint
             todo : SUBSET PriceBlocks, wanted : SUBSET Keys, key : SUBSET Keys,
             existing : ReportFiles,
             rows : [PriceBlocks -> 0 .. MaxCode]]
Idle == [at |-> "idle", edition |-> 0, label |-> 0, todo |-> {}, wanted |-> {}, key |-> {},
         existing |-> NoReports, rows |-> NoPage]

PricesTypeOK ==
    /\ code \in 1 .. MaxCode /\ direct \in [PriceBlocks -> 0 .. MaxCode]
    /\ reports \in [PriceBlocks -> ReportFiles]
    /\ {prices, exported} \subseteq [PriceBlocks -> 0 .. MaxCode]
    /\ pricer \in [Pricers -> Pricers1]
    /\ crew \subseteq Pricers \ {Main}
    /\ contested \subseteq PriceBlocks /\ edited \subseteq PriceBlocks

Init ==
    /\ code = 1 /\ direct = NoPage /\ reports = [b \in PriceBlocks |-> NoReports]
    /\ prices = NoPage /\ exported = NoPage
    /\ pricer = [p \in Pricers |-> Idle] /\ crew = {} /\ contested = {} /\ edited = {}
    /\ launches = 0 /\ deaths = 0 /\ edits = 0
-----------------------------------------------------------------------------
In(p, place) == pricer[p].at = place
First(s) == CHOOSE b \in s : \A c \in s : b <= c
Dies == deaths < MaxDeaths /\ deaths' = deaths + 1

Others == Pricers \ {Main}
Files == <<code, direct, reports, prices, exported>>
Run == <<crew, contested, edited>>
Elsewhere == UNION {pricer[p].todo : p \in Others}

\* main: the blocks are dealt out to worker processes, and waited for.  The first
\* free processes are taken, each with the next chunk.
Launch(chunk) ==
    LET team == {p \in Others : chunk[p] # {}} IN
    /\ In(Main, "idle") /\ launches < MaxLaunches /\ launches' = launches + 1
    /\ Cardinality(team) > 1 /\ \A p \in team : In(p, "idle")
    /\ \A p \in team, q \in Others : q < p /\ In(q, "idle") =>
          q \in team /\ First(chunk[q]) < First(chunk[p])
    /\ crew' = team
    /\ pricer' = [p \in Pricers |->
          IF p = Main THEN [Idle EXCEPT !.at = "wait", !.edition = code, !.todo = PriceBlocks]
          ELSE IF p \in team
               THEN [Idle EXCEPT !.at = "block", !.edition = code, !.todo = chunk[p]]
               ELSE pricer[p]]
    /\ UNCHANGED <<Files, contested, edited, deaths, edits>>

\* main with --workers 1.
LaunchAlone ==
    /\ In(Main, "idle") /\ launches < MaxLaunches /\ launches' = launches + 1
    /\ contested' = Elsewhere
    /\ pricer' = [pricer EXCEPT ![Main] = [Idle EXCEPT !.at = "block", !.edition = code,
                                                       !.todo = PriceBlocks]]
    /\ UNCHANGED <<Files, crew, edited, deaths, edits>>

\* All have ended well: the process prices the window itself, from what they left.
Waited ==
    /\ In(Main, "wait") /\ crew = {}
    /\ contested' = Elsewhere
    /\ pricer' = [pricer EXCEPT ![Main].at = "block"]
    /\ UNCHANGED <<Files, crew, edited, launches, deaths, edits>>

\* The RuntimeError over a worker that failed; it stops none of the others.  proc.wait
\* goes from worker to worker, here in any order.
WaitRaises ==
    /\ In(Main, "wait") /\ \E p \in crew : In(p, "idle")
    /\ crew' = {}
    /\ pricer' = [pricer EXCEPT ![Main] = Idle]
    /\ UNCHANGED <<Files, contested, edited, launches, deaths, edits>>

\* _read_raw
Direct(p, b) == IF direct[b] = pricer[p].edition THEN direct[b] ELSE pricer[p].edition

\* The fingerprint of the reports, then _row, as far as the direct quotes.
PriceDirect(p) ==
    /\ In(p, "block") /\ pricer[p].todo # {}
    /\ LET b == First(pricer[p].todo) IN
       /\ direct' = [direct EXCEPT ![b] = Direct(p, b)]
       /\ pricer' = [pricer EXCEPT ![p].at = "report", ![p].wanted = Keys,
                                   ![p].label = code, ![p].rows[b] = Direct(p, b)]
    /\ UNCHANGED <<code, reports, prices, exported, Run, launches, deaths, edits>>

\* _aggregate_report: a report that is there is taken; for another the file as it
\* is now is kept in memory while the quote is made.
ReadReports(p) ==
    /\ In(p, "report") /\ pricer[p].wanted # {}
    /\ LET file == reports[First(pricer[p].todo)]
           cached == IF file.edition = pricer[p].label THEN file
                     ELSE [NoReports EXCEPT !.edition = pricer[p].label]
           k == First(pricer[p].wanted) IN
       pricer' = IF k \in cached.keys
                 THEN [pricer EXCEPT ![p].wanted = @ \ {k}]
                 ELSE [pricer EXCEPT ![p].at = "write", ![p].key = {k}, ![p].existing = cached]
    /\ UNCHANGED <<Files, Run, launches, deaths, edits>>

\* Mutant: a file of its own for the report.
WriteReportAlone(p) ==
    /\ In(p, "write")
    /\ reports' = [reports EXCEPT ![First(pricer[p].todo)] =
                      [edition |-> pricer[p].label, keys |-> pricer[p].key,
                       makers |-> {pricer[p].edition}]]
    /\ pricer' = [pricer EXCEPT ![p].at = "report", ![p].wanted = @ \ pricer[p].key]
    /\ UNCHANGED <<code, direct, prices, exported, Run, launches, deaths, edits>>

WriteReport(p) ==
    /\ In(p, "write")
    /\ reports' = [reports EXCEPT ![First(pricer[p].todo)] =
                      [pricer[p].existing EXCEPT !.keys = @ \cup pricer[p].key,
                                                 !.makers = @ \cup {pricer[p].edition}]]
    /\ pricer' = [pricer EXCEPT ![p].at = "report", ![p].wanted = @ \ pricer[p].key]
    /\ UNCHANGED <<code, direct, prices, exported, Run, launches, deaths, edits>>

RowDone(p) ==
    /\ In(p, "report") /\ pricer[p].wanted = {}
    /\ pricer' = [pricer EXCEPT ![p].at = "block", ![p].todo = @ \ {First(pricer[p].todo)}]
    /\ UNCHANGED <<Files, Run, launches, deaths, edits>>

\* A worker returns; the process of the window writes prices.json ...
AllRows(p) ==
    /\ In(p, "block") /\ pricer[p].todo = {}
    /\ IF p = Main THEN prices' = pricer[p].rows /\ pricer' = [pricer EXCEPT ![p].at = "export"]
                   ELSE pricer' = [pricer EXCEPT ![p] = Idle] /\ UNCHANGED prices
    /\ crew' = crew \ {p}
    /\ UNCHANGED <<code, direct, reports, exported, contested, edited, launches, deaths, edits>>

\* ... and _publish_frontend_atomically copies it.
Export ==
    /\ In(Main, "export")
    /\ exported' = prices
    /\ pricer' = [pricer EXCEPT ![Main] = Idle]
    /\ UNCHANGED <<code, direct, reports, prices, Run, launches, deaths, edits>>

\* A report below the candidate floor, a quote that fails a check, or killed.
Dead(p) ==
    /\ ~In(p, "idle") /\ Dies
    /\ pricer' = [pricer EXCEPT ![p] = Idle]
    /\ crew' = IF p = Main THEN {} ELSE crew
    /\ UNCHANGED <<Files, contested, edited, launches, edits>>

\* Between two runs, over, it may be, the workers of the earlier one.
Edit ==
    /\ In(Main, "idle") /\ edits < MaxEdits /\ edits' = edits + 1
    /\ code' \in 1 .. MaxCode \ {code}
    /\ edited' = edited \cup Elsewhere
    /\ UNCHANGED <<direct, reports, prices, exported, pricer, crew, contested, launches, deaths>>

PricerStep(p) ==
    \/ PriceDirect(p) \/ ReadReports(p) \/ WriteReport(p) \/ RowDone(p) \/ AllRows(p)

Next ==
    \/ Waited \/ WaitRaises \/ Export \/ LaunchAlone \/ Edit
    \/ \E chunk \in [Others -> SUBSET PriceBlocks] :
          /\ UNION {chunk[p] : p \in Others} = PriceBlocks
          /\ \A p, q \in Others : p # q => chunk[p] \cap chunk[q] = {}
          /\ Launch(chunk)
    \/ \E p \in Pricers : PricerStep(p) \/ Dead(p)

Fairness ==
    /\ WF_priceVars(Waited \/ WaitRaises \/ Export)
    /\ \A p \in Pricers : WF_priceVars(PricerStep(p))
Spec == Init /\ [][Next]_priceVars /\ Fairness
-----------------------------------------------------------------------------
\* What is exported was priced by one edition from one body of evidence, however
\* often runs failed or the code changed between them ("Only code and pinned input
\* identities invalidate direct-pool cache", october_source_prices.py:51): the rows,
\* the artifacts each names (rawIndex), and all the reports these hold.  With two
\* exceptions, for a worker that outlived its run.  If it still had a block before
\* it when this run began to price, both read, extend and replace one file, and one
\* may drop the other's report (_aggregate_report).  If it had a block before it
\* when the code was edited, it files what the old code makes under the new
\* fingerprint (crash_slices._fingerprint); with both, the artifacts may be of
\* either edition.
ExportBacked ==
    In(Main, "export") => \A b \in PriceBlocks :
        /\ prices[b] = pricer[Main].edition
        /\ b \notin contested \cap edited =>
              direct[b] = prices[b] /\ reports[b].edition = prices[b]
        /\ b \notin contested => reports[b].keys = Keys
        /\ b \notin edited => reports[b].makers \subseteq {prices[b]}
=============================================================================
