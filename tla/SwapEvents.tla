------------------------------ MODULE SwapEvents ------------------------------
(***************************************************************************)
(* october_swap_events.py: the swap events of six pools over a window are  *)
(* fetched once and cached, then ordered, decoded and summed up.  What is  *)
(* canonical is said by another script's sources.json, which may be made   *)
(* anew, on another branch, while the cache remains.                       *)
(*                                                                         *)
(* A branch is the hashes it gives the blocks of the window.  A log is the  *)
(* record below; weth and usdc are what the pool gained.  The node answers  *)
(* with the logs of one branch, in some order, and some of them twice.     *)
(***************************************************************************)
EXTENDS Integers, FiniteSets, SequencesExt

CONSTANTS Logs,            \* emitted on the branches
          Branches,
          Window,          \* CANONICAL_START_BLOCK .. CANONICAL_END_BLOCK
          Catalog,         \* family of each pool of POOLS_CATALOG
          MinuteOf, Minutes,    \* of a block; all_minutes
          BinTops,         \* upper ends of the size bins but the last
          MaxRuns, MaxRepeats   \* bounds: runs; logs that are answered twice

SwapAssumption ==
    /\ Window \subseteq Nat /\ IsFiniteSet(Window) /\ IsFiniteSet(Logs)
    /\ \A l \in Logs : /\ l.branch \in Branches
                      /\ {l.block, l.index} \subseteq Nat /\ {l.weth, l.usdc} \subseteq Int
    \* The index counts the logs of a block.
    /\ \A k, l \in Logs :
          k.branch = l.branch /\ k.block = l.block /\ k.index = l.index => k = l
    /\ IsFiniteSet(DOMAIN Catalog)
    /\ MinuteOf \in [Window -> Minutes] /\ IsFiniteSet(Minutes)
    /\ BinTops \subseteq Nat /\ IsFiniteSet(BinTops)
    /\ {MaxRuns, MaxRepeats} \subseteq Nat

VARIABLES canonical,   \* the branch sources.json is of
          cache,       \* raw_logs.json
          page,        \* data.json
          trades,      \* trades.csv and the page
          place,       \* where the run is
          taken,       \* the logs it goes by
          experiments

swapVars == <<canonical, cache, page, trades, place, taken, experiments>>

NoFile == <<>>
NoLogs == [pinned |-> "", node |-> "", logs |-> <<>>]
Range1(f) == {f[x] : x \in DOMAIN f}

\* What the node may answer: its logs, and up to MaxRepeats of them again.
Answers(branch) ==
    LET own == {l \in Logs : l.branch = branch}
    IN UNION {SetToSeqs(own), {Append(s, l) : s \in SetToSeqs(own),
                                              l \in IF MaxRepeats = 0 THEN {} ELSE own}}

Init ==
    /\ canonical = (CHOOSE branch \in Branches : TRUE)
    /\ cache = NoFile /\ page = NoFile /\ trades = NoFile
    /\ place = "idle" /\ taken = NoLogs /\ experiments = 0
-----------------------------------------------------------------------------
Begins == place = "idle" /\ experiments < MaxRuns /\ experiments' = experiments + 1

\* Mutant: a cache of this window will do.
ReuseCacheOfWindow ==
    /\ Begins /\ cache # NoFile
    /\ place' = "decode" /\ taken' = cache
    /\ UNCHANGED <<canonical, cache, page, trades>>

\* run_experiment with a cache: validate_cache compares the hashes, and a
\* mismatch ends the run.
ReuseCache ==
    /\ Begins /\ cache # NoFile
    /\ IF cache.pinned = canonical THEN place' = "decode" /\ taken' = cache
                                   ELSE UNCHANGED <<place, taken>>
    /\ UNCHANGED <<canonical, cache, page, trades>>

\* Without one, or with --force-refresh: verify_pool_tokens and one eth_getLogs.
\* The hashes that are cached are those of sources.json.
Fetch(forced) ==
    /\ Begins /\ (cache # NoFile => forced)
    /\ \/ UNCHANGED <<cache, place, taken>>          \* a request fails
       \/ \E branch \in Branches : \E logs \in Answers(branch) :
             /\ cache' = [pinned |-> canonical, node |-> branch, logs |-> logs]
             /\ place' = "decode" /\ taken' = cache'
    /\ UNCHANGED <<canonical, page, trades>>

\* Block hash and log index tell the transaction too.
Identity(l) == <<l.branch, l.block, l.index>>

\* The first of each identity.
Deduped(logs) ==
    {logs[n] : n \in {k \in DOMAIN logs :
        \A j \in DOMAIN logs : j < k => Identity(logs[j]) # Identity(logs[k])}}

Precedes(k, l) == k.block < l.block \/ (k.block = l.block /\ k.index < l.index)

\* In the order of the chain: the place of a log is told by how many precede it.
Preceding(kept, l) == {k \in kept : Precedes(k, l)}
Sorted(kept) ==
    [n \in 1 .. Cardinality(kept) |->
        CHOOSE l \in kept : Cardinality(Preceding(kept, l)) = n - 1]

\* decode_v3_swap_log, decode_v2_swap_log: exactly one token in, the other out.
Direction(l) == IF l.weth > 0 /\ l.usdc < 0 THEN "SELL_WETH"
                ELSE IF l.weth < 0 /\ l.usdc > 0 THEN "BUY_WETH" ELSE "none"

\* What the loop over the logs does not reject.
Accepted(l) ==
    /\ ~l.removed
    /\ l.pool \in DOMAIN Catalog /\ l.block \in Window
    /\ l.branch = canonical
    /\ l.topic = Catalog[l.pool]
    /\ Direction(l) # "none"

Swap(l) == [log |-> l, direction |-> Direction(l),
            base |-> IF l.weth < 0 THEN -l.weth ELSE l.weth,
            quote |-> IF l.usdc < 0 THEN -l.usdc ELSE l.usdc]

Decoded(kept) ==
    LET logs == Sorted({l \in kept : Accepted(l)}) IN [n \in DOMAIN logs |-> Swap(logs[n])]

Total(f, S) == MapThenSumSet(LAMBDA x : f[x], S)

\* sum_direction, of the swaps at some places of the list.
Sum(swaps, chosen) ==
    [way \in {"BUY_WETH", "SELL_WETH"} |-> [c \in {"count", "base", "quote"} |->
        Total([n \in DOMAIN swaps |-> IF c = "count" THEN 1 ELSE swaps[n][c]],
              {n \in chosen : swaps[n].direction = way})]]

Bins == {[low |-> Max({0} \cup {t \in BinTops : t < top}), top |-> top] : top \in BinTops}

\* The metrics of the page: in all, by pool, block, minute and size.
Metrics(swaps) ==
    LET D == DOMAIN swaps IN
    [total |-> Sum(swaps, D),
     pool |-> [p \in DOMAIN Catalog |-> Sum(swaps, {n \in D : swaps[n].log.pool = p})],
     block |-> [b \in Window |-> Sum(swaps, {n \in D : swaps[n].log.block = b})],
     minute |-> [m \in Minutes |-> Sum(swaps, {n \in D : MinuteOf[swaps[n].log.block] = m})],
     size |-> [x \in Bins |->
                 Sum(swaps, {n \in D : x.low <= swaps[n].base /\ swaps[n].base < x.top})],
     large |-> Sum(swaps, {n \in D : \A t \in BinTops : swaps[n].base >= t})]

\* A swap that leaves a price of 0 raises (v3_post_swap_spot).
Publish ==
    /\ place = "decode"
    /\ LET swaps == Decoded(Deduped(taken.logs)) IN
       IF \E s \in Range1(swaps) : s.log.price = 0
       THEN place' = "idle" /\ UNCHANGED page
       ELSE /\ page' = [swaps |-> swaps, metrics |-> Metrics(swaps), of |-> canonical]
            /\ place' = "write"
    /\ UNCHANGED <<canonical, cache, trades, taken, experiments>>

WriteTrades ==
    /\ place = "write"
    /\ trades' = page.swaps
    /\ place' = "idle"
    /\ UNCHANGED <<canonical, cache, page, taken, experiments>>

\* Killed, or no space left.
Stops ==
    /\ place # "idle" /\ place' = "idle"
    /\ UNCHANGED <<canonical, cache, page, trades, taken, experiments>>

SourcesChange ==
    /\ place = "idle"
    /\ canonical' \in Branches \ {canonical}
    /\ UNCHANGED <<cache, page, trades, place, taken, experiments>>

Next ==
    \/ Publish \/ WriteTrades \/ ReuseCache \/ Stops \/ SourcesChange
    \/ \E forced \in BOOLEAN : Fetch(forced)

Spec == Init /\ [][Next]_swapVars
-----------------------------------------------------------------------------
\* If the node, when it was asked, was on the branch of sources.json, the page
\* has every swap of the canonical branch once, in the order of the chain, and
\* none of another, though the logs may be those of an earlier run and
\* sources.json may have been made anew in between
\* (validate_cache "fails closed on any mismatch", october_swap_events.py:366).
SwapsExact ==
    (place = "write" /\ taken.node = taken.pinned) =>
        /\ {s.log : s \in Range1(page.swaps)} = {l \in Logs : Accepted(l)}
        /\ \A m, n \in DOMAIN page.swaps :
              m < n => Precedes(page.swaps[m].log, page.swaps[n].log)

\* The buckets of every table add up to the total (Step 5 of run_experiment).
BucketsAddUp ==
    place = "write" =>
        LET m == page.metrics
            Adds(f, way, c) == Total([x \in DOMAIN f |-> f[x][way][c]], DOMAIN f) IN
        \A way \in DOMAIN m.total : \A c \in DOMAIN m.total[way] :
            /\ Adds(m.pool, way, c) = m.total[way][c]
            /\ Adds(m.block, way, c) = m.total[way][c]
            /\ Adds(m.minute, way, c) = m.total[way][c]
            /\ Adds(m.size, way, c) + m.large[way][c] = m.total[way][c]
=============================================================================
