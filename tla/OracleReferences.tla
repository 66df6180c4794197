--------------------------- MODULE OracleReferences ---------------------------
(***************************************************************************)
(* collect_october_oracle_references.py over oracles/reference_collector:  *)
(* for every block of a window a 1inch rate and two time-weighted prices   *)
(* of a Uniswap V3 pool, read by one multicall pinned by the block's hash, *)
(* published as a sidecar of the page once every block has them.           *)
(*                                                                         *)
(* The answer of a pinned read does not change (RpcClient) and is cached.  *)
(* A digest of a file is its content, a price the raw amount it is made    *)
(* of, and a tick halves it instead of dividing it by 1.0001.              *)
(***************************************************************************)
EXTENDS Integers, Sequences, FiniteSets

CONSTANTS Canonical,   \* the window is the blocks 1 .. Canonical
          Datasets,    \* rows october-sources.json may have: blocks, 0 an ill-formed row
          Wanted,      \* --blocks: <<>> when absent, <<set>> otherwise
          Replies,     \* to the three reads of a block: <<rate, observe, observe>>
          Seconds,     \* of the two observation windows
          BaseAmount,  \* that is priced
          MaxJobs

VARIABLES replies,     \* cached, by block
          job,         \* the run of the script
          jobs,        \* runs so far
          files        \* what it has written

referenceVars == <<replies, job, jobs, files>>

Blocks == 1 .. Canonical
Nothing == <<>>

ReferencesAssumption ==
    /\ Canonical \in Nat \ {0} /\ BaseAmount \in Nat /\ MaxJobs \in Nat
    /\ Seconds \in [1 .. 2 -> Nat \ {0}]
    /\ \A reply \in Replies : DOMAIN reply = 1 .. 3 /\ \A s \in 1 .. 3 :
          /\ reply[s].kind \in {"reverted", "garbled", "value"} \cup IF s = 1 THEN {} ELSE {"short"}
          /\ reply[s].value \in Int

Resting == {"idle", "raised", "done", "dead"}
NoJob == [at |-> "idle", offline |-> FALSE, targets |-> <<>>, fresh |-> FALSE,
          raw |-> <<>>, rows |-> <<>>]

ReferencesTypeOK ==
    /\ DOMAIN replies = Blocks /\ \A b \in Blocks : replies[b] \in Replies \cup {Nothing}
    /\ job.at \in Resting \cup {"collect", "raw", "pins", "sidecar", "provenance", "subset"}
    /\ job.targets \in Seq(Blocks) /\ Len(job.rows) <= Len(job.targets)
    /\ Len(job.raw) = Len(job.rows) /\ jobs \in 0 .. MaxJobs

Init ==
    /\ replies = [b \in Blocks |-> Nothing]
    /\ job = NoJob /\ jobs = 0
    /\ files = [raw |-> Nothing, pins |-> Nothing, sidecar |-> Nothing,
                provenance |-> Nothing, subset |-> Nothing]
-----------------------------------------------------------------------------
\* Mutant: the quotient is rounded towards zero, as in Solidity.
MeanTickTruncated(delta, seconds) ==
    IF delta < 0 THEN -((-delta) \div seconds) ELSE delta \div seconds

\* compute_arithmetic_mean_tick
ComputeMeanTick(delta, seconds) == delta \div seconds

\* get_quote_at_tick_canonical: of token1, in token0.
QuoteAtTick(tick) ==
    IF tick < 0 THEN BaseAmount * 2 ^ (-tick) ELSE BaseAmount \div 2 ^ tick

Refused(status) == [status |-> status, price |-> Nothing, tick |-> Nothing]

DecodeRate(answer) ==
    CASE answer.kind = "reverted" -> Refused("reverted")
      [] answer.kind = "garbled" -> Refused("decoding_error")
      [] answer.value = 0 -> Refused("zero_rate")
      [] OTHER -> [status |-> "ok", price |-> <<answer.value>>, tick |-> Nothing]

DecodeTwap(answer, seconds) ==
    CASE answer.kind = "reverted" -> Refused("reverted")
      [] answer.kind \in {"garbled", "short"} -> Refused("decoding_error")
      [] OTHER -> LET tick == ComputeMeanTick(answer.value, seconds) IN
                  [status |-> "ok", price |-> <<QuoteAtTick(tick)>>, tick |-> <<tick>>]

\* collect_block_references
Decode(reply) ==
    <<DecodeRate(reply[1]), DecodeTwap(reply[2], Seconds[1]), DecodeTwap(reply[3], Seconds[2])>>

RawRow(b, reply, via) == [block |-> b, via |-> via, reply |-> reply, decoded |-> Decode(reply)]
SidecarRow(b, reply) ==
    [block |-> b, values |-> [s \in 1 .. 3 |-> [status |-> Decode(reply)[s].status,
                                                price |-> Decode(reply)[s].price]]]
-----------------------------------------------------------------------------
\* validate_source_dataset: as many rows as blocks, each the next block.
Valid(dataset) == dataset = [b \in Blocks |-> b]

\* Mutant: a run of some of the blocks counts as a run of all of them.
FullIfAny(targets) == targets # <<>>

Full(targets) == Len(targets) = Canonical

\* The rows of these blocks, in the order of the window.
InOrder(asked) ==
    [k \in 1 .. Cardinality(asked) |->
        CHOOSE b \in asked : Cardinality({c \in asked : c < b}) = k - 1]

\* main, as far as the source's validation and the blocks asked for.
Start(dataset, wanted, offline) ==
    LET asked == IF wanted = <<>> THEN Blocks ELSE wanted[1]
        valid == Valid(dataset) /\ asked \subseteq Blocks
    IN /\ job.at \in Resting /\ jobs < MaxJobs
       /\ jobs' = jobs + 1
       /\ job' = [NoJob EXCEPT !.at = IF valid THEN "collect" ELSE "raised",
                               !.offline = offline,
                               !.targets = IF valid THEN InOrder(asked) ELSE <<>>]
       /\ UNCHANGED <<replies, files>>

Collecting == job.at = "collect" /\ Len(job.rows) < Len(job.targets)
Target == job.targets[Len(job.rows) + 1]

Collected(reply, via) ==
    job' = [job EXCEPT !.raw = Append(@, RawRow(Target, reply, via)),
                       !.rows = Append(@, SidecarRow(Target, reply)),
                       !.fresh = @ \/ via = "network"]

\* collect_block_references, of a block that was read before ...
Reread ==
    /\ Collecting /\ replies[Target] # Nothing
    /\ Collected(replies[Target], "cache")
    /\ UNCHANGED <<replies, jobs, files>>

\* ... and of one that was not: offline, or when the node fails for good, the
\* script ends and has written nothing.
Read ==
    /\ Collecting /\ replies[Target] = Nothing
    /\ \/ /\ ~job.offline
          /\ \E reply \in Replies :
                /\ replies' = [replies EXCEPT ![Target] = reply]
                /\ Collected(reply, "network")
       \/ job' = [job EXCEPT !.at = "raised"] /\ UNCHANGED replies
    /\ UNCHANGED <<jobs, files>>

Finish ==
    /\ job.at = "collect" /\ Len(job.rows) = Len(job.targets)
    /\ job' = [job EXCEPT !.at = IF Full(job.targets) THEN "raw" ELSE "subset"]
    /\ UNCHANGED <<replies, jobs, files>>

\* Without a network request the acquisition is the one written in the script.
Content(file) ==
    CASE file = "raw" -> job.raw
      [] file = "pins" -> <<"pins">>
      [] file = "sidecar" -> job.rows
      [] file = "provenance" -> [raw |-> job.raw, sidecar |-> job.rows,
                                 acquired |-> IF job.fresh THEN job.raw ELSE <<"recorded">>]
      [] file = "subset" -> job.raw

Following(file) ==
    CASE file = "raw" -> "pins" [] file = "pins" -> "sidecar"
      [] file = "sidecar" -> "provenance" [] OTHER -> "done"

\* atomic_write_json: a temporary that replaces the file.
Write ==
    /\ job.at \in DOMAIN files
    /\ files' = [files EXCEPT ![job.at] = Content(job.at)]
    /\ job' = [job EXCEPT !.at = Following(job.at)]
    /\ UNCHANGED <<replies, jobs>>

Die ==
    /\ job.at \notin Resting
    /\ job' = [NoJob EXCEPT !.at = "dead"]
    /\ UNCHANGED <<replies, jobs, files>>

ReferenceStep == Reread \/ Read \/ Finish \/ Write

Next ==
    \/ ReferenceStep \/ Die
    \/ \E dataset \in Datasets, wanted \in Wanted, offline \in BOOLEAN :
          Start(dataset, wanted, offline)

Spec == Init /\ [][Next]_referenceVars /\ WF_referenceVars(ReferenceStep)
-----------------------------------------------------------------------------
\* The mean of a window is the last tick that is not above it ("integer division
\* floors toward negative infinity", the module's docstring).
Floored(row) ==
    \A w \in 1 .. 2 :
        LET tick == row.decoded[w + 1].tick IN
        tick # Nothing => /\ tick[1] * Seconds[w] <= row.reply[w + 1].value
                          /\ row.reply[w + 1].value < (tick[1] + 1) * Seconds[w]

\* Whatever runs of a few blocks, failures, deaths and replays there were, the
\* page has no sidecar or one with every block of the window in its place, a
\* price exactly where the read succeeded, made of the answers of that block
\* ("Publishes only when complete"; "we NEVER clobber full 254 artifacts").
SidecarWhole ==
    files.sidecar # Nothing =>
        /\ Len(files.sidecar) = Canonical /\ Len(files.raw) = Canonical
        /\ \A b \in Blocks :
              /\ files.sidecar[b].block = b /\ files.raw[b].block = b /\ Floored(files.raw[b])
              /\ \A s \in 1 .. 3 :
                    /\ files.sidecar[b].values[s].status = files.raw[b].decoded[s].status
                    /\ files.sidecar[b].values[s].price # Nothing
                         <=> files.sidecar[b].values[s].status = "ok"

\* The provenance names the published sidecar; the raw answers it names are those
\* on disk, also after a run that died between the two files, but for the way
\* each was come by.
ReferencesBacked ==
    files.provenance # Nothing =>
        /\ files.provenance.sidecar = files.sidecar
        /\ \A b \in Blocks : files.provenance.raw[b].reply = files.raw[b].reply

ReferencesExact == SidecarWhole /\ ReferencesBacked
=============================================================================
