----------------------------- MODULE Multicall -----------------------------
(***************************************************************************)
(* Multicall3.call (rpc/multicall.py): many reads at one block, batched    *)
(* through aggregate3, with the batch halved when it fails and single      *)
(* eth_calls as the last resort.                                           *)
(*                                                                         *)
(* A result is the answer a direct eth_call gives at the block (see        *)
(* RpcClient), reduced to its success flag and to the route it came by.    *)
(* Inside a batch a call that succeeds alone may fail (gas), one that      *)
(* reverts alone fails too, and one that succeeds returns the bytes the    *)
(* direct call returns (docs/INTERFACES.md, "Multicall").  That an         *)
(* identical aggregate is itself answered from the cache is not modelled:  *)
(* every attempt may end in any way.                                       *)
(***************************************************************************)
EXTENDS Naturals, Sequences, FiniteSets

CONSTANTS Specs,       \* call identities (to, data)
          Reverting,   \* those whose direct call reverts
          Requests,    \* the sequences of specs callers ask for
          ChunkSize,
          None

VARIABLES cache,     \* the call cache of RpcClient, at this block
          pc,
          request,   \* specs
          results,   \* results, one place per requested spec
          missing,   \* places where an uncached spec first occurs, in order
          offset,    \* how many of missing are done
          size,      \* specs in the batch at hand
          chunk      \* results of the batch at hand, so far

vars == <<cache, pc, request, results, missing, offset, size, chunk>>

Direct(s, via) == [spec |-> s, success |-> s \notin Reverting, via |-> via]
Results == [spec : Specs, success : BOOLEAN, via : {"multicall3", "eth_call", "cache"}]

MulticallAssumption ==
    /\ Reverting \subseteq Specs
    /\ Requests \subseteq Seq(Specs)
    /\ None \notin Results
    /\ ChunkSize \in Nat \ {0}

AtRest == {"idle", "returned", "raised", "assertionFailed"}

Places == 1 .. Len(request)

TypeOK ==
    /\ cache \in [Specs -> Results \cup {None}]
    /\ pc \in AtRest \cup {"loop", "aggregate", "subcalls", "single"}
    /\ request \in Requests \cup {<<>>}
    /\ results \in [Places -> Results \cup {None}]
    /\ missing \in Seq(Places)
    /\ offset \in 0 .. Len(missing)
    /\ size \in 0 .. ChunkSize
    /\ chunk \in Seq(Results) /\ Len(chunk) <= size

Init ==
    /\ cache = [s \in Specs |-> None]
    /\ pc = "idle"
    /\ request = <<>>
    /\ results = <<>>
    /\ missing = <<>>
    /\ offset = 0
    /\ size = 0
    /\ chunk = <<>>
-----------------------------------------------------------------------------
\* cached_call returns the cached answer and says where it came from.
FromCache(s) == IF cache[s] = None THEN None ELSE [cache[s] EXCEPT !.via = "cache"]

\* The places of the uncached specs, each spec at its first occurrence only.
Uncached(specs) ==
    {i \in 1 .. Len(specs) : /\ cache[specs[i]] = None
                             /\ \A j \in 1 .. i - 1 : specs[j] # specs[i]}

\* The enumeration of a set of places in their order.
InOrder(places) ==
    {m \in [1 .. Cardinality(places) -> places] :
        \A j, k \in 1 .. Cardinality(places) : j < k => m[j] < m[k]}

Call(specs) ==
    /\ pc \in AtRest
    /\ request' = specs
    /\ results' = [i \in 1 .. Len(specs) |-> FromCache(specs[i])]
    /\ missing' \in InOrder(Uncached(specs))
    /\ offset' = 0
    /\ pc' = "loop"
    /\ UNCHANGED <<cache, size, chunk>>

MinOf(a, b) == IF a <= b THEN a ELSE b

\* Every batch starts again at the full chunk size, whatever the last one took.
NextChunk ==
    /\ pc = "loop" /\ offset < Len(missing)
    /\ size' = MinOf(ChunkSize, Len(missing) - offset)
    /\ pc' = "aggregate"
    /\ UNCHANGED <<cache, request, results, missing, offset, chunk>>

\* assert all(result is not None for result in results)
Return ==
    /\ pc = "loop" /\ offset = Len(missing)
    /\ pc' = IF \A i \in Places : results[i] # None
               THEN "returned" ELSE "assertionFailed"
    /\ UNCHANGED <<cache, request, results, missing, offset, size, chunk>>

\* The batch answers with one (success, bytes) pair per spec.
AggregateAnswered ==
    /\ pc = "aggregate"
    /\ pc' = "subcalls"
    /\ UNCHANGED <<cache, request, results, missing, offset, size, chunk>>

\* The spec of the k-th member of the batch at hand.
Selected(k) == request[missing[offset + k]]

Keep(result) ==
    /\ cache' = [cache EXCEPT ![result.spec] = result]
    /\ chunk' = Append(chunk, result)
    /\ UNCHANGED <<pc, request, results, missing, offset, size>>

\* Mutant: a failure inside the batch is taken for the call's own.
SubcallBelieved ==
    LET s == Selected(Len(chunk) + 1) IN
    /\ pc = "subcalls" /\ Len(chunk) < size
    /\ \E success \in BOOLEAN :
          /\ s \in Reverting => ~success
          /\ Keep([spec |-> s, success |-> success, via |-> "multicall3"])

\* Mutant: results of a batch are not cached.
SubcallUncached ==
    LET s == Selected(Len(chunk) + 1) IN
    /\ pc = "subcalls" /\ Len(chunk) < size
    /\ s \notin Reverting
    /\ chunk' = Append(chunk, Direct(s, "multicall3"))
    /\ UNCHANGED <<cache, pc, request, results, missing, offset, size>>

SubcallBatched ==
    LET s == Selected(Len(chunk) + 1) IN
    /\ pc = "subcalls" /\ Len(chunk) < size
    /\ s \notin Reverting
    /\ Keep(Direct(s, "multicall3"))

\* A call that failed inside the batch is made again, alone; eth_call looks
\* into the cache before it asks the node.
SubcallAlone ==
    LET s == Selected(Len(chunk) + 1) IN
    /\ pc = "subcalls" /\ Len(chunk) < size
    /\ IF cache[s] # None
         THEN /\ chunk' = Append(chunk, FromCache(s))
              /\ UNCHANGED <<cache, pc, request, results, missing, offset, size>>
         ELSE Keep(Direct(s, "eth_call"))

\* Mutant: the offset moves by the configured size, not by the batch's.
ChunkDoneFullSize ==
    /\ pc = "subcalls" /\ Len(chunk) = size
    /\ results' = [i \in Places |->
                      IF \E k \in 1 .. size : chunk[k].spec = request[i]
                        THEN Direct(request[i], "multicall3") ELSE results[i]]
    /\ offset' = MinOf(offset + ChunkSize, Len(missing))
    /\ chunk' = <<>>
    /\ pc' = "loop"
    /\ UNCHANGED <<cache, request, missing, size>>

\* Every place that asked for a spec of the batch gets its result.
ChunkDone ==
    /\ pc = "subcalls" /\ Len(chunk) = size
    /\ results' = [i \in Places |->
                      IF \E k \in 1 .. size : chunk[k].spec = request[i]
                        THEN LET k == CHOOSE n \in 1 .. size : chunk[n].spec = request[i]
                             IN  chunk[k]
                        ELSE results[i]]
    /\ offset' = offset + size
    /\ chunk' = <<>>
    /\ pc' = "loop"
    /\ UNCHANGED <<cache, request, missing, size>>

\* The aggregate raises, reverts, cannot be decoded or has the wrong count.
AggregateFails == pc = "aggregate"

\* A member that failed inside the batch raises when it is called alone.
SubcallRaises ==
    /\ pc = "subcalls" /\ Len(chunk) < size
    /\ cache[Selected(Len(chunk) + 1)] = None

\* Mutant: what the failed batch gathered stays in the list.
ChunkFailsKeeping ==
    /\ AggregateFails \/ SubcallRaises
    /\ IF size > 1 THEN size' = size \div 2 /\ pc' = "aggregate"
                   ELSE size' = size /\ pc' = "single"
    /\ UNCHANGED <<cache, request, results, missing, offset, chunk>>

\* Mutant: a batch of one is tried again as a batch.
ChunkFailsForever ==
    /\ AggregateFails \/ SubcallRaises
    /\ size' = IF size > 1 THEN size \div 2 ELSE 1
    /\ pc' = "aggregate"
    /\ chunk' = <<>>
    /\ UNCHANGED <<cache, request, results, missing, offset>>

\* What the batch gathered is dropped (the cache keeps it) and the batch is
\* halved, down to one call made alone.
ChunkFails ==
    /\ AggregateFails \/ SubcallRaises
    /\ IF size > 1 THEN size' = size \div 2 /\ pc' = "aggregate"
                   ELSE size' = size /\ pc' = "single"
    /\ chunk' = <<>>
    /\ UNCHANGED <<cache, request, results, missing, offset>>

\* The last resort fills the place where the spec was first asked for, and no
\* other place.
SingleAnswered ==
    LET s == Selected(1)
        result == IF cache[s] # None THEN FromCache(s) ELSE Direct(s, "eth_call")
    IN
    /\ pc = "single"
    /\ results' = [results EXCEPT ![missing[offset + 1]] = result]
    /\ cache' = [cache EXCEPT ![s] = IF @ = None THEN result ELSE @]
    /\ offset' = offset + 1
    /\ pc' = "loop"
    /\ UNCHANGED <<request, missing, size, chunk>>

SingleRaises ==
    /\ pc = "single"
    /\ cache[Selected(1)] = None
    /\ pc' = "raised"
    /\ UNCHANGED <<cache, request, results, missing, offset, size, chunk>>
-----------------------------------------------------------------------------
CallStep ==
    \/ NextChunk \/ Return
    \/ AggregateAnswered \/ SubcallBatched \/ SubcallAlone \/ ChunkDone
    \/ ChunkFails \/ SingleAnswered \/ SingleRaises

Next == CallStep \/ \E specs \in Requests : Call(specs)

\* eth_call always ends, so a call that is under way goes on.
Spec == Init /\ [][Next]_vars /\ WF_vars(CallStep)
-----------------------------------------------------------------------------
\* "Batched vs individual reads are byte-identical": whatever was cached,
\* batched, halved, repeated or read alone, the returned results stand in the
\* order of the request and are what direct calls would have returned.
ReturnedAsDirect ==
    pc = "returned" =>
        \A i \in Places :
            /\ results[i].spec = request[i]
            /\ results[i].success = (request[i] \notin Reverting)

\* A failure reported to the caller was seen by a direct call, in this call or
\* in the one that cached it: a failure inside a batch proves nothing.
FailuresConfirmedAlone ==
    /\ \A s \in Specs :
          cache[s] # None /\ ~cache[s].success => cache[s].via = "eth_call"
    /\ \A i \in Places :
          results[i] # None /\ ~results[i].success => results[i].via # "multicall3"

\* What a call has gathered survives it: if it raises, the next one finds in
\* the cache every result this one held, dropped batches included.
GatheredIsCached ==
    /\ \A i \in Places : results[i] # None => cache[request[i]] # None
    /\ pc \in {"aggregate", "subcalls", "single"} =>
          \A k \in 1 .. Len(chunk) : cache[chunk[k].spec] # None

\* The batch moves over the missing specs without skipping or repeating one:
\* those before offset have their result, those after it are still unread.
OffsetSplitsMissing ==
    pc # "idle" =>
        \A k \in 1 .. Len(missing) : results[missing[k]] # None <=> k <= offset

\* However often batches fail, a call returns, raises or hits its assertion.
CallEnds == pc \notin AtRest ~> pc \in AtRest

\* multicall.py:72 asserts that every requested place has a result.
EveryPlaceFilled == pc # "assertionFailed"
=============================================================================
