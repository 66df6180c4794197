------------------------------ MODULE RpcLogs ------------------------------
(***************************************************************************)
(* RpcClient.get_logs (rpc/client.py): a range of event logs read chunk by *)
(* chunk through a disk cache, over _rpc with its retries.                 *)
(*                                                                         *)
(* A chunk's file is reused only when the hash stored with it is the live  *)
(* hash of the chunk's last block.  A chunk the provider calls too large   *)
(* is halved, and stays halved for the rest of the range.  Clients share   *)
(* the cache directory; each request is a step of its own.                 *)
(*                                                                         *)
(* The logs of a chunk are abstracted to the fork each of its blocks was   *)
(* on when the node answered eth_getLogs.                                  *)
(***************************************************************************)
EXTENDS NodeChain, Sequences

CONSTANTS Clients,
          Ranges,      \* the ranges and chunk sizes callers ask for
          MaxAttempts,   \* attempts of one _rpc (6 in the code)
          WindowReorgs   \* may the chain reorganise a chunk between its
                         \* eth_getLogs and the header stored with it?

ASSUME RpcLogsAssumption ==
    /\ Ranges \subseteq [first : Heights, last : Heights, chunk : Nat \ {0}]
    /\ MaxAttempts \in Nat \ {0}
    /\ WindowReorgs \in BOOLEAN

VARIABLES headers,   \* headers[n]: hash cached for block number n, or Absent
          files,     \* files[s][e]: the cache file of chunk s..e, or Absent
          doing,
          first,     \* the requested range: from_block
          last,      \* ... to to_block
          start,     \* first block of the chunk at hand
          chunkSize,      \* current_chunk
          tries,     \* failed attempts of the request under way
          payload,   \* the cache file read for the chunk at hand
          got,       \* the node's answer, not yet filed
          logs       \* the chunks collected so far, in order

clientVars == <<doing, first, last, start, chunkSize, tries, payload, got, logs>>
logsVars == <<canon, abandoned, headers, files, clientVars>>

MinOf(a, b) == IF a <= b THEN a ELSE b

\* The last block of the chunk at hand.
ChunkEnd(c) == MinOf(start[c] + chunkSize[c] - 1, last[c])

\* The logs of blocks s..e on the chain the node serves now.
CanonLogs(s, e) == [n \in s..e |-> canon[n]]

LogResults == UNION {UNION {[s..e -> Forks] : e \in Heights} : s \in Heights}
Files == [result : LogResults, toHash : Forks]
ChunkLogs == [first : Heights, last : Heights, result : LogResults]

Requesting == {"check", "fetch", "seal"}
Finished == {"done", "raised"}

LogsTypeOK ==
    /\ ChainTypeOK
    /\ headers \in [Heights -> Forks \cup {Absent}]
    /\ files \in [Heights -> [Heights -> Files \cup {Absent}]]
    /\ doing \in [Clients -> {"plan"} \cup Requesting \cup Finished]
    /\ first \in [Clients -> Nat]
    /\ last \in [Clients -> Nat]
    /\ start \in [Clients -> Nat]
    /\ chunkSize \in [Clients -> Nat \ {0}]
    /\ tries \in [Clients -> 0 .. MaxAttempts - 1]
    /\ payload \in [Clients -> Files \cup {Absent}]
    /\ got \in [Clients -> LogResults \cup {Absent}]
    /\ logs \in [Clients -> Seq(ChunkLogs)]

LogsInit ==
    /\ ChainInit
    /\ headers = [n \in Heights |-> Absent]
    /\ files = [s \in Heights |-> [e \in Heights |-> Absent]]
    /\ doing = [c \in Clients |-> "done"]
    /\ first = [c \in Clients |-> 1]
    /\ last = [c \in Clients |-> 0]
    /\ start = [c \in Clients |-> 1]
    /\ chunkSize = [c \in Clients |-> 1]
    /\ tries = [c \in Clients |-> 0]
    /\ payload = [c \in Clients |-> Absent]
    /\ got = [c \in Clients |-> Absent]
    /\ logs = [c \in Clients |-> <<>>]
-----------------------------------------------------------------------------
GetLogs(c, request) ==
    /\ doing[c] \in Finished
    /\ doing' = [doing EXCEPT ![c] = "plan"]
    /\ start' = [start EXCEPT ![c] = request.first]
    /\ first' = [first EXCEPT ![c] = request.first]
    /\ last' = [last EXCEPT ![c] = request.last]
    /\ chunkSize' = [chunkSize EXCEPT ![c] = request.chunk]
    /\ logs' = [logs EXCEPT ![c] = <<>>]
    /\ UNCHANGED <<canon, abandoned, headers, files, tries, payload, got>>

\* The head of the loop: choose the chunk and read its file, if there is one.
RangeDone(c) ==
    /\ doing[c] = "plan" /\ start[c] > last[c]
    /\ doing' = [doing EXCEPT ![c] = "done"]
    /\ UNCHANGED <<canon, abandoned, headers, files, first, last, start, chunkSize, tries,
                   payload, got, logs>>

PlanChunk(c) ==
    LET file == files[start[c]][ChunkEnd(c)] IN
    /\ doing[c] = "plan" /\ start[c] <= last[c]
    /\ doing' = [doing EXCEPT ![c] = IF file # Absent THEN "check" ELSE "fetch"]
    /\ payload' = [payload EXCEPT ![c] = file]
    /\ UNCHANGED <<canon, abandoned, headers, files, first, last, start, chunkSize, tries,
                   got, logs>>

\* Mutant: the next chunk starts at the last block of this one.
CollectOverlapping(c, result) ==
    /\ logs' = [logs EXCEPT ![c] = Append(@,
                   [first |-> start[c], last |-> ChunkEnd(c), result |-> result])]
    /\ start' = [start EXCEPT ![c] = ChunkEnd(c)]
    /\ doing' = [doing EXCEPT ![c] = "plan"]
    /\ tries' = [tries EXCEPT ![c] = 0]
    /\ payload' = [payload EXCEPT ![c] = Absent]
    /\ got' = [got EXCEPT ![c] = Absent]

\* logs.extend(result); start = end + 1
Collect(c, result) ==
    /\ logs' = [logs EXCEPT ![c] = Append(@,
                   [first |-> start[c], last |-> ChunkEnd(c), result |-> result])]
    /\ start' = [start EXCEPT ![c] = ChunkEnd(c) + 1]
    /\ doing' = [doing EXCEPT ![c] = "plan"]
    /\ tries' = [tries EXCEPT ![c] = 0]
    /\ payload' = [payload EXCEPT ![c] = Absent]
    /\ got' = [got EXCEPT ![c] = Absent]

\* Mutant: the hash in the file is compared with the cached header.
CheckFileCached(c) ==
    LET end == ChunkEnd(c)
        known == IF headers[end] # Absent THEN headers[end] ELSE canon[end]
    IN
    /\ doing[c] = "check"
    /\ headers' = [headers EXCEPT ![end] = known]
    /\ IF payload[c].toHash = known
         THEN Collect(c, payload[c].result)
         ELSE /\ doing' = [doing EXCEPT ![c] = "fetch"]
              /\ tries' = [tries EXCEPT ![c] = 0]
              /\ UNCHANGED <<start, payload, got, logs>>
    /\ UNCHANGED <<canon, abandoned, files, first, last, chunkSize>>

\* Mutant: a stale file is stamped with the live hash before it is refetched.
CheckFileRestamping(c) ==
    LET end == ChunkEnd(c) IN
    /\ doing[c] = "check"
    /\ headers' = [headers EXCEPT ![end] = canon[end]]
    /\ files' = [files EXCEPT ![start[c]][end].toHash = canon[end]]
    /\ IF payload[c].toHash = canon[end]
         THEN Collect(c, payload[c].result)
         ELSE /\ doing' = [doing EXCEPT ![c] = "fetch"]
              /\ tries' = [tries EXCEPT ![c] = 0]
              /\ UNCHANGED <<start, payload, got, logs>>
    /\ UNCHANGED <<canon, abandoned, first, last, chunkSize>>

\* The live header of the chunk's end is fetched, and cached, before the hash
\* in the file is compared with it.
CheckFile(c) ==
    LET end == ChunkEnd(c) IN
    /\ doing[c] = "check"
    /\ headers' = [headers EXCEPT ![end] = canon[end]]
    /\ IF payload[c].toHash = canon[end]
         THEN Collect(c, payload[c].result)
         ELSE /\ doing' = [doing EXCEPT ![c] = "fetch"]
              /\ tries' = [tries EXCEPT ![c] = 0]
              /\ UNCHANGED <<start, payload, got, logs>>
    /\ UNCHANGED <<canon, abandoned, files, first, last, chunkSize>>

FetchLogs(c) ==
    /\ doing[c] = "fetch"
    /\ got' = [got EXCEPT ![c] = CanonLogs(start[c], ChunkEnd(c))]
    /\ tries' = [tries EXCEPT ![c] = 0]
    /\ doing' = [doing EXCEPT ![c] = "seal"]
    /\ UNCHANGED <<canon, abandoned, headers, files, first, last, start, chunkSize, payload, logs>>

\* end_ref = get_block(end): the header cached for that number, or else the
\* live one; its hash is filed with the logs.
SealFile(c) ==
    LET end == ChunkEnd(c)
        endHash == IF headers[end] # Absent THEN headers[end] ELSE canon[end]
    IN
    /\ doing[c] = "seal"
    /\ headers' = [headers EXCEPT ![end] = endHash]
    /\ files' = [files EXCEPT ![start[c]][end] =
                    [result |-> got[c], toHash |-> endHash]]
    /\ Collect(c, got[c])
    /\ UNCHANGED <<canon, abandoned, first, last, chunkSize>>
-----------------------------------------------------------------------------
(* _rpc and the errors get_logs tells apart                                *)

\* A request goes to the network unless the header it asks for is cached.
OnNetwork(c) ==
    \/ doing[c] \in {"check", "fetch"}
    \/ doing[c] = "seal" /\ headers[ChunkEnd(c)] = Absent

Raise(c) ==
    /\ doing' = [doing EXCEPT ![c] = "raised"]
    /\ tries' = [tries EXCEPT ![c] = 0]
    /\ payload' = [payload EXCEPT ![c] = Absent]
    /\ got' = [got EXCEPT ![c] = Absent]
    /\ UNCHANGED <<canon, abandoned, headers, files, first, last, start, chunkSize, logs>>

\* Mutant: one attempt too many.
RetryOnceMore(c) ==
    /\ tries[c] < MaxAttempts
    /\ tries' = [tries EXCEPT ![c] = @ + 1]
    /\ UNCHANGED <<canon, abandoned, headers, files, doing, first, last, start, chunkSize,
                   payload, got, logs>>

Retry(c) ==
    /\ tries[c] + 1 < MaxAttempts
    /\ tries' = [tries EXCEPT ![c] = @ + 1]
    /\ UNCHANGED <<canon, abandoned, headers, files, doing, first, last, start, chunkSize,
                   payload, got, logs>>

\* A timeout, a lost connection, HTTP 429 or 5xx.
TransportFails(c) ==
    /\ OnNetwork(c)
    /\ Retry(c) \/ (tries[c] + 1 = MaxAttempts /\ Raise(c))

\* The answer of a provider that finds the range too large.
HalveChunk(c) ==
    /\ doing[c] = "fetch" /\ chunkSize[c] > 1
    /\ chunkSize' = [chunkSize EXCEPT ![c] = @ \div 2]
    /\ tries' = [tries EXCEPT ![c] = 0]
    /\ payload' = [payload EXCEPT ![c] = Absent]
    /\ doing' = [doing EXCEPT ![c] = "plan"]
    /\ UNCHANGED <<canon, abandoned, headers, files, first, last, start, got, logs>>

\* Mutant: a chunk of one block that is refused is planned again.
RangeRefusedAgain(c) ==
    /\ doing[c] = "fetch"
    /\ chunkSize' = [chunkSize EXCEPT ![c] = IF @ > 1 THEN @ \div 2 ELSE 1]
    /\ tries' = [tries EXCEPT ![c] = 0]
    /\ payload' = [payload EXCEPT ![c] = Absent]
    /\ doing' = [doing EXCEPT ![c] = "plan"]
    /\ UNCHANGED <<canon, abandoned, headers, files, first, last, start, got, logs>>

RangeRefused(c) ==
    /\ doing[c] = "fetch"
    /\ HalveChunk(c) \/ (chunkSize[c] = 1 /\ Raise(c))

\* Code -32005 is both "retry" and "range too large": retried first, and on
\* the last attempt raised to get_logs, which halves.
LimitExceeded(c) ==
    /\ OnNetwork(c)
    /\ \/ Retry(c)
       \/ /\ tries[c] + 1 = MaxAttempts
          /\ IF doing[c] = "fetch" THEN RangeRefused(c) ELSE Raise(c)

\* Any other RPC or HTTP error, invalid JSON, a block that is not found.
RequestFails(c) == OnNetwork(c) /\ Raise(c)
-----------------------------------------------------------------------------
\* Other users of the cache directory: eth_call's header checks file the live
\* header of a number, get_block(hash) that of any block the node still knows.
HeaderFiled(n, f) ==
    /\ f \in Seen(n)
    /\ headers' = [headers EXCEPT ![n] = f]
    /\ UNCHANGED <<canon, abandoned, files, clientVars>>

ChainMoves(d, f) ==
    /\ Reorg(d, f)
    /\ WindowReorgs \/ \A c \in Clients : doing[c] = "seal" => d > ChunkEnd(c)
    /\ UNCHANGED <<headers, files, clientVars>>

ClientStep(c) ==
    \/ RangeDone(c) \/ PlanChunk(c)
    \/ CheckFile(c) \/ FetchLogs(c) \/ SealFile(c)
    \/ TransportFails(c) \/ RangeRefused(c) \/ LimitExceeded(c) \/ RequestFails(c)

LogsNext ==
    \/ \E d \in Heights, f \in Forks : ChainMoves(d, f)
    \/ \E n \in Heights, f \in Forks : HeaderFiled(n, f)
    \/ \E c \in Clients :
          \/ ClientStep(c)
          \/ \E request \in Ranges : GetLogs(c, request)

\* Every request is answered or times out (session.post(..., timeout=60)), and
\* the process runs on: a client that can take a step takes one.
LogsFairness == \A c \in Clients : WF_logsVars(ClientStep(c))

LogsSpec == LogsInit /\ [][LogsNext]_logsVars

LogsFairSpec == LogsSpec /\ LogsFairness
-----------------------------------------------------------------------------
\* docs/INTERFACES.md, "Cache keys": a file carries the hash of its last block "so
\* a reorg can be detected on reuse".  So a file whose stored hash is canonical
\* holds the logs of the canonical chain.
ReusableFilesCurrent ==
    \A s, e \in Heights :
        files[s][e] # Absent /\ files[s][e].toHash = canon[e] =>
            files[s][e].result = CanonLogs(s, e)

\* The chunk a client takes from a file, read before the header that justifies
\* the reuse and perhaps overwritten since, is the canonical chain's.
ReuseReturnsCanonical ==
    [][\A c \in Clients :
          doing[c] = "check" /\ logs'[c] # logs[c] =>
              payload[c].result = CanonLogs(start[c], ChunkEnd(c))]_logsVars

\* However often the chunk was halved and whichever chunks came from files,
\* the collected chunks follow each other without gap or overlap, each with
\* one entry per block, from from_block to the block the loop stands at.
ChunksContiguous ==
    \A c \in Clients :
        LET chunks == logs[c] IN
        /\ \A i \in 1 .. Len(chunks) :
              /\ chunks[i].first <= chunks[i].last
              /\ DOMAIN chunks[i].result = chunks[i].first .. chunks[i].last
              /\ i > 1 => chunks[i].first = chunks[i - 1].last + 1
              /\ i = 1 => chunks[i].first = first[c]
        /\ start[c] = IF chunks = <<>> THEN first[c] ELSE chunks[Len(chunks)].last + 1
        /\ doing[c] = "done" => start[c] > last[c]

\* get_logs ends, with the logs or with an error, however the provider limits
\* the range and however the chain moves meanwhile.
GetLogsEnds == \A c \in Clients : doing[c] \notin Finished ~> doing[c] \in Finished
=============================================================================
