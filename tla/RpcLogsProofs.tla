--------------------------- MODULE RpcLogsProofs ---------------------------
(***************************************************************************)
(* get_logs and its cache files, for any number of clients, ranges, chunk  *)
(* sizes and reorganisations.                                              *)
(*                                                                         *)
(* What get_logs collects is contiguous unconditionally.  That a file whose *)
(* hash is canonical holds canonical logs is proved under WindowReorgs =   *)
(* FALSE: the interval between eth_getLogs and the header filed with its   *)
(* answer is the only place where a reorganisation escapes the check.      *)
(***************************************************************************)
EXTENDS RpcLogs, TLAPS

HeadersSeen == \A n \in Heights : headers[n] # Absent => headers[n] \in Seen(n)

\* A request is for a chunk inside the range, and the range inside the chain.
RangeInv ==
    \A c \in Clients :
        doing[c] \notin Finished =>
            /\ last[c] \in Heights
            /\ start[c] <= last[c] => start[c] \in Heights
            /\ doing[c] \in Requesting => start[c] <= last[c]

\* A file covers its own chunk, and its hash is one the node has served.
FileOf(file, s, e) == file.result \in [s..e -> Forks] /\ file.toHash \in Seen(e)

FilesInv == \A s, e \in Heights : files[s][e] # Absent => FileOf(files[s][e], s, e)

PendingInv ==
    \A c \in Clients :
        /\ doing[c] = "check" =>
              payload[c] # Absent /\ FileOf(payload[c], start[c], ChunkEnd(c))
        /\ doing[c] = "seal" => got[c] \in [start[c] .. ChunkEnd(c) -> Forks]

ShapeInv ==
    LogsTypeOK /\ CanonIsLive /\ HeadersSeen /\ RangeInv /\ FilesInv /\ PendingInv

\* The second part needs that no reorganisation falls into the window.
Trusted(file, s, e) == file.toHash = canon[e] => file.result = CanonLogs(s, e)

HeldCurrent(c) ==
    /\ doing[c] = "check" => Trusted(payload[c], start[c], ChunkEnd(c))
    /\ doing[c] = "seal" => got[c] = CanonLogs(start[c], ChunkEnd(c))

PendingCurrent == \A c \in Clients : HeldCurrent(c)

CurrentInv == ShapeInv /\ ReusableFilesCurrent /\ PendingCurrent
-----------------------------------------------------------------------------
\* The chunk of a client that has one lies in its range and in the chain.
LEMMA ChunkEndInRange ==
    ASSUME NEW c \in Clients, start[c] \in Heights, last[c] \in Heights,
           chunkSize[c] \in Nat \ {0}, start[c] <= last[c]
    PROVE  /\ ChunkEnd(c) \in Heights /\ ChunkEnd(c) \in Nat
           /\ start[c] <= ChunkEnd(c) /\ ChunkEnd(c) <= last[c]
           /\ start[c] .. ChunkEnd(c) \subseteq Heights
<1>1. start[c] \in Nat /\ last[c] \in Nat
  BY NodeChainAssumption
<1>2. ChunkEnd(c) \in start[c] .. last[c]
  BY <1>1 DEF ChunkEnd, MinOf
<1>3. ChunkEnd(c) \in Heights
  BY <1>2, NodeChainAssumption
<1> QED
  BY <1>1, <1>2, <1>3, NodeChainAssumption

LEMMA RequestRange ==
    ASSUME ShapeInv, NEW c \in Clients,
           doing[c] \in Requesting \/ (doing[c] = "plan" /\ start[c] <= last[c])
    PROVE  /\ start[c] \in Heights /\ ChunkEnd(c) \in Heights
           /\ start[c] \in Nat /\ ChunkEnd(c) \in Nat /\ last[c] \in Nat
           /\ start[c] <= ChunkEnd(c) /\ ChunkEnd(c) <= last[c]
           /\ start[c] .. ChunkEnd(c) \subseteq Heights
<1>1. start[c] \in Heights /\ last[c] \in Heights /\ start[c] <= last[c]
  BY DEF ShapeInv, RangeInv, Requesting, Finished
<1>2. chunkSize[c] \in Nat \ {0}
  BY DEF ShapeInv, LogsTypeOK
<1> QED
  BY <1>1, <1>2, ChunkEndInRange, NodeChainAssumption

LEMMA ResultType ==
    ASSUME NEW s \in Heights, NEW e \in Heights, NEW r \in [s..e -> Forks]
    PROVE  r \in LogResults
<1>1. r \in UNION {[s..b -> Forks] : b \in Heights}
  OBVIOUS
<1> QED
  BY <1>1 DEF LogResults

LEMMA CanonLogsType ==
    ASSUME ChainTypeOK, NEW s \in Heights, NEW e \in Heights
    PROVE  CanonLogs(s, e) \in [s..e -> Forks]
BY NodeChainAssumption DEF ChainTypeOK, CanonLogs
-----------------------------------------------------------------------------
(* The shape of what clients hold and files contain                        *)

LEMMA InitShape == LogsInit => ShapeInv
<1> SUFFICES ASSUME LogsInit PROVE ShapeInv
  OBVIOUS
<1> USE NodeChainAssumption, RpcLogsAssumption DEF LogsInit, ChainInit
<1>1. LogsTypeOK
  BY DEF LogsTypeOK, ChainTypeOK, Requesting, Finished
<1>2. CanonIsLive /\ HeadersSeen
  BY DEF CanonIsLive, HeadersSeen
<1>3. RangeInv /\ FilesInv /\ PendingInv
  BY DEF RangeInv, FilesInv, PendingInv, Finished
<1> QED
  BY <1>1, <1>2, <1>3 DEF ShapeInv

LEMMA ChainShape ==
    ASSUME ShapeInv, NEW d \in Heights, NEW f \in Forks, ChainMoves(d, f)
    PROVE  ShapeInv'
<1> USE DEF ShapeInv, ChainMoves, Reorg, clientVars
<1>1. LogsTypeOK'
  BY DEF LogsTypeOK, ChainTypeOK
<1>2. CanonIsLive'
  BY DEF CanonIsLive, LogsTypeOK, ChainTypeOK, Seen
<1>3. \A n \in Heights : Seen(n) \subseteq Seen(n)'
  BY DEF Seen, LogsTypeOK, ChainTypeOK
<1>4. HeadersSeen' /\ FilesInv' /\ RangeInv'
  BY <1>3 DEF HeadersSeen, FilesInv, FileOf, RangeInv
<1>5. PendingInv'
  <2> SUFFICES ASSUME NEW c \in Clients PROVE
        /\ (doing[c] = "check" =>
               payload[c] # Absent /\ FileOf(payload[c], start[c], ChunkEnd(c)))'
        /\ (doing[c] = "seal" => got[c] \in [start[c] .. ChunkEnd(c) -> Forks])'
    BY DEF PendingInv
  <2>1. ChunkEnd(c)' = ChunkEnd(c)
    BY DEF ChunkEnd, MinOf
  <2>2. CASE doing[c] \in Requesting
    <3>1. ChunkEnd(c) \in Heights
      BY <2>2, RequestRange
    <3> QED
      BY <1>3, <2>1, <3>1 DEF PendingInv, FileOf
  <2> QED
    BY <2>2 DEF Requesting
<1> QED
  BY <1>1, <1>2, <1>4, <1>5

LEMMA HeaderShape ==
    ASSUME ShapeInv, NEW n \in Heights, NEW f \in Forks, HeaderFiled(n, f)
    PROVE  ShapeInv'
<1> USE DEF ShapeInv, HeaderFiled, clientVars
<1>1. LogsTypeOK'
  BY DEF LogsTypeOK, ChainTypeOK
<1>2. CanonIsLive' /\ HeadersSeen' /\ RangeInv'
  BY DEF CanonIsLive, HeadersSeen, RangeInv, Seen, LogsTypeOK
<1>3. FilesInv' /\ PendingInv'
  BY DEF FilesInv, PendingInv, FileOf, Seen, ChunkEnd, MinOf
<1> QED
  BY <1>1, <1>2, <1>3

LEMMA GetLogsShape ==
    ASSUME ShapeInv, NEW c \in Clients, NEW request \in Ranges, GetLogs(c, request)
    PROVE  ShapeInv'
<1> USE DEF ShapeInv, GetLogs
<1>1. /\ request.first \in Heights /\ request.last \in Heights
      /\ request.chunk \in Nat \ {0} /\ request.first \in Nat /\ request.last \in Nat
  BY RpcLogsAssumption, NodeChainAssumption
<1>2. LogsTypeOK'
  BY <1>1 DEF LogsTypeOK, ChainTypeOK
<1>3. CanonIsLive' /\ HeadersSeen' /\ FilesInv'
  BY DEF CanonIsLive, HeadersSeen, FilesInv, FileOf, Seen
<1>4. RangeInv' /\ PendingInv'
  BY <1>1 DEF RangeInv, PendingInv, FileOf, Seen, LogsTypeOK, Requesting, ChunkEnd, MinOf
<1> QED
  BY <1>2, <1>3, <1>4

LEMMA RaiseShape ==
    ASSUME ShapeInv, NEW c \in Clients, Raise(c)
    PROVE  ShapeInv'
<1> USE DEF ShapeInv, Raise
<1>1. LogsTypeOK'
  BY RpcLogsAssumption DEF LogsTypeOK, ChainTypeOK, Finished
<1>2. CanonIsLive' /\ HeadersSeen' /\ FilesInv'
  BY DEF CanonIsLive, HeadersSeen, FilesInv, FileOf, Seen
<1>3. RangeInv' /\ PendingInv'
  BY DEF RangeInv, PendingInv, FileOf, Seen, LogsTypeOK, Finished, ChunkEnd, MinOf
<1> QED
  BY <1>1, <1>2, <1>3

LEMMA RetryShape ==
    ASSUME ShapeInv, NEW c \in Clients, Retry(c)
    PROVE  ShapeInv'
<1> USE DEF ShapeInv, Retry
<1>1. LogsTypeOK'
  BY RpcLogsAssumption DEF LogsTypeOK, ChainTypeOK
<1>2. CanonIsLive' /\ HeadersSeen' /\ FilesInv'
  BY DEF CanonIsLive, HeadersSeen, FilesInv, FileOf, Seen
<1>3. RangeInv' /\ PendingInv'
  BY DEF RangeInv, PendingInv, FileOf, Seen, ChunkEnd, MinOf
<1> QED
  BY <1>1, <1>2, <1>3

LEMMA HalveShape ==
    ASSUME ShapeInv, NEW c \in Clients, HalveChunk(c)
    PROVE  ShapeInv'
<1> USE DEF ShapeInv, HalveChunk
<1>1. chunkSize[c] \div 2 \in Nat \ {0}
  BY DEF LogsTypeOK
<1>2. LogsTypeOK'
  BY <1>1, RpcLogsAssumption DEF LogsTypeOK, ChainTypeOK
<1>3. CanonIsLive' /\ HeadersSeen' /\ FilesInv'
  BY DEF CanonIsLive, HeadersSeen, FilesInv, FileOf, Seen
<1>4. RangeInv' /\ PendingInv'
  BY DEF RangeInv, PendingInv, FileOf, Seen, LogsTypeOK, Requesting, Finished, ChunkEnd, MinOf
<1> QED
  BY <1>2, <1>3, <1>4

\* Collecting a chunk, with the header and the file that go with it.
LEMMA CollectShape ==
    ASSUME ShapeInv, NEW c \in Clients, doing[c] \in Requesting,
           NEW r \in [start[c] .. ChunkEnd(c) -> Forks], Collect(c, r),
           UNCHANGED <<canon, abandoned, first, last, chunkSize>>,
           headers' \in [Heights -> Forks \cup {Absent}], HeadersSeen',
           files' \in [Heights -> [Heights -> Files \cup {Absent}]], FilesInv'
    PROVE  ShapeInv'
<1> USE DEF ShapeInv, Collect
<1>1. /\ start[c] \in Heights /\ ChunkEnd(c) \in Heights /\ ChunkEnd(c) \in Nat
      /\ start[c] <= ChunkEnd(c) /\ ChunkEnd(c) <= last[c] /\ start[c] \in Nat
  BY RequestRange
<1>2. [first |-> start[c], last |-> ChunkEnd(c), result |-> r] \in ChunkLogs
  BY <1>1, ResultType DEF ChunkLogs
<1>3. LogsTypeOK'
  BY <1>1, <1>2, RpcLogsAssumption DEF LogsTypeOK, ChainTypeOK
<1>4. CanonIsLive'
  BY DEF CanonIsLive
<1>5. last[c] \in Heights /\ (ChunkEnd(c) + 1 <= last[c] => ChunkEnd(c) + 1 \in Heights)
  <2>1. last[c] \in Heights
    BY DEF RangeInv, Requesting, Finished
  <2>2. last[c] \in Nat
    BY <2>1, NodeChainAssumption
  <2>3. ASSUME ChunkEnd(c) + 1 <= last[c]
        PROVE  ChunkEnd(c) + 1 \in ChunkEnd(c) .. last[c]
    BY <1>1, <2>2, <2>3
  <2> QED
    BY <1>1, <2>1, <2>3, NodeChainAssumption
<1>6. RangeInv'
  BY <1>5 DEF RangeInv, LogsTypeOK, Requesting, Finished
<1>7. PendingInv'
  BY DEF PendingInv, FileOf, Seen, LogsTypeOK, ChunkEnd, MinOf
<1> QED
  BY <1>3, <1>4, <1>6, <1>7

LEMMA ClientShape ==
    ASSUME ShapeInv, NEW c \in Clients, ClientStep(c)
    PROVE  ShapeInv'
<1>1. CASE RangeDone(c)
  <2> USE <1>1 DEF RangeDone, ShapeInv
  <2>1. LogsTypeOK'
    BY DEF LogsTypeOK, ChainTypeOK, Finished
  <2>2. CanonIsLive' /\ HeadersSeen' /\ FilesInv'
    BY DEF CanonIsLive, HeadersSeen, FilesInv, FileOf, Seen
  <2>3. RangeInv' /\ PendingInv'
    BY DEF RangeInv, PendingInv, FileOf, Seen, LogsTypeOK, Finished, ChunkEnd, MinOf
  <2> QED
    BY <2>1, <2>2, <2>3
<1>2. CASE PlanChunk(c)
  <2> USE <1>2 DEF PlanChunk, ShapeInv
  <2>1. start[c] \in Heights /\ ChunkEnd(c) \in Heights
    BY RequestRange
  <2> DEFINE file == files[start[c]][ChunkEnd(c)]
  <2>2. file \in Files \cup {Absent} /\ (file # Absent => FileOf(file, start[c], ChunkEnd(c)))
    BY <2>1 DEF LogsTypeOK, FilesInv
  <2>3. LogsTypeOK'
    BY <2>2 DEF LogsTypeOK, ChainTypeOK, Requesting
  <2>4. CanonIsLive' /\ HeadersSeen' /\ FilesInv'
    BY DEF CanonIsLive, HeadersSeen, FilesInv, FileOf, Seen
  <2>5. RangeInv'
    BY DEF RangeInv, LogsTypeOK, Requesting, Finished
  <2>6. PendingInv'
    BY <2>2 DEF PendingInv, FileOf, Seen, LogsTypeOK, ChunkEnd, MinOf
  <2> QED
    BY <2>3, <2>4, <2>5, <2>6
<1>3. CASE CheckFile(c)
  <2> USE <1>3 DEF CheckFile
  <2>1. ChunkEnd(c) \in Heights /\ doing[c] \in Requesting
    BY RequestRange DEF Requesting
  <2>2. headers' \in [Heights -> Forks \cup {Absent}] /\ HeadersSeen'
    BY <2>1 DEF ShapeInv, LogsTypeOK, ChainTypeOK, HeadersSeen, Seen
  <2>3. files' \in [Heights -> [Heights -> Files \cup {Absent}]] /\ FilesInv'
    BY DEF ShapeInv, LogsTypeOK, FilesInv, FileOf, Seen
  <2>4. CASE payload[c].toHash = canon[ChunkEnd(c)]
    <3>1. payload[c].result \in [start[c] .. ChunkEnd(c) -> Forks]
      BY DEF ShapeInv, PendingInv, FileOf
    <3>2. Collect(c, payload[c].result) /\ UNCHANGED <<canon, abandoned, first, last, chunkSize>>
      BY <2>4
    <3> QED
      BY <2>1, <2>2, <2>3, <3>1, <3>2, CollectShape
  <2>5. CASE payload[c].toHash # canon[ChunkEnd(c)]
    <3> USE <2>5 DEF ShapeInv
    <3>1. LogsTypeOK'
      <4>1. doing' = [doing EXCEPT ![c] = "fetch"] /\ tries' = [tries EXCEPT ![c] = 0]
        OBVIOUS
      <4>2. UNCHANGED <<canon, abandoned, files, first, last, start, chunkSize, payload, got, logs>>
        OBVIOUS
      <4> HIDE DEF CheckFile
      <4> QED
        BY <2>2, <4>1, <4>2, RpcLogsAssumption DEF LogsTypeOK, ChainTypeOK, Requesting
    <3>2. CanonIsLive' /\ RangeInv'
      BY DEF CanonIsLive, RangeInv, LogsTypeOK, Requesting, Finished
    <3>3. PendingInv'
      BY DEF PendingInv, FileOf, Seen, LogsTypeOK, ChunkEnd, MinOf
    <3> QED
      BY <2>2, <2>3, <3>1, <3>2, <3>3
  <2> QED
    BY <2>4, <2>5
<1>4. CASE FetchLogs(c)
  <2> USE <1>4 DEF FetchLogs, ShapeInv
  <2>1. start[c] \in Heights /\ ChunkEnd(c) \in Heights
    BY RequestRange DEF Requesting
  <2>2. CanonLogs(start[c], ChunkEnd(c)) \in [start[c] .. ChunkEnd(c) -> Forks]
    BY <2>1, CanonLogsType DEF LogsTypeOK
  <2>3. CanonLogs(start[c], ChunkEnd(c)) \in LogResults
    BY <2>1, <2>2, ResultType
  <2>4. LogsTypeOK'
    BY <2>3, RpcLogsAssumption DEF LogsTypeOK, ChainTypeOK, Requesting
  <2>5. CanonIsLive' /\ HeadersSeen' /\ FilesInv'
    BY DEF CanonIsLive, HeadersSeen, FilesInv, FileOf, Seen
  <2>6. RangeInv'
    BY DEF RangeInv, LogsTypeOK, Requesting, Finished
  <2>7. PendingInv'
    BY <2>2 DEF PendingInv, FileOf, Seen, LogsTypeOK, ChunkEnd, MinOf
  <2> QED
    BY <2>4, <2>5, <2>6, <2>7
<1>5. CASE SealFile(c)
  <2> DEFINE end == ChunkEnd(c)
             endHash == IF headers[end] # Absent THEN headers[end] ELSE canon[end]
             file == [result |-> got[c], toHash |-> endHash]
  <2> USE <1>5 DEF SealFile
  <2>1. start[c] \in Heights /\ end \in Heights /\ doing[c] \in Requesting
    BY RequestRange DEF Requesting
  <2>2. endHash \in Forks /\ endHash \in Seen(end)
    BY <2>1 DEF ShapeInv, LogsTypeOK, ChainTypeOK, HeadersSeen, Seen
  <2>3. got[c] \in [start[c] .. end -> Forks]
    BY DEF ShapeInv, PendingInv
  <2>4. file \in Files /\ FileOf(file, start[c], end)
    BY <2>1, <2>2, <2>3, ResultType DEF Files, FileOf
  <2>5. headers' = [headers EXCEPT ![end] = endHash]
        /\ files' = [files EXCEPT ![start[c]][end] = file]
        /\ Collect(c, got[c]) /\ UNCHANGED <<canon, abandoned, first, last, chunkSize>>
    OBVIOUS
  <2> HIDE DEF file, endHash
  <2>6. headers' \in [Heights -> Forks \cup {Absent}] /\ HeadersSeen'
    BY <2>1, <2>2, <2>5 DEF ShapeInv, LogsTypeOK, HeadersSeen, Seen
  <2>7. files' \in [Heights -> [Heights -> Files \cup {Absent}]]
    BY <2>1, <2>4, <2>5 DEF ShapeInv, LogsTypeOK
  <2>8. FilesInv'
    BY <2>1, <2>4, <2>5 DEF ShapeInv, LogsTypeOK, FilesInv, FileOf, Seen
  <2> QED
    BY <2>1, <2>3, <2>5, <2>6, <2>7, <2>8, CollectShape
<1>6. CASE TransportFails(c)
  BY <1>6, RaiseShape, RetryShape DEF TransportFails
<1>7. CASE RangeRefused(c)
  BY <1>7, RaiseShape, HalveShape DEF RangeRefused
<1>8. CASE LimitExceeded(c)
  BY <1>8, RaiseShape, RetryShape, HalveShape DEF LimitExceeded, RangeRefused
<1>9. CASE RequestFails(c)
  BY <1>9, RaiseShape DEF RequestFails
<1> QED
  BY <1>1, <1>2, <1>3, <1>4, <1>5, <1>6, <1>7, <1>8, <1>9 DEF ClientStep

LEMMA NextShape == ShapeInv /\ [LogsNext]_logsVars => ShapeInv'
<1> SUFFICES ASSUME ShapeInv, [LogsNext]_logsVars PROVE ShapeInv'
  OBVIOUS
<1>1. CASE UNCHANGED logsVars
  BY <1>1 DEF logsVars, clientVars, ShapeInv, LogsTypeOK, ChainTypeOK, CanonIsLive,
     HeadersSeen, RangeInv, FilesInv, PendingInv, FileOf, Seen, ChunkEnd, MinOf
<1> QED
  BY <1>1, ChainShape, HeaderShape, ClientShape, GetLogsShape DEF LogsNext

\* The shapes of get_logs's state and files: in particular a cache file always
\* holds exactly the chunk its name says.
THEOREM ShapeHolds == LogsSpec => []ShapeInv
<1>1. LogsInit => ShapeInv
  BY InitShape
<1>2. ShapeInv /\ [LogsNext]_logsVars => ShapeInv'
  BY NextShape
<1> QED
  BY <1>1, <1>2, PTL DEF LogsSpec
-----------------------------------------------------------------------------
(* Reuse of files                                                          *)

\* A reorganisation outside the window: where the chain changes the new hash
\* is one nobody has filed, so every trusted file there stops matching.
LEMMA ChainCurrent ==
    ASSUME WindowReorgs = FALSE, CurrentInv,
           NEW d \in Heights, NEW f \in Forks, ChainMoves(d, f)
    PROVE  ReusableFilesCurrent' /\ PendingCurrent'
<1> USE DEF CurrentInv, ChainMoves, Reorg, clientVars
<1>1. ASSUME NEW s \in Heights, NEW e \in Heights, NEW file, FileOf(file, s, e),
             Trusted(file, s, e)
      PROVE  Trusted(file, s, e)'
  <2> SUFFICES ASSUME file.toHash = canon'[e]
               PROVE  file.result = CanonLogs(s, e)'
    BY DEF Trusted
  <2>1. ~(e >= d)
    BY <1>1 DEF FileOf, Seen, ShapeInv, LogsTypeOK, ChainTypeOK
  <2>2. \A n \in s..e : n \in Heights /\ canon'[n] = canon[n]
    BY <2>1, NodeChainAssumption DEF ShapeInv, LogsTypeOK, ChainTypeOK
  <2>3. CanonLogs(s, e)' = CanonLogs(s, e)
    BY <2>2 DEF CanonLogs
  <2>4. file.toHash = canon[e]
    BY <2>1
  <2> QED
    BY <1>1, <2>3, <2>4 DEF Trusted
<1>2. ReusableFilesCurrent'
  <2> SUFFICES ASSUME NEW s \in Heights, NEW e \in Heights, files[s][e] # Absent
               PROVE  Trusted(files[s][e], s, e)'
    BY DEF ReusableFilesCurrent, Trusted
  <2>1. FileOf(files[s][e], s, e) /\ Trusted(files[s][e], s, e)
    BY DEF ShapeInv, FilesInv, ReusableFilesCurrent, Trusted
  <2> QED
    BY <1>1, <2>1
<1>3. PendingCurrent'
  <2> SUFFICES ASSUME NEW c \in Clients PROVE HeldCurrent(c)'
    BY DEF PendingCurrent
  <2>1. ChunkEnd(c)' = ChunkEnd(c)
    BY DEF ChunkEnd, MinOf
  <2>2. CASE doing[c] = "check"
    <3>1. start[c] \in Heights /\ ChunkEnd(c) \in Heights
      BY <2>2, RequestRange DEF Requesting
    <3>2. /\ FileOf(payload[c], start[c], ChunkEnd(c))
          /\ Trusted(payload[c], start[c], ChunkEnd(c))
      BY <2>2 DEF ShapeInv, PendingInv, PendingCurrent, HeldCurrent
    <3>3. PICK s, e, file : /\ s \in Heights /\ e \in Heights
                            /\ s = start[c] /\ e = ChunkEnd(c) /\ file = payload[c]
      BY <3>1
    <3>4. Trusted(file, s, e)'
      BY <1>1, <3>2, <3>3
    <3>5. doing' = doing /\ s = start'[c] /\ e = ChunkEnd(c)' /\ file = payload'[c]
      BY <2>1, <3>3
    <3> QED
      BY <2>2, <3>4, <3>5 DEF HeldCurrent
  <2>3. CASE doing[c] = "seal"
    <3>1. /\ d > ChunkEnd(c) /\ start[c] .. ChunkEnd(c) \subseteq Heights
          /\ ChunkEnd(c) \in Nat /\ start[c] \in Nat
      BY <2>3, RequestRange DEF Requesting
    <3>2. \A n \in start[c] .. ChunkEnd(c) : canon'[n] = canon[n]
      BY <3>1, NodeChainAssumption DEF ShapeInv, LogsTypeOK, ChainTypeOK
    <3> QED
      BY <2>1, <2>3, <3>2 DEF PendingCurrent, HeldCurrent, CanonLogs
  <2> QED
    BY <2>2, <2>3 DEF HeldCurrent
<1> QED
  BY <1>2, <1>3

\* What a client holds stays current while neither it nor the chain moves.
LEMMA OthersCurrent ==
    ASSUME PendingCurrent, NEW b \in Clients, UNCHANGED canon,
           UNCHANGED <<doing[b], start[b], chunkSize[b], last[b], payload[b], got[b]>>
    PROVE  HeldCurrent(b)'
BY DEF PendingCurrent, HeldCurrent, Trusted, CanonLogs, ChunkEnd, MinOf

\* Steps that file nothing: nobody comes to hold anything new.
LEMMA NothingFiled ==
    ASSUME CurrentInv, NEW c \in Clients, UNCHANGED <<canon, files>>,
           doing'[c] \notin {"check", "seal"},
           \A b \in Clients \ {c} : UNCHANGED <<doing[b], start[b], chunkSize[b], last[b],
                                               payload[b], got[b]>>
    PROVE  ReusableFilesCurrent' /\ PendingCurrent'
<1>1. ReusableFilesCurrent'
  BY DEF CurrentInv, ReusableFilesCurrent, CanonLogs
<1>2. PendingCurrent'
  BY DEF CurrentInv, PendingCurrent, HeldCurrent, Trusted, CanonLogs, ChunkEnd, MinOf
<1> QED
  BY <1>1, <1>2

LEMMA ClientCurrent ==
    ASSUME CurrentInv, NEW c \in Clients, ClientStep(c)
    PROVE  ReusableFilesCurrent' /\ PendingCurrent'
<1> USE DEF CurrentInv
<1>1. CASE RangeDone(c)
  BY <1>1, NothingFiled DEF RangeDone, ShapeInv, LogsTypeOK
<1>2. CASE PlanChunk(c)
  <2> USE <1>2 DEF PlanChunk
  <2>1. start[c] \in Heights /\ ChunkEnd(c) \in Heights
    BY RequestRange
  <2> DEFINE file == files[start[c]][ChunkEnd(c)]
  <2>2. file # Absent => Trusted(file, start[c], ChunkEnd(c))
    BY <2>1 DEF ReusableFilesCurrent, Trusted
  <2>3. ReusableFilesCurrent'
    BY DEF ReusableFilesCurrent, CanonLogs
  <2>4. HeldCurrent(c)'
    BY <2>2 DEF HeldCurrent, Trusted, CanonLogs, ShapeInv, LogsTypeOK, ChunkEnd, MinOf
  <2>5. \A b \in Clients \ {c} : HeldCurrent(b)'
    BY OthersCurrent DEF ShapeInv, LogsTypeOK
  <2> QED
    BY <2>3, <2>4, <2>5 DEF PendingCurrent
<1>3. CASE CheckFile(c)
  BY <1>3, NothingFiled DEF CheckFile, Collect, ShapeInv, LogsTypeOK
<1>4. CASE FetchLogs(c)
  <2> USE <1>4 DEF FetchLogs
  <2>1. ReusableFilesCurrent'
    BY DEF ReusableFilesCurrent, CanonLogs
  <2>2. \A b \in Clients \ {c} : HeldCurrent(b)'
    BY OthersCurrent DEF ShapeInv, LogsTypeOK
  <2>3. HeldCurrent(c)'
    BY DEF HeldCurrent, CanonLogs, ShapeInv, LogsTypeOK, ChunkEnd, MinOf
  <2> QED
    BY <2>1, <2>2, <2>3 DEF PendingCurrent
<1>5. CASE SealFile(c)
  <2> USE <1>5 DEF SealFile, Collect
  <2>1. start[c] \in Heights /\ ChunkEnd(c) \in Heights
    BY RequestRange DEF Requesting
  <2>2. got[c] = CanonLogs(start[c], ChunkEnd(c))
    BY DEF PendingCurrent, HeldCurrent
  <2>3. ReusableFilesCurrent'
    <3> DEFINE file == files'[start[c]][ChunkEnd(c)]
    <3>1. \A s, e \in Heights : s # start[c] \/ e # ChunkEnd(c) =>
              files'[s][e] = files[s][e]
      BY DEF ShapeInv, LogsTypeOK
    <3>2. file.result = CanonLogs(start[c], ChunkEnd(c))
      BY <2>1, <2>2 DEF ShapeInv, LogsTypeOK
    <3>3. \A s, e \in Heights : CanonLogs(s, e)' = CanonLogs(s, e)
      BY DEF CanonLogs
    <3> QED
      BY <3>1, <3>2, <3>3 DEF ReusableFilesCurrent
  <2>4. PendingCurrent'
    <3>1. doing'[c] = "plan"
      BY DEF ShapeInv, LogsTypeOK
    <3>2. \A b \in Clients \ {c} : HeldCurrent(b)'
      BY OthersCurrent DEF ShapeInv, LogsTypeOK
    <3> QED
      BY <3>1, <3>2 DEF PendingCurrent, HeldCurrent
  <2> QED
    BY <2>3, <2>4
<1>6. ASSUME Raise(c)
      PROVE  ReusableFilesCurrent' /\ PendingCurrent'
  BY <1>6, NothingFiled DEF Raise, ShapeInv, LogsTypeOK
<1>7. ASSUME HalveChunk(c)
      PROVE  ReusableFilesCurrent' /\ PendingCurrent'
  BY <1>7, NothingFiled DEF HalveChunk, ShapeInv, LogsTypeOK
<1>8. ASSUME Retry(c)
      PROVE  ReusableFilesCurrent' /\ PendingCurrent'
  BY <1>8 DEF Retry, ReusableFilesCurrent, PendingCurrent, HeldCurrent, Trusted, CanonLogs,
     ChunkEnd, MinOf
<1>9. CASE TransportFails(c) \/ RangeRefused(c) \/ LimitExceeded(c) \/ RequestFails(c)
  BY <1>6, <1>7, <1>8, <1>9 DEF TransportFails, RangeRefused, LimitExceeded, RequestFails
<1> QED
  BY <1>1, <1>2, <1>3, <1>4, <1>5, <1>9 DEF ClientStep

LEMMA NextCurrent ==
    ASSUME WindowReorgs = FALSE
    PROVE  CurrentInv /\ [LogsNext]_logsVars => CurrentInv'
<1> SUFFICES ASSUME CurrentInv, [LogsNext]_logsVars PROVE CurrentInv'
  OBVIOUS
<1>1. ShapeInv'
  BY NextShape DEF CurrentInv
<1>2. ReusableFilesCurrent' /\ PendingCurrent'
  <2> USE DEF CurrentInv
  <2>1. ASSUME NEW n \in Heights, NEW f \in Forks, HeaderFiled(n, f)
        PROVE  ReusableFilesCurrent' /\ PendingCurrent'
    BY <2>1 DEF HeaderFiled, clientVars, ReusableFilesCurrent, PendingCurrent,
       HeldCurrent, Trusted, CanonLogs, ChunkEnd, MinOf
  <2>2. ASSUME NEW c \in Clients, NEW request \in Ranges, GetLogs(c, request)
        PROVE  ReusableFilesCurrent' /\ PendingCurrent'
    BY <2>2, NothingFiled DEF GetLogs, ShapeInv, LogsTypeOK
  <2>3. CASE UNCHANGED logsVars
    BY <2>3 DEF logsVars, clientVars, ReusableFilesCurrent, PendingCurrent, HeldCurrent, Trusted,
       CanonLogs, ChunkEnd, MinOf
  <2> QED
    BY <2>1, <2>2, <2>3, ChainCurrent, ClientCurrent DEF LogsNext
<1> QED
  BY <1>1, <1>2 DEF CurrentInv

LEMMA CurrentHolds ==
    ASSUME WindowReorgs = FALSE
    PROVE  LogsSpec => []CurrentInv
<1>1. LogsInit => CurrentInv
  <2>1. LogsInit => ReusableFilesCurrent /\ PendingCurrent
    BY DEF LogsInit, ReusableFilesCurrent, PendingCurrent, HeldCurrent
  <2> QED
    BY <2>1, InitShape DEF CurrentInv
<1>2. CurrentInv /\ [LogsNext]_logsVars => CurrentInv'
  BY NextCurrent
<1> QED
  BY <1>1, <1>2, PTL DEF LogsSpec

\* A cache file whose stored hash is the canonical one holds the canonical
\* logs, provided no reorganisation falls between an eth_getLogs and the
\* header filed with its answer.
THEOREM ReuseIsSound ==
    ASSUME WindowReorgs = FALSE
    PROVE  LogsSpec => []ReusableFilesCurrent
<1>1. CurrentInv => ReusableFilesCurrent
  BY DEF CurrentInv
<1> QED
  BY <1>1, CurrentHolds, PTL

\* What a client takes from a file is canonical when it takes it, whatever has
\* been filed since it read the file.
THEOREM ReusedChunksAreCanonical ==
    ASSUME WindowReorgs = FALSE
    PROVE  LogsSpec => ReuseReturnsCanonical
<1>1. ASSUME CurrentInv, [LogsNext]_logsVars, NEW c \in Clients,
             doing[c] = "check", logs'[c] # logs[c]
      PROVE  payload[c].result = CanonLogs(start[c], ChunkEnd(c))
  <2>1. \A b \in Clients, request \in Ranges : ~GetLogs(b, request) \/ b # c
    BY <1>1 DEF GetLogs, Finished
  <2>2. PICK b \in Clients :
            ClientStep(b) \/ \E request \in Ranges : GetLogs(b, request)
    BY <1>1 DEF LogsNext, logsVars, clientVars, ChainMoves, HeaderFiled
  <2>3. b = c
    BY <1>1, <2>2 DEF ClientStep, GetLogs, RangeDone, PlanChunk, CheckFile, Collect,
       FetchLogs, SealFile, TransportFails, RangeRefused, LimitExceeded,
       RequestFails, Raise, Retry, HalveChunk, CurrentInv, ShapeInv, LogsTypeOK
  <2>4. CheckFile(c)
    BY <1>1, <2>1, <2>2, <2>3 DEF ClientStep, RangeDone, PlanChunk, FetchLogs,
       SealFile, TransportFails, RangeRefused, LimitExceeded, RequestFails, Raise,
       Retry, HalveChunk
  <2>5. payload[c].toHash = canon[ChunkEnd(c)]
    BY <1>1, <2>4 DEF CheckFile
  <2> QED
    BY <1>1, <2>5 DEF CurrentInv, PendingCurrent, HeldCurrent, Trusted
<1>2. CurrentInv /\ [LogsNext]_logsVars =>
        [\A c \in Clients :
           doing[c] = "check" /\ logs'[c] # logs[c] =>
               payload[c].result = CanonLogs(start[c], ChunkEnd(c))]_logsVars
  BY <1>1
<1> QED
  BY <1>2, CurrentHolds, PTL DEF LogsSpec, ReuseReturnsCanonical
-----------------------------------------------------------------------------
(* The collected chunks                                                    *)

Contiguous(c) ==
    /\ \A i \in 1 .. Len(logs[c]) :
          /\ logs[c][i].first <= logs[c][i].last
          /\ DOMAIN logs[c][i].result = logs[c][i].first .. logs[c][i].last
          /\ i > 1 => logs[c][i].first = logs[c][i - 1].last + 1
          /\ i = 1 => logs[c][i].first = first[c]
    /\ start[c] = IF logs[c] = <<>> THEN first[c] ELSE logs[c][Len(logs[c])].last + 1
    /\ doing[c] = "done" => start[c] > last[c]

\* One more chunk, from the block the loop stands at.
LEMMA CollectContiguous ==
    ASSUME ShapeInv, NEW c \in Clients, Contiguous(c), doing[c] \in Requesting,
           NEW r \in [start[c] .. ChunkEnd(c) -> Forks], Collect(c, r),
           UNCHANGED <<first, last>>
    PROVE  Contiguous(c)'
<1> DEFINE chunk == [first |-> start[c], last |-> ChunkEnd(c), result |-> r]
<1>1. /\ start[c] \in Nat /\ ChunkEnd(c) \in Nat /\ start[c] <= ChunkEnd(c)
      /\ start[c] \in Heights /\ ChunkEnd(c) \in Heights
  BY RequestRange
<1>2. chunk \in ChunkLogs
  BY <1>1, ResultType DEF ChunkLogs
<1>3. logs[c] \in Seq(ChunkLogs)
  BY DEF ShapeInv, LogsTypeOK
<1>4. /\ logs'[c] = Append(logs[c], chunk) /\ start'[c] = ChunkEnd(c) + 1
      /\ doing'[c] = "plan"
  BY DEF Collect, ShapeInv, LogsTypeOK
<1>5. /\ chunk.first = start[c] /\ chunk.last = ChunkEnd(c)
      /\ DOMAIN chunk.result = chunk.first .. chunk.last
  OBVIOUS
<1> HIDE DEF chunk
<1>6. /\ Len(logs'[c]) = Len(logs[c]) + 1 /\ logs'[c] # <<>>
      /\ logs'[c][Len(logs[c]) + 1] = chunk
      /\ \A i \in 1 .. Len(logs[c]) : logs'[c][i] = logs[c][i]
      /\ Len(logs[c]) \in Nat /\ (Len(logs[c]) = 0 <=> logs[c] = <<>>)
  BY <1>2, <1>3, <1>4
<1>7. ASSUME NEW i \in 1 .. Len(logs'[c])
      PROVE  /\ logs'[c][i].first <= logs'[c][i].last
             /\ DOMAIN logs'[c][i].result = logs'[c][i].first .. logs'[c][i].last
             /\ i > 1 => logs'[c][i].first = logs'[c][i - 1].last + 1
             /\ i = 1 => logs'[c][i].first = first'[c]
  <2>1. CASE i \in 1 .. Len(logs[c])
    <3>1. logs'[c][i] = logs[c][i] /\ first'[c] = first[c]
      BY <1>6, <2>1
    <3>2. i > 1 => logs'[c][i - 1] = logs[c][i - 1]
      BY <1>6, <2>1
    <3> QED
      BY <2>1, <3>1, <3>2 DEF Contiguous
  <2>2. CASE i = Len(logs[c]) + 1
    <3>1. logs'[c][i] = chunk /\ first'[c] = first[c]
      BY <1>6, <2>2
    <3>2. i > 1 => logs'[c][i - 1] = logs[c][Len(logs[c])] /\ logs[c] # <<>>
      BY <1>6, <2>2
    <3>3. i = 1 => logs[c] = <<>>
      BY <1>6, <2>2
    <3> QED
      BY <1>1, <1>5, <3>1, <3>2, <3>3 DEF Contiguous
  <2> QED
    BY <1>6, <2>1, <2>2
<1>8. /\ start'[c] = logs'[c][Len(logs'[c])].last + 1
      /\ doing'[c] # "done"
  BY <1>4, <1>5, <1>6
<1> QED
  BY <1>6, <1>7, <1>8 DEF Contiguous

LEMMA SameContiguous ==
    ASSUME NEW c \in Clients, Contiguous(c),
           UNCHANGED <<first[c], last[c], start[c], logs[c]>>,
           doing'[c] = "done" => start[c] > last[c]
    PROVE  Contiguous(c)'
BY DEF Contiguous

LEMMA NextContiguous ==
    ASSUME ShapeInv, [LogsNext]_logsVars, NEW c \in Clients, Contiguous(c)
    PROVE  Contiguous(c)'
<1> USE DEF ShapeInv, LogsTypeOK
<1>1. CASE UNCHANGED clientVars
  BY <1>1, SameContiguous DEF clientVars, Contiguous
<1>2. ASSUME NEW b \in Clients, b # c,
             ClientStep(b) \/ \E request \in Ranges : GetLogs(b, request)
      PROVE  Contiguous(c)'
  <2>1. UNCHANGED <<first[c], last[c], start[c], logs[c], doing[c]>>
    BY <1>2 DEF ClientStep, GetLogs, RangeDone, PlanChunk, CheckFile, Collect,
       FetchLogs, SealFile, TransportFails, RangeRefused, LimitExceeded,
       RequestFails, Raise, Retry, HalveChunk
  <2> QED
    BY <2>1, SameContiguous DEF Contiguous
<1>3. ASSUME NEW request \in Ranges, GetLogs(c, request)
      PROVE  Contiguous(c)'
  <2>1. logs'[c] = <<>> /\ start'[c] = request.first /\ first'[c] = request.first
        /\ doing'[c] = "plan"
    BY <1>3 DEF GetLogs
  <2> QED
    BY <2>1 DEF Contiguous
<1>4. CASE ClientStep(c)
  <2>1. CASE CheckFile(c)
    <3>1. doing[c] \in Requesting /\ UNCHANGED <<first, last>>
      BY <2>1 DEF CheckFile, Requesting
    <3>2. CASE payload[c].toHash = canon[ChunkEnd(c)]
      <4>1. payload[c].result \in [start[c] .. ChunkEnd(c) -> Forks]
        BY <2>1 DEF CheckFile, PendingInv, FileOf
      <4>2. Collect(c, payload[c].result)
        BY <2>1, <3>2 DEF CheckFile
      <4> QED
        BY <3>1, <4>1, <4>2, CollectContiguous
    <3>3. CASE payload[c].toHash # canon[ChunkEnd(c)]
      <4>1. UNCHANGED <<first[c], last[c], start[c], logs[c]>> /\ doing'[c] = "fetch"
        BY <2>1, <3>3 DEF CheckFile
      <4> QED
        BY <4>1, SameContiguous
    <3> QED
      BY <3>2, <3>3
  <2>2. CASE SealFile(c)
    <3>1. doing[c] \in Requesting /\ UNCHANGED <<first, last>> /\ Collect(c, got[c])
      BY <2>2 DEF SealFile, Requesting
    <3>2. got[c] \in [start[c] .. ChunkEnd(c) -> Forks]
      BY <2>2 DEF SealFile, PendingInv
    <3> QED
      BY <3>1, <3>2, CollectContiguous
  <2>3. CASE ~CheckFile(c) /\ ~SealFile(c)
    <3>1. UNCHANGED <<first[c], last[c], start[c], logs[c]>>
      BY <1>4, <2>3 DEF ClientStep, RangeDone, PlanChunk, FetchLogs, TransportFails,
         RangeRefused, LimitExceeded, RequestFails, Raise, Retry, HalveChunk
    <3>2. doing'[c] = "done" => start[c] > last[c]
      BY <1>4, <2>3 DEF ClientStep, RangeDone, PlanChunk, FetchLogs, TransportFails,
         RangeRefused, LimitExceeded, RequestFails, Raise, Retry, HalveChunk,
         Contiguous, Requesting, Finished, OnNetwork
    <3> QED
      BY <3>1, <3>2, SameContiguous
  <2> QED
    BY <2>1, <2>2, <2>3
<1> QED
  BY <1>1, <1>2, <1>3, <1>4 DEF LogsNext, logsVars, ChainMoves, HeaderFiled

\* get_logs collects the range block by block, without gap or overlap, however
\* chunks are halved, reused or refetched, and returns only at its end.
THEOREM ChunksAreContiguous == LogsSpec => []ChunksContiguous
<1> DEFINE Inv == \A c \in Clients : Contiguous(c)
<1>1. LogsInit => Inv
  BY DEF LogsInit, Contiguous
<1>2. ShapeInv /\ Inv /\ [LogsNext]_logsVars => Inv'
  BY NextContiguous
<1>3. Inv => ChunksContiguous
  BY DEF Contiguous, ChunksContiguous
<1> HIDE DEF Inv
<1> QED
  BY <1>1, <1>2, <1>3, ShapeHolds, PTL DEF LogsSpec

\* The state of get_logs and its files keep their types.
THEOREM LogsTypeCorrect == LogsSpec => []LogsTypeOK
<1>1. ShapeInv => LogsTypeOK
  BY DEF ShapeInv
<1> QED
  BY <1>1, ShapeHolds, PTL
=============================================================================
