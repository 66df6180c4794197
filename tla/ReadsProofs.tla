----------------------------- MODULE ReadsProofs -----------------------------
(***************************************************************************)
(* Reading a block.  A process that has the directory of the block to      *)
(* itself gets from acquire all reads of every pool it is not told of, all *)
(* of them stored, and no crash takes a published call away (with two      *)
(* processes neither holds).  A batched call returns what direct calls     *)
(* would have returned, however often batches fail.                        *)
(***************************************************************************)
EXTENDS MCReads, WellFoundedInduction, FiniteSetTheorems, TLAPS

\* One process has the directory to itself.
Alone(p) == Processes = {p}

\* An extension is under way exactly while acquire waits for it, ...
Waiting(p) == pc[p] = "extending" <=> extend[p].at # "idle"

\* ... and has a temporary open only between opening and renaming it.
Writing == {"write", "rename"}
HoldsFile(p) ==
    /\ extend[p].file # None <=> extend[p].at \in Writing
    /\ extend[p].at \in Writing => tmp = extend[p].file
    /\ extend[p].at = "rename" => content[tmp] = [rows |-> extend[p].rows, complete |-> TRUE]

\* The published file is complete, not the temporary, and has its header.
PublishedWhole ==
    calls # None => header /\ calls # tmp /\ content[calls].complete

\* What an extension has in hand holds what is published, and what it was asked for once it
\* has read that; what it returns is what is published.
Gathered(p) ==
    /\ extend[p].at \in {"idle", "load"} => extend[p].rows = {}
    /\ extend[p].at \in {"read", "header", "open", "write", "rename"} =>
          Published \subseteq extend[p].rows
    /\ extend[p].at \in {"header", "open", "write", "rename", "returned"} =>
          extend[p].wanted \subseteq extend[p].rows
    /\ extend[p].at \in {"open", "write", "rename"} => header
    /\ extend[p].at = "returned" => extend[p].rows = Published

StoreInv(p) == Waiting(p) /\ HoldsFile(p) /\ PublishedWhole /\ Gathered(p)

\* The snapshot in hand is published, and each pool that is not reported has its first
\* waves in it: as many as there were phases, and while one is under way the next is asked for.
Underway == {"extending", "planning"}
Planned(p) ==
    /\ pc[p] = "planning" => phases[p] >= 1
    /\ pc[p] = "extending" => phases[p] < MaxPhases
    /\ pc[p] \in Underway => records[p] \cap Inactive \subseteq failures[p]
    /\ snapshot[p] \subseteq Published

WavesLanded(p) ==
    \A r \in records[p] \ failures[p] : \A k \in DOMAIN Wave[r] :
        /\ pc[p] = "planning" /\ k <= phases[p] => Wave[r][k] \subseteq snapshot[p]
        /\ pc[p] = "extending" /\ k <= phases[p] + 1 =>
              Wave[r][k] \subseteq snapshot[p] \cup extend[p].wanted
        /\ pc[p] = "acquired" => Wave[r][k] \subseteq snapshot[p]

AcquireInv(p) == TypeOK /\ StoreInv(p) /\ Planned(p) /\ WavesLanded(p)

\* A batched call.
\* The batch at hand is a part of what is missing, and its results are dropped when it is
\* done or fails.
BatchWithin ==
    /\ at \in {"aggregate", "subcalls", "single"} => size >= 1 /\ offset + size <= Len(missing)
    /\ at # "subcalls" => chunk = <<>>

\* A result is what the direct call gives; a failure is the direct call's own.
Right(result) == result.success = (result.spec \notin Reverting)

CacheRight ==
    \A s \in Subcalls :
        cache[s] # None => /\ Right(cache[s]) /\ cache[s].spec = s
                           /\ ~cache[s].success => cache[s].via = "eth_call"
ResultsRight ==
    \A i \in Batches!Places :
        /\ results[i] # None => /\ Right(results[i]) /\ results[i].spec = request[i]
                                /\ ~results[i].success => results[i].via # "multicall3"
        /\ at = "returned" => results[i] # None
ChunkRight ==
    \A k \in 1 .. Len(chunk) :
        /\ Right(chunk[k]) /\ chunk[k].spec = Batches!Selected(k)
        /\ ~chunk[k].success => chunk[k].via # "multicall3"

\* Where no request repeats a spec, a place without a result is still ahead.
Distinct ==
    \A specs \in Requests : \A i, j \in 1 .. Len(specs) : specs[i] = specs[j] => i = j

PlacesAhead ==
    \A i \in Batches!Places :
        results[i] = None => \E k \in 1 .. Len(missing) : k > offset /\ missing[k] = i

BatchInv ==
    /\ Batches!TypeOK /\ BatchWithin /\ CacheRight /\ ResultsRight /\ ChunkRight
    /\ Distinct => PlacesAhead
    /\ Distinct => EveryPlaceFilled
-----------------------------------------------------------------------------
(* One extension.                                                          *)
Ats == {"idle", "load", "read", "header", "open", "write", "rename", "returned", "raised"}

\* What a step makes of the extension of one process.
LEMMA Extension ==
    ASSUME StoreTypeOK, NEW p \in Processes, NEW e \in Extends,
           extend' = [extend EXCEPT ![p] = e]
    PROVE  extend' \in [Processes -> Extends] /\ extend'[p] = e
  BY DEF StoreTypeOK

\* A process that is alone shares no file.
LEMMA AloneShares == ASSUME NEW p, Alone(p) PROVE p \in Processes /\ ~Shared(p)
  BY DEF Alone, Shared

\* extend loads what is published, or begins with nothing where nothing is.
LEMMA LoadKeeps ==
    ASSUME NEW p \in Processes, StoreTypeOK, StoreInv(p), Load(p)
    PROVE  /\ StoreTypeOK' /\ HoldsFile(p)' /\ PublishedWhole' /\ Gathered(p)'
           /\ Published' = Published
           /\ extend'[p].at # "idle" /\ extend'[p].wanted = extend[p].wanted
<1>1. PICK e \in Extends : e = extend[p]
  BY DEF StoreTypeOK
<1>2. /\ UNCHANGED <<header, calls, tmp, content>> /\ e.at = "load"
      /\ Published' = Published
  BY <1>1 DEF Load, Published, Stored
<1>3. e.rows = {} /\ e.file = None
  BY <1>1, <1>2 DEF StoreInv, HoldsFile, Gathered, Writing
<1>4. Published \in SUBSET Specs
  BY DEF StoreTypeOK, Published, Stored
<1>5. PICK c \in Extends :
         /\ extend' = [extend EXCEPT ![p] = c]
         /\ c.wanted = e.wanted /\ c.file = None
         /\ \/ c.at = "read" /\ c.rows = Published
            \/ c.at = "returned" /\ c.rows = Published
            \/ c.at = "raised"
  <2>1. CASE ~Stored /\ Advance(p, "read")
    <3> DEFINE c == [e EXCEPT !.at = "read"]
    <3>1. c \in Extends /\ c.at = "read" /\ c.rows = {} /\ c.wanted = e.wanted /\ c.file = None
      BY <1>3 DEF Extends
    <3>2. extend' = [extend EXCEPT ![p] = c] /\ Published = {}
      BY <1>1, <2>1 DEF Advance, Published
    <3> QED
      BY <3>1, <3>2
  <2>2. CASE Advance(p, "raised")
    <3> DEFINE c == [e EXCEPT !.at = "raised"]
    <3>1. c \in Extends /\ c.at = "raised" /\ c.wanted = e.wanted /\ c.file = None
      BY <1>3 DEF Extends
    <3>2. extend' = [extend EXCEPT ![p] = c]
      BY <1>1, <2>2 DEF Advance
    <3> QED
      BY <3>1, <3>2
  <2>3. CASE /\ Stored /\ content[calls].complete
             /\ extend' = [extend EXCEPT ![p].rows = content[calls].rows,
                                         ![p].at = IF extend[p].wanted \subseteq content[calls].rows
                                                     THEN "returned" ELSE "read"]
    <3>1. Published = content[calls].rows
      BY <2>3 DEF Published
    <3>2. PICK next \in {"returned", "read"} :
              extend' = [extend EXCEPT ![p].rows = Published, ![p].at = next]
      BY <2>3, <3>1
    <3> DEFINE c == [e EXCEPT !.rows = Published, !.at = next]
    <3>3. c \in Extends /\ c.at = next /\ c.rows = Published /\ c.wanted = e.wanted
          /\ c.file = None
      BY <1>3, <1>4 DEF Extends
    <3>4. extend' = [extend EXCEPT ![p] = c]
      BY <1>1, <3>2
    <3> QED
      BY <3>2, <3>3, <3>4
  <2> QED
    BY <2>1, <2>2, <2>3 DEF Load
<1>6. extend' \in [Processes -> Extends] /\ extend'[p] = c
  BY <1>5, Extension
<1>7. StoreTypeOK' /\ PublishedWhole'
  BY <1>2, <1>6 DEF StoreTypeOK, StoreInv, PublishedWhole
<1>8. extend'[p].at = "returned" => extend'[p].wanted \subseteq extend'[p].rows
  BY <1>1, <1>2, <1>5, <1>6 DEF Load, Advance, StoreTypeOK, Extends
<1>9. HoldsFile(p)'
  BY <1>5, <1>6 DEF HoldsFile, Writing
<1>10. Gathered(p)'
  BY <1>2, <1>5, <1>6, <1>8 DEF Gathered
<1> QED
  BY <1>1, <1>2, <1>5, <1>6, <1>7, <1>9, <1>10

\* Reading adds what was asked for; the header comes before the calls.
LEMMA ReadKeeps ==
    ASSUME NEW p \in Processes, Alone(p), StoreTypeOK, StoreInv(p), Read(p) \/ PublishHeader(p)
    PROVE  /\ StoreTypeOK' /\ HoldsFile(p)' /\ PublishedWhole' /\ Gathered(p)'
           /\ Published' = Published
           /\ extend'[p].at # "idle" /\ extend'[p].wanted = extend[p].wanted
<1>1. PICK e \in Extends : e = extend[p]
  BY DEF StoreTypeOK
<1>2. /\ e.at \in {"read", "header"} /\ e.file = None /\ Published \subseteq e.rows
      /\ e.at = "header" => e.wanted \subseteq e.rows
  BY <1>1 DEF Read, PublishHeader, StoreInv, HoldsFile, Gathered, Writing
<1>3. /\ UNCHANGED <<calls, tmp, content>>
      /\ header' = header \/ header' = TRUE
      /\ e.at = "header" => header' = TRUE
  BY <1>1 DEF Read, PublishHeader
<1>4. Published' = Published
  BY <1>3 DEF Published, Stored, StoreInv, PublishedWhole
<1>5. PICK c \in Extends :
         /\ extend' = [extend EXCEPT ![p] = c]
         /\ c.wanted = e.wanted /\ c.file = None
         /\ \/ /\ c.at \in {"header", "open"}
               /\ e.rows \subseteq c.rows /\ e.wanted \subseteq c.rows
               /\ c.at = "open" => e.at = "header"
            \/ c.at = "raised"
  <2>1. CASE Advance(p, "raised")
    <3> DEFINE c == [e EXCEPT !.at = "raised"]
    <3>1. c \in Extends /\ c.at = "raised" /\ c.wanted = e.wanted /\ c.file = None
      BY <1>2 DEF Extends
    <3>2. extend' = [extend EXCEPT ![p] = c]
      BY <1>1, <2>1 DEF Advance
    <3> QED
      BY <3>1, <3>2
  <2>2. CASE extend' = [extend EXCEPT ![p].rows = @ \cup extend[p].wanted, ![p].at = "header"]
    <3> DEFINE c == [e EXCEPT !.rows = e.rows \cup e.wanted, !.at = "header"]
    <3>1. c \in Extends /\ c.at = "header" /\ c.wanted = e.wanted /\ c.file = None
          /\ c.rows = e.rows \cup e.wanted
      BY <1>2 DEF Extends
    <3>2. extend' = [extend EXCEPT ![p] = c]
      BY <1>1, <2>2
    <3> QED
      BY <3>1, <3>2
  <2>3. CASE Advance(p, "open") /\ e.at = "header"
    <3> DEFINE c == [e EXCEPT !.at = "open"]
    <3>1. c \in Extends /\ c.at = "open" /\ c.wanted = e.wanted /\ c.file = None
          /\ c.rows = e.rows
      BY <1>2 DEF Extends
    <3>2. extend' = [extend EXCEPT ![p] = c]
      BY <1>1, <2>3 DEF Advance
    <3> QED
      BY <1>2, <2>3, <3>1, <3>2
  <2> QED
    BY <1>1, <2>1, <2>2, <2>3 DEF Read, PublishHeader
<1>6. extend' \in [Processes -> Extends] /\ extend'[p] = c
  BY <1>5, Extension
<1>7. StoreTypeOK' /\ PublishedWhole'
  <2>1. header' \in BOOLEAN /\ (header => header')
    <3>1. CASE header' = header
      BY <3>1 DEF StoreTypeOK
    <3>2. CASE header' = TRUE
      BY <3>2
    <3> QED
      BY <1>3, <3>1, <3>2
  <2>2. StoreTypeOK'
    BY <1>3, <1>6, <2>1 DEF StoreTypeOK
  <2> QED
    BY <1>3, <2>1, <2>2 DEF StoreInv, PublishedWhole
<1>8. HoldsFile(p)'
  BY <1>5, <1>6 DEF HoldsFile, Writing
<1>9. Gathered(p)'
  BY <1>2, <1>3, <1>4, <1>5, <1>6 DEF Gathered
<1> QED
  BY <1>1, <1>4, <1>5, <1>6, <1>7, <1>8, <1>9

\* The temporary is opened and written while the published file stays as it is.
LEMMA WriteKeeps ==
    ASSUME NEW p \in Processes, Alone(p), StoreTypeOK, StoreInv(p),
           OpenTemporary(p) \/ WriteRows(p)
    PROVE  /\ StoreTypeOK' /\ HoldsFile(p)' /\ PublishedWhole' /\ Gathered(p)'
           /\ Published' = Published
           /\ extend'[p].at # "idle" /\ extend'[p].wanted = extend[p].wanted
<1>1. PICK e \in Extends : e = extend[p]
  BY DEF StoreTypeOK
<1>2. /\ header' = header /\ calls' = calls /\ header
      /\ Published \subseteq e.rows /\ e.wanted \subseteq e.rows
      /\ content \in [Inodes -> [rows : SUBSET Specs, complete : BOOLEAN]]
      /\ calls \in Inodes \cup {None} /\ tmp \in Inodes \cup {None} /\ None \notin Inodes
  BY <1>1, SnapshotStoreAssumption
     DEF OpenTemporary, WriteRows, StoreInv, Gathered, StoreTypeOK
<1>3. PICK i \in Inodes, row \in [rows : SUBSET Specs, complete : BOOLEAN],
           c \in Extends :
         /\ i # calls /\ tmp' = i
         /\ content' = [content EXCEPT ![i] = row]
         /\ extend' = [extend EXCEPT ![p] = c]
         /\ c.wanted = e.wanted /\ c.rows = e.rows /\ c.file = i
         /\ c.at \in Writing
         /\ c.at = "rename" => row = [rows |-> e.rows, complete |-> TRUE]
  <2>1. CASE OpenTemporary(p)
    <3>1. PICK i \in Inodes : OpenFile(p, i) /\ tmp' = i /\ i # calls
      BY <1>2, <2>1 DEF OpenTemporary, Unused, StoreInv, PublishedWhole
    <3> DEFINE c == [e EXCEPT !.file = i, !.at = "write"]
    <3>2. c \in Extends /\ c.at = "write" /\ c.file = i /\ c.wanted = e.wanted
          /\ c.rows = e.rows
      BY DEF Extends
    <3>3. extend' = [extend EXCEPT ![p] = c] /\ content' = [content EXCEPT ![i] = Torn]
      BY <1>1, <3>1 DEF OpenFile
    <3>4. Torn \in [rows : SUBSET Specs, complete : BOOLEAN]
      BY DEF Torn
    <3> QED
      BY <3>1, <3>2, <3>3, <3>4 DEF Writing
  <2>2. CASE WriteRows(p)
    <3>1. /\ e.at = "write" /\ e.file = tmp /\ e.file \in Inodes /\ tmp' = tmp
      BY <1>1, <1>2, <2>2 DEF WriteRows, StoreInv, HoldsFile, Writing, Extends
    <3>2. e.file # calls
      BY <1>2, <3>1 DEF StoreInv, PublishedWhole
    <3> DEFINE c == [e EXCEPT !.at = "rename"]
               row == [rows |-> e.rows, complete |-> TRUE]
    <3>3. c \in Extends /\ c.at = "rename" /\ c.file = e.file /\ c.wanted = e.wanted
          /\ c.rows = e.rows
      BY DEF Extends
    <3>4. extend' = [extend EXCEPT ![p] = c] /\ content' = [content EXCEPT ![e.file] = row]
      BY <1>1, <2>2, AloneShares DEF WriteRows, Advance
    <3>5. row \in [rows : SUBSET Specs, complete : BOOLEAN]
      BY DEF Extends
    <3> QED
      BY <3>1, <3>2, <3>3, <3>4, <3>5 DEF Writing
  <2> QED
    BY <2>1, <2>2
<1>4. extend' \in [Processes -> Extends] /\ extend'[p] = c
  BY <1>3, Extension
<1>5. content' \in [Inodes -> [rows : SUBSET Specs, complete : BOOLEAN]]
      /\ content'[i] = row
  BY <1>2, <1>3
<1>6. calls # None => content'[calls] = content[calls]
  BY <1>2, <1>3
<1>7. Published' = Published
  BY <1>2, <1>6 DEF Published, Stored
<1>8. StoreTypeOK' /\ PublishedWhole'
  BY <1>2, <1>3, <1>4, <1>5, <1>6 DEF StoreTypeOK, StoreInv, PublishedWhole
<1>9. HoldsFile(p)'
  BY <1>2, <1>3, <1>4, <1>5 DEF HoldsFile, Writing
<1>10. Gathered(p)'
  BY <1>2, <1>3, <1>4, <1>7 DEF Gathered, Writing
<1> QED
  BY <1>1, <1>3, <1>4, <1>7, <1>8, <1>9, <1>10 DEF Writing

\* The rename publishes all that was published, and what was asked for.
LEMMA RenameKeeps ==
    ASSUME NEW p \in Processes, StoreTypeOK, StoreInv(p), Rename(p)
    PROVE  /\ StoreTypeOK' /\ HoldsFile(p)' /\ PublishedWhole' /\ Gathered(p)'
           /\ Published \subseteq Published'
           /\ extend'[p].at # "idle" /\ extend'[p].wanted = extend[p].wanted
<1>1. PICK e \in Extends : e = extend[p]
  BY DEF StoreTypeOK
<1>2. /\ header' = header /\ content' = content /\ header
      /\ e.at = "rename" /\ e.file = tmp /\ tmp # None
      /\ Published \subseteq e.rows /\ e.wanted \subseteq e.rows
      /\ content[tmp] = [rows |-> e.rows, complete |-> TRUE]
  BY <1>1 DEF Rename, StoreInv, HoldsFile, Gathered, Writing
<1>3. /\ calls' = tmp /\ tmp' = None
      /\ extend' = [extend EXCEPT ![p].at = "returned", ![p].file = None]
  BY <1>2 DEF Rename
<1> DEFINE c == [e EXCEPT !.at = "returned", !.file = None]
<1>4. c \in Extends /\ c.at = "returned" /\ c.file = None /\ c.wanted = e.wanted
      /\ c.rows = e.rows
  BY DEF Extends
<1>5. extend' = [extend EXCEPT ![p] = c]
  BY <1>1, <1>3
<1> HIDE DEF c
<1>6. extend' \in [Processes -> Extends] /\ extend'[p] = c
  BY <1>4, <1>5, Extension
<1>7. Published' = e.rows
  BY <1>2, <1>3 DEF Published, Stored
<1>8. StoreTypeOK' /\ PublishedWhole'
  BY <1>2, <1>3, <1>6 DEF StoreTypeOK, PublishedWhole
<1>9. HoldsFile(p)' /\ Gathered(p)'
  BY <1>2, <1>4, <1>6, <1>7 DEF HoldsFile, Gathered, Writing
<1> QED
  BY <1>1, <1>2, <1>4, <1>6, <1>7, <1>8, <1>9

\* A step of an extension keeps what the store and the extension promise.
LEMMA ExtendKeeps ==
    ASSUME NEW p \in Processes, Alone(p), StoreTypeOK, StoreInv(p), ExtendStep(p)
    PROVE  /\ StoreTypeOK' /\ HoldsFile(p)' /\ PublishedWhole' /\ Gathered(p)'
           /\ Published \subseteq Published'
           /\ extend'[p].at # "idle" /\ extend'[p].wanted = extend[p].wanted
<1>1. CASE Load(p)
  BY <1>1, LoadKeeps
<1>2. CASE Read(p) \/ PublishHeader(p)
  BY <1>2, ReadKeeps
<1>3. CASE OpenTemporary(p) \/ WriteRows(p)
  BY <1>3, WriteKeeps
<1>4. CASE Rename(p)
  BY <1>4, RenameKeeps
<1> QED
  BY <1>1, <1>2, <1>3, <1>4 DEF ExtendStep

\* Where no file is open, an extension that begins or is dropped disturbs nothing.
LEMMA DropKeeps ==
    ASSUME NEW p \in Processes, StoreTypeOK, StoreInv(p),
           UNCHANGED <<header, calls, tmp, content>>,
           NEW wanted \in SUBSET Specs, NEW next \in {"idle", "load"},
           extend' = [extend EXCEPT ![p] = [Idle EXCEPT !.at = next, !.wanted = wanted]]
    PROVE  /\ StoreTypeOK' /\ HoldsFile(p)' /\ PublishedWhole' /\ Gathered(p)'
           /\ Published' = Published
           /\ extend'[p].at = next /\ extend'[p].wanted = wanted
<1> DEFINE c == [Idle EXCEPT !.at = next, !.wanted = wanted]
<1>1. c \in Extends /\ c.at = next /\ c.wanted = wanted /\ c.rows = {} /\ c.file = None
  BY DEF Extends, Idle
<1> HIDE DEF c
<1>2. extend' \in [Processes -> Extends] /\ extend'[p] = c
  BY <1>1, Extension DEF c
<1>3. StoreTypeOK' /\ PublishedWhole' /\ Published' = Published
  BY <1>2 DEF StoreTypeOK, StoreInv, PublishedWhole, Published, Stored
<1>4. HoldsFile(p)' /\ Gathered(p)'
  BY <1>1, <1>2 DEF HoldsFile, Gathered, Writing
<1> QED
  BY <1>1, <1>2, <1>3, <1>4
-----------------------------------------------------------------------------
(* An acquisition.                                                         *)
\* An extension that is not under way holds nothing.
LEMMA AtRestIdle ==
    ASSUME NEW p \in Processes, StoreTypeOK, StoreInv(p), pc[p] # "extending"
    PROVE  extend[p].at = "idle" /\ extend[p].file = None
  BY DEF StoreInv, Waiting, HoldsFile, Writing

\* The first wave of every pool asked for is in the inventory's reads.
LEMMA FirstWaves ==
    ASSUME NEW asked \in SUBSET Pools, NEW hints \in Hints
    PROVE  /\ hints \cup UNION {Wave[r][1] : r \in asked \ Inactive} \in SUBSET Specs
           /\ \A r \in asked \ Inactive :
                 Wave[r][1] \subseteq hints \cup UNION {Wave[q][1] : q \in asked \ Inactive}
<1>1. \A r \in Pools : Wave[r] \in Seq(SUBSET Specs) /\ Len(Wave[r]) \in 1 .. MaxPhases
  BY AcquireAssumption
<1>2. \A r \in Pools : Wave[r][1] \in SUBSET Specs
  <2> SUFFICES ASSUME NEW r \in Pools PROVE Wave[r][1] \in SUBSET Specs
    OBVIOUS
  <2>1. 1 \in 1 .. Len(Wave[r])
    BY <1>1, AcquireAssumption
  <2> QED
    BY <1>1, <2>1
<1> QED
  BY <1>2, AcquireAssumption

\* acquire begins with the independent reads of every pool that has any.
LEMMA StartKeeps ==
    ASSUME NEW p \in Processes, AcquireInv(p), Start(p)
    PROVE  AcquireInv(p)' /\ Published' = Published
<1>1. PICK asked \in SUBSET Pools, hints \in Hints :
         /\ pc[p] \in AtRest
         /\ records' = [records EXCEPT ![p] = asked]
         /\ failures' = [failures EXCEPT ![p] = asked \cap Inactive]
         /\ Begin(p, hints \cup UNION {Wave[r][1] : r \in asked \ Inactive})
         /\ phases' = [phases EXCEPT ![p] = 0]
         /\ snapshot' = [snapshot EXCEPT ![p] = {}]
         /\ pc' = [pc EXCEPT ![p] = "extending"]
         /\ UNCHANGED <<header, calls, tmp, content>>
  BY DEF Start
<1> DEFINE wanted == hints \cup UNION {Wave[r][1] : r \in asked \ Inactive}
<1>2. wanted \in SUBSET Specs /\ \A r \in asked \ Inactive : Wave[r][1] \subseteq wanted
  BY FirstWaves
<1>3. extend' = [extend EXCEPT ![p] = [Idle EXCEPT !.at = "load", !.wanted = wanted]]
  BY <1>1 DEF Begin, Extending
<1> HIDE DEF wanted
<1>4. /\ StoreTypeOK' /\ HoldsFile(p)' /\ PublishedWhole' /\ Gathered(p)'
      /\ Published' = Published
      /\ extend'[p].at = "load" /\ extend'[p].wanted = wanted
  BY <1>1, <1>2, <1>3, DropKeeps DEF AcquireInv, TypeOK
<1>5. /\ pc'[p] = "extending" /\ records'[p] = asked /\ failures'[p] = asked \cap Inactive
      /\ phases'[p] = 0 /\ snapshot'[p] = {}
  BY <1>1 DEF AcquireInv, TypeOK
<1>6. TypeOK'
  BY <1>1, <1>4, AcquireAssumption DEF AcquireInv, TypeOK, AtRest
<1>7. StoreInv(p)'
  BY <1>4, <1>5 DEF StoreInv, Waiting
<1>8. Planned(p)'
  BY <1>5, AcquireAssumption DEF Planned
<1>9. WavesLanded(p)'
  <2> SUFFICES ASSUME NEW r \in asked \ Inactive, NEW k \in DOMAIN Wave[r], k <= 1
               PROVE  Wave[r][k] \subseteq wanted
    BY <1>4, <1>5 DEF WavesLanded
  <2>1. k = 1
    BY AcquireAssumption
  <2> QED
    BY <1>2, <2>1
<1> QED
  BY <1>4, <1>6, <1>7, <1>8, <1>9 DEF AcquireInv

\* While an extension runs, acquire waits.
LEMMA ExtendWaits ==
    ASSUME NEW p \in Processes, Alone(p), AcquireInv(p), Extend(p)
    PROVE  AcquireInv(p)' /\ Published \subseteq Published'
<1>1. /\ pc[p] = "extending" /\ UNCHANGED <<pc, records, failures, phases, snapshot>>
      /\ StoreTypeOK' /\ HoldsFile(p)' /\ PublishedWhole' /\ Gathered(p)'
      /\ Published \subseteq Published'
      /\ extend'[p].at # "idle" /\ extend'[p].wanted = extend[p].wanted
  BY ExtendKeeps DEF Extend, AcquireInv, TypeOK
<1>2. TypeOK'
  BY <1>1 DEF AcquireInv, TypeOK
<1>3. StoreInv(p)'
  BY <1>1 DEF StoreInv, Waiting
<1>4. Planned(p)'
  BY <1>1 DEF AcquireInv, Planned
<1>5. WavesLanded(p)'
  BY <1>1 DEF AcquireInv, WavesLanded
<1> QED
  BY <1>1, <1>2, <1>3, <1>4, <1>5 DEF AcquireInv

\* An extension that has returned is the snapshot in hand: one wave more has landed.
LEMMA ExtendedLands ==
    ASSUME NEW p \in Processes, AcquireInv(p), Extended(p)
    PROVE  AcquireInv(p)' /\ Published' = Published
<1>1. /\ pc[p] = "extending" /\ extend[p].at = "returned"
      /\ snapshot' = [snapshot EXCEPT ![p] = extend[p].rows]
      /\ phases' = [phases EXCEPT ![p] = @ + 1]
      /\ pc' = [pc EXCEPT ![p] = "planning"]
      /\ UNCHANGED <<header, calls, tmp, content, records, failures>>
  BY DEF Extended
<1>2. extend' = [extend EXCEPT ![p] = [Idle EXCEPT !.at = "idle", !.wanted = {}]]
  BY DEF Extended, Idle
<1>3. /\ StoreTypeOK' /\ HoldsFile(p)' /\ PublishedWhole' /\ Gathered(p)'
      /\ Published' = Published
      /\ extend'[p].at = "idle"
  BY <1>1, <1>2, DropKeeps DEF AcquireInv, TypeOK
<1>4. extend[p].rows = Published /\ extend[p].wanted \subseteq extend[p].rows
      /\ extend[p].rows \in SUBSET Specs
  BY <1>1 DEF AcquireInv, StoreInv, Gathered, TypeOK, StoreTypeOK, Extends
<1>5. phases[p] \in 0 .. MaxPhases /\ phases[p] + 1 <= MaxPhases
  <2>1. phases[p] \in 0 .. MaxPhases
    BY DEF AcquireInv, TypeOK
  <2> QED
    BY <1>1, <2>1, AcquireAssumption DEF AcquireInv, Planned
<1>6. /\ pc'[p] = "planning" /\ phases'[p] = phases[p] + 1 /\ snapshot'[p] = Published
  BY <1>1, <1>4 DEF AcquireInv, TypeOK
<1>7. TypeOK'
  <2>1. phases' \in [Processes -> 0 .. MaxPhases]
    BY <1>1, <1>5, AcquireAssumption DEF AcquireInv, TypeOK
  <2> QED
    BY <1>1, <1>3, <1>4, <2>1 DEF AcquireInv, TypeOK, AtRest
<1>8. StoreInv(p)'
  BY <1>3, <1>6 DEF StoreInv, Waiting
<1>9. Planned(p)'
  BY <1>1, <1>3, <1>5, <1>6 DEF AcquireInv, Planned, Underway
<1>10. WavesLanded(p)'
  <2> SUFFICES ASSUME NEW r \in records[p] \ failures[p], NEW k \in DOMAIN Wave[r],
                      k <= phases[p] + 1
               PROVE  Wave[r][k] \subseteq Published
    BY <1>1, <1>6 DEF WavesLanded
  <2>1. Wave[r][k] \subseteq snapshot[p] \cup extend[p].wanted
    BY <1>1 DEF AcquireInv, WavesLanded
  <2> QED
    BY <1>4, <2>1 DEF AcquireInv, Planned
<1> QED
  BY <1>3, <1>7, <1>8, <1>9, <1>10 DEF AcquireInv

\* An extension that raised, and a process that is killed, leave the snapshot as it was.
LEMMA StopKeeps ==
    ASSUME NEW p \in Processes, AcquireInv(p), Raised(p) \/ Crash(p)
    PROVE  AcquireInv(p)' /\ Published' = Published
<1>1. /\ pc' = [pc EXCEPT ![p] = "raised"] \/ pc' = [pc EXCEPT ![p] = "idle"]
      /\ extend' = [extend EXCEPT ![p] = [Idle EXCEPT !.at = "idle", !.wanted = {}]]
      /\ UNCHANGED <<header, calls, tmp, content, records, failures, phases, snapshot>>
  BY DEF Raised, Crash, Idle
<1>2. /\ StoreTypeOK' /\ HoldsFile(p)' /\ PublishedWhole' /\ Gathered(p)'
      /\ Published' = Published
      /\ extend'[p].at = "idle"
  BY <1>1, DropKeeps DEF AcquireInv, TypeOK
<1>3. pc'[p] \in {"raised", "idle"}
      /\ pc' \in [Processes -> AtRest \cup {"extending", "planning"}]
  BY <1>1 DEF AcquireInv, TypeOK, AtRest
<1>4. TypeOK'
  BY <1>1, <1>2, <1>3 DEF AcquireInv, TypeOK
<1>5. StoreInv(p)'
  BY <1>2, <1>3 DEF StoreInv, Waiting
<1>6. Planned(p)' /\ WavesLanded(p)'
  BY <1>1, <1>2, <1>3 DEF AcquireInv, Planned, WavesLanded, Underway
<1> QED
  BY <1>2, <1>4, <1>5, <1>6 DEF AcquireInv

\* A set of waves that is not empty has a first.
LEMMA FirstOf ==
    ASSUME NEW ks \in SUBSET Nat, ks # {}
    PROVE  First(ks) \in ks /\ \A j \in ks : First(ks) <= j
<1> DEFINE lessThan == {ss \in Nat \X Nat : ss[1] < ss[2]}
<1>1. IsWellFoundedOn(lessThan, Nat)
  BY NatLessThanWellFounded DEF OpToRel
<1>2. PICK k \in ks : \A j \in ks : ~(<<j, k>> \in lessThan)
  BY <1>1, WFMin
<1>3. ASSUME NEW j \in ks PROVE k <= j
  <2>1. j \in Nat /\ k \in Nat
    OBVIOUS
  <2>2. CASE j < k
    <3>1. <<j, k>> \in Nat \X Nat /\ <<j, k>>[1] = j /\ <<j, k>>[2] = k
      BY <2>1
    <3>2. <<j, k>> \in lessThan
      BY <2>2, <3>1
    <3> QED
      BY <1>2, <3>2
  <2> QED
    BY <2>1, <2>2
<1> QED
  BY <1>3 DEF First

\* What an adapter asks for is what its next wave lacks, and it asks until it has all.
LEMMA AdapterAsks ==
    ASSUME NEW r \in Pools, NEW snap \in SUBSET Specs, NEW n \in Nat, n >= 1,
           \A k \in DOMAIN Wave[r] : k <= n => Wave[r][k] \subseteq snap
    PROVE  /\ DependentRequests(r, snap) \in SUBSET Specs
           /\ DependentRequests(r, snap) = {} => \A k \in DOMAIN Wave[r] : Wave[r][k] \subseteq snap
           /\ \A k \in DOMAIN Wave[r] :
                 k <= n + 1 => Wave[r][k] \subseteq snap \cup DependentRequests(r, snap)
<1> DEFINE open == Open(r, snap)
<1>1. /\ Wave[r] \in Seq(SUBSET Specs) /\ Len(Wave[r]) \in Nat /\ Len(Wave[r]) >= 1
      /\ DOMAIN Wave[r] = 1 .. Len(Wave[r])
  BY AcquireAssumption
<1>2. /\ open \in SUBSET Nat /\ open \subseteq DOMAIN Wave[r]
      /\ \A k \in open : k > n
      /\ \A k \in DOMAIN Wave[r] \ open : Wave[r][k] \subseteq snap
      /\ \A k \in open : ~(Wave[r][k] \subseteq snap)
  BY <1>1 DEF Open
<1>3. 1 \notin open
  BY <1>2
<1>4. CASE open = {}
  <2>1. DependentRequests(r, snap) = {}
    BY <1>4 DEF DependentRequests
  <2>2. \A k \in DOMAIN Wave[r] : Wave[r][k] \subseteq snap
    BY <1>2, <1>4
  <2> QED
    BY <2>1, <2>2
<1>5. CASE open # {}
  <2>1. First(open) \in open /\ \A j \in open : First(open) <= j
    BY <1>2, <1>5, FirstOf
  <2>2. DependentRequests(r, snap) = Wave[r][First(open)] \ snap
    BY <1>3, <1>5 DEF DependentRequests
  <2>3. DependentRequests(r, snap) # {}
    BY <1>2, <2>1, <2>2
  <2>4. Wave[r][First(open)] \in SUBSET Specs
    BY <1>1, <1>2, <2>1
  <2>5. ASSUME NEW k \in DOMAIN Wave[r], k <= n + 1
        PROVE  Wave[r][k] \subseteq snap \cup DependentRequests(r, snap)
    <3>1. CASE k \in open
      <4>1. k = First(open)
        BY <1>1, <1>2, <2>1, <2>5, <3>1
      <4> QED
        BY <2>2, <4>1
    <3>2. CASE k \notin open
      <4>1. Wave[r][k] \subseteq snap
        BY <1>2, <3>2
      <4> QED
        BY <4>1
    <3> QED
      BY <3>1, <3>2
  <2> QED
    BY <2>2, <2>3, <2>4, <2>5
<1> QED
  BY <1>4, <1>5

\* Every adapter is asked that has not failed, and the last phase finds nothing missing.
LEMMA PlanLands ==
    ASSUME NEW p \in Processes, AcquireInv(p), Plan(p)
    PROVE  AcquireInv(p)' /\ Published' = Published
<1>1. /\ pc[p] = "planning" /\ UNCHANGED <<header, calls, tmp, content, records, phases, snapshot>>
      /\ phases[p] \in Nat /\ phases[p] >= 1 /\ phases[p] <= MaxPhases /\ MaxPhases \in Nat
      /\ snapshot[p] \in SUBSET Specs /\ snapshot[p] \subseteq Published
      /\ records[p] \in SUBSET Pools /\ failures[p] \in SUBSET records[p]
      /\ records[p] \cap Inactive \subseteq failures[p]
  <2>1. phases[p] \in 0 .. MaxPhases
    BY DEF AcquireInv, TypeOK
  <2> QED
    BY <2>1, AcquireAssumption DEF Plan, AcquireInv, TypeOK, Planned, Underway
<1>2. \A r \in records[p] \ failures[p] : \A k \in DOMAIN Wave[r] :
         k <= phases[p] => Wave[r][k] \subseteq snapshot[p]
  BY <1>1 DEF AcquireInv, WavesLanded
<1>3. FailuresNow(p) \in SUBSET records[p] /\ failures[p] \subseteq FailuresNow(p)
  BY <1>1 DEF FailuresNow
<1>4. \A r \in records[p] \ FailuresNow(p) :
         LET asked == DependentRequests(r, snapshot[p]) IN
         /\ asked \in SUBSET Specs
         /\ asked = {} => \A k \in DOMAIN Wave[r] : Wave[r][k] \subseteq snapshot[p]
         /\ \A k \in DOMAIN Wave[r] :
               k <= phases[p] + 1 => Wave[r][k] \subseteq snapshot[p] \cup asked
  BY <1>1, <1>2, <1>3, AdapterAsks
<1>5. /\ More(p) \in SUBSET Specs
      /\ \A r \in records[p] \ FailuresNow(p) : DependentRequests(r, snapshot[p]) \subseteq More(p)
  BY <1>4 DEF More
<1>6. CASE /\ failures' = [failures EXCEPT ![p] = FailuresNow(p)]
           /\ More(p) # {} /\ pc' = [pc EXCEPT ![p] = "extending"] /\ Begin(p, More(p))
           /\ phases[p] < MaxPhases
  <2>1. extend' = [extend EXCEPT ![p] = [Idle EXCEPT !.at = "load", !.wanted = More(p)]]
    BY <1>6 DEF Begin, Extending
  <2>2. /\ StoreTypeOK' /\ HoldsFile(p)' /\ PublishedWhole' /\ Gathered(p)'
        /\ Published' = Published
        /\ extend'[p].at = "load" /\ extend'[p].wanted = More(p)
    BY <1>1, <1>5, <2>1, DropKeeps DEF AcquireInv, TypeOK
  <2>3. pc'[p] = "extending" /\ failures'[p] = FailuresNow(p)
    BY <1>6 DEF AcquireInv, TypeOK
  <2>4. TypeOK'
    BY <1>1, <1>3, <1>6, <2>2 DEF AcquireInv, TypeOK, AtRest
  <2>5. StoreInv(p)'
    BY <2>2, <2>3 DEF StoreInv, Waiting
  <2>6. Planned(p)'
    BY <1>1, <1>3, <1>6, <2>2, <2>3 DEF Planned
  <2>7. WavesLanded(p)'
    BY <1>1, <1>4, <1>5, <2>2, <2>3 DEF WavesLanded
  <2> QED
    BY <2>2, <2>4, <2>5, <2>6, <2>7 DEF AcquireInv
<1>7. CASE /\ pc' = [pc EXCEPT ![p] = "acquired"] /\ UNCHANGED extend
           /\ \/ failures' = [failures EXCEPT ![p] = FailuresNow(p)] /\ More(p) = {}
              \/ UNCHANGED failures /\ phases[p] >= MaxPhases
  <2>1. /\ pc'[p] = "acquired" /\ Published' = Published
        /\ failures'[p] \in {failures[p], FailuresNow(p)}
    BY <1>1, <1>7 DEF AcquireInv, TypeOK, Published, Stored
  <2>2. TypeOK'
    <3>1. failures' \in [Processes -> SUBSET Pools]
      BY <1>1, <1>3, <1>7 DEF AcquireInv, TypeOK
    <3>2. \A q \in Processes : failures'[q] \subseteq records[q]
      BY <1>1, <1>3, <1>7 DEF AcquireInv, TypeOK
    <3> QED
      BY <1>1, <1>7, <3>1, <3>2 DEF AcquireInv, TypeOK, AtRest, StoreTypeOK
  <2>3. StoreInv(p)'
    BY <1>1, <1>7, <2>1 DEF AcquireInv, StoreInv, Waiting, HoldsFile, PublishedWhole, Gathered
  <2>4. Planned(p)'
    BY <1>1, <2>1 DEF Planned, Underway
  <2>5. WavesLanded(p)'
    <3> SUFFICES ASSUME NEW r \in records[p] \ failures'[p], NEW k \in DOMAIN Wave[r]
                 PROVE  Wave[r][k] \subseteq snapshot[p]
      BY <1>1, <2>1 DEF WavesLanded
    <3>1. CASE failures' = [failures EXCEPT ![p] = FailuresNow(p)] /\ More(p) = {}
      <4>1. failures'[p] = FailuresNow(p)
        BY <3>1 DEF AcquireInv, TypeOK
      <4>2. DependentRequests(r, snapshot[p]) = {}
        BY <1>5, <3>1, <4>1
      <4> QED
        BY <1>4, <4>1, <4>2
    <3>2. CASE UNCHANGED failures /\ phases[p] >= MaxPhases
      <4>1. k <= phases[p]
        <5>1. Wave[r] \in Seq(SUBSET Specs) /\ Len(Wave[r]) \in 1 .. MaxPhases
          BY <1>1, AcquireAssumption
        <5> QED
          BY <1>1, <3>2, <5>1
      <4> QED
        BY <1>2, <3>2, <4>1
    <3> QED
      BY <1>7, <3>1, <3>2
  <2> QED
    BY <2>1, <2>2, <2>3, <2>4, <2>5 DEF AcquireInv
<1> QED
  BY <1>6, <1>7 DEF Plan

\* The store and the acquisition begin with nothing.
LEMMA AcquireBegins == ASSUME NEW p, Alone(p), Init PROVE AcquireInv(p)
<1>1. p \in Processes
  BY AloneShares
<1>2. /\ header = FALSE /\ calls = None /\ tmp = None
      /\ content = [i \in Inodes |-> Torn] /\ extend = [q \in Processes |-> Idle]
      /\ pc = [q \in Processes |-> "idle"] /\ records = [q \in Processes |-> {}]
      /\ failures = [q \in Processes |-> {}] /\ phases = [q \in Processes |-> 0]
      /\ snapshot = [q \in Processes |-> {}]
  BY DEF Init, StoreInit
<1>3. Idle \in Extends /\ Idle.at = "idle" /\ Idle.rows = {} /\ Idle.file = None
  BY DEF Idle, Extends
<1>4. StoreTypeOK
  BY <1>2, <1>3 DEF StoreTypeOK, Torn
<1>5. TypeOK
  BY <1>2, <1>4, AcquireAssumption DEF TypeOK, AtRest
<1>6. StoreInv(p)
  BY <1>1, <1>2, <1>3
     DEF StoreInv, Waiting, HoldsFile, PublishedWhole, Gathered, Writing
<1>7. Planned(p) /\ WavesLanded(p)
  BY <1>1, <1>2 DEF Planned, WavesLanded, Underway
<1> QED
  BY <1>5, <1>6, <1>7 DEF AcquireInv

\* Every step of the one process keeps the invariant and what is published.
LEMMA AcquireKeeps ==
    ASSUME NEW p, Alone(p), AcquireInv(p), [Next]_vars
    PROVE  AcquireInv(p)' /\ Published \subseteq Published'
<1>1. p \in Processes /\ Processes = {p}
  BY AloneShares DEF Alone
<1>2. CASE UNCHANGED vars
  BY <1>2
     DEF vars, store, AcquireInv, TypeOK, StoreTypeOK, StoreInv, Waiting, HoldsFile,
         PublishedWhole, Gathered, Planned, WavesLanded, Published, Stored
<1>3. CASE Start(p)
  BY <1>1, <1>3, StartKeeps
<1>4. CASE Extend(p)
  BY <1>1, <1>4, ExtendWaits
<1>5. CASE Extended(p)
  BY <1>1, <1>5, ExtendedLands
<1>6. CASE Raised(p) \/ Crash(p)
  BY <1>1, <1>6, StopKeeps
<1>7. CASE Plan(p)
  BY <1>1, <1>7, PlanLands
<1> QED
  BY <1>1, <1>2, <1>3, <1>4, <1>5, <1>6, <1>7 DEF Next, AcquireStep

\* What the invariant is for.
LEMMA AcquireWhole ==
    ASSUME NEW p, Alone(p), AcquireInv(p)
    PROVE  AcquiredIsWhole
  BY DEF Alone, AcquireInv, WavesLanded, Planned, AcquiredIsWhole, AcquiredIsComplete,
         AcquiredIsStored

\* Where one process has the directory, acquire returns every read of every pool it does not
\* report, and all it returns is published (acquire, SnapshotStore.extend).
THEOREM AcquiredWhole ==
    ASSUME NEW p, Alone(p)
    PROVE  ReadsSpec => []AcquiredIsWhole
<1>1. ReadsInit => AcquireInv(p)
  BY AcquireBegins DEF ReadsInit
<1>2. AcquireInv(p) /\ [ReadsNext]_<<vars, batchVars, logsVars, reading>> => AcquireInv(p)'
  <2> SUFFICES ASSUME AcquireInv(p), [ReadsNext]_<<vars, batchVars, logsVars, reading>>
               PROVE  AcquireInv(p)'
    OBVIOUS
  <2>1. [Next]_vars
    BY DEF ReadsNext
  <2> QED
    BY <2>1, AcquireKeeps
<1>3. AcquireInv(p) => AcquiredIsWhole
  BY AcquireWhole
<1> QED
  BY <1>1, <1>2, <1>3, PTL DEF ReadsSpec

\* Across extensions, failures and crashes at any point no call that one process published is
\* lost, and no half-written file takes its place.
THEOREM NothingPublishedIsLost ==
    ASSUME NEW p, Alone(p)
    PROVE  Spec => PublishedNeverShrinks
<1>1. Init => AcquireInv(p)
  BY AcquireBegins
<1>2. AcquireInv(p) /\ [Next]_vars => AcquireInv(p)' /\ (Published \subseteq Published')
  BY AcquireKeeps
<1>3. AcquireInv(p) /\ [Next]_vars => [Published \subseteq Published']_vars
  BY <1>2
<1> QED
  BY <1>1, <1>2, <1>3, PTL DEF Spec, PublishedNeverShrinks
-----------------------------------------------------------------------------
(* A batched call.                                                         *)
\* The operators of its steps.
LEMMA CallsMade ==
    ASSUME NEW s \in Subcalls
    PROVE  \A via \in {"multicall3", "eth_call", "cache"} :
              LET result == Batches!Direct(s, via) IN
              /\ result \in Batches!Results /\ result # None
              /\ Right(result) /\ result.spec = s /\ result.via = via
              /\ result.success = (s \notin Reverting)
<1> SUFFICES ASSUME NEW via \in {"multicall3", "eth_call", "cache"}
             PROVE  LET result == Batches!Direct(s, via) IN
                    /\ result \in Batches!Results /\ result # None
                    /\ Right(result) /\ result.spec = s /\ result.via = via
                    /\ result.success = (s \notin Reverting)
  OBVIOUS
<1>1. PICK success \in BOOLEAN : success = (s \notin Reverting)
  BY Zenon
<1> DEFINE result == [spec |-> s, success |-> success, via |-> via]
<1>2. Batches!Direct(s, via) = result
  BY <1>1 DEF Batches!Direct
<1>3. /\ result \in Batches!Results /\ result.spec = s /\ result.via = via
      /\ result.success = success
  BY DEF Batches!Results
<1>4. result # None
  BY <1>3, BatchesAssumption DEF Batches!MulticallAssumption
<1> HIDE DEF result
<1> QED
  BY <1>1, <1>2, <1>3, <1>4 DEF Right

\* A cached result is given as one of the cache.
LEMMA CacheGives ==
    ASSUME NEW s \in Subcalls, cache \in [Subcalls -> Batches!Results \cup {None}], CacheRight
    PROVE  /\ Batches!FromCache(s) \in Batches!Results \cup {None}
           /\ cache[s] = None <=> Batches!FromCache(s) = None
           /\ cache[s] # None =>
                 /\ Batches!FromCache(s) \in Batches!Results
                 /\ Right(Batches!FromCache(s)) /\ Batches!FromCache(s).spec = s
                 /\ Batches!FromCache(s).via = "cache"
<1>1. CASE cache[s] = None
  BY <1>1 DEF Batches!FromCache
<1>2. CASE cache[s] # None
  <2>1. PICK row \in Batches!Results : row = cache[s] /\ Right(row) /\ row.spec = s
    BY <1>2 DEF CacheRight
  <2> DEFINE given == [row EXCEPT !.via = "cache"]
  <2>2. /\ given \in Batches!Results /\ given.via = "cache" /\ given.spec = row.spec
        /\ given.success = row.success
    BY DEF Batches!Results
  <2>3. Batches!FromCache(s) = given
    BY <1>2, <2>1 DEF Batches!FromCache
  <2>4. given # None
    BY <2>2, BatchesAssumption DEF Batches!MulticallAssumption
  <2> HIDE DEF given
  <2> QED
    BY <1>2, <2>1, <2>2, <2>3, <2>4 DEF Right
<1> QED
  BY <1>1, <1>2

\* The places that are read are the uncached ones, each once.
LEMMA PlacesInOrder ==
    ASSUME NEW n \in Nat, NEW places \in SUBSET (1 .. n), NEW m \in Batches!InOrder(places)
    PROVE  /\ m \in Seq(places) /\ m \in Seq(1 .. n)
           /\ \A i \in places : \E k \in 1 .. Len(m) : m[k] = i
<1>1. IsFiniteSet(places) /\ Cardinality(places) \in Nat
  <2>1. 1 \in Int /\ n \in Int
    OBVIOUS
  <2>2. IsFiniteSet(1 .. n)
    BY <2>1, FS_Interval
  <2> QED
    BY <2>2, FS_Subset, FS_CardinalityType
<1>2. Batches!Cardinality(places) = Cardinality(places)
  BY DEF Batches!Cardinality, Cardinality
<1> DEFINE c == Cardinality(places)
<1>3. /\ m \in [1 .. c -> places]
      /\ \A j, k \in 1 .. c : j < k => m[j] < m[k]
  BY <1>2 DEF Batches!InOrder
<1>4. c \in Nat /\ c = Cardinality(places)
  BY <1>1
<1> HIDE DEF c
<1>5. IsFiniteSet(1 .. c) /\ Cardinality(1 .. c) = c
  <2>1. 1 \in Int /\ c \in Int
    BY <1>4
  <2>2. IsFiniteSet(1 .. c) /\ Cardinality(1 .. c) = IF 1 > c THEN 0 ELSE c - 1 + 1
    BY <2>1, FS_Interval
  <2> QED
    BY <1>4, <2>2
<1>6. m \in Injection(1 .. c, places)
  <2>1. ASSUME NEW j \in 1 .. c, NEW k \in 1 .. c, m[j] = m[k] PROVE j = k
    <3>1. m[j] \in Nat /\ m[k] \in Nat /\ j \in Int /\ k \in Int
      <4>1. m[j] \in places /\ m[k] \in places /\ places \subseteq Nat
        BY <1>3
      <4>2. m[j] \in Nat /\ m[k] \in Nat
        BY <4>1
      <4>3. j \in Int /\ k \in Int
        BY <1>4
      <4> QED
        BY <4>2, <4>3
    <3>2. ~(j < k) /\ ~(k < j)
      BY <1>3, <2>1, <3>1
    <3> QED
      BY <3>1, <3>2
  <2> QED
    BY <1>3, <2>1 DEF Injection, IsInjective
<1>7. m \in Surjection(1 .. c, places)
  BY <1>1, <1>4, <1>5, <1>6, FS_Injection
<1>8. /\ Len(m) = c /\ m \in Seq(places) /\ m \in Seq(1 .. n)
      /\ \A i \in places : \E k \in 1 .. c : m[k] = i
  <2>1. Len(m) = c /\ m \in Seq(places) /\ m \in Seq(1 .. n)
    <3>1. m \in [1 .. c -> places] /\ m \in [1 .. c -> 1 .. n]
      BY <1>3
    <3> QED
      BY <1>4, <3>1
  <2>2. \A i \in places : \E k \in 1 .. c : m[k] = i
    BY <1>7 DEF Surjection
  <2> QED
    BY <2>1, <2>2
<1> QED
  BY <1>8

\* What is at hand, in a batch and alone, is a spec the caller asked for.
LEMMA SelectedIsAsked ==
    ASSUME Batches!TypeOK, BatchWithin, at \in {"aggregate", "subcalls", "single"},
           NEW k \in 1 .. size
    PROVE  /\ Batches!Selected(k) \in Subcalls /\ offset + k \in 1 .. Len(missing)
           /\ missing[offset + k] \in Batches!Places
           /\ Batches!Selected(k) = request[missing[offset + k]]
<1>1. /\ missing \in Seq(Batches!Places) /\ offset \in Nat /\ size \in Nat /\ Len(missing) \in Nat
      /\ size >= 1 /\ offset + size <= Len(missing)
  BY BatchesAssumption DEF Batches!TypeOK, BatchWithin, Batches!MulticallAssumption
<1>2. offset + k \in 1 .. Len(missing)
  BY <1>1
<1>3. missing[offset + k] \in Batches!Places
  BY <1>1, <1>2
<1>4. request \in Seq(Subcalls)
  <2>1. request \in Requests \/ request = <<>>
    BY DEF Batches!TypeOK
  <2>2. Requests \subseteq Seq(Subcalls) /\ <<>> \in Seq(Subcalls)
    BY BatchesAssumption DEF Batches!MulticallAssumption
  <2> QED
    BY <2>1, <2>2
<1>5. request[missing[offset + k]] \in Subcalls
  BY <1>3, <1>4 DEF Batches!Places
<1> QED
  BY <1>2, <1>3, <1>5 DEF Batches!Selected

\* A call begins with what is cached, and reads what is not.
LEMMA CallBegins ==
    ASSUME BatchInv, NEW specs \in Requests, Batches!Call(specs)
    PROVE  BatchInv'
<1>1. /\ at \in Batches!AtRest /\ at' = "loop" /\ request' = specs /\ offset' = 0
      /\ results' = [i \in 1 .. Len(specs) |-> Batches!FromCache(specs[i])]
      /\ missing' \in Batches!InOrder(Batches!Uncached(specs))
      /\ UNCHANGED <<cache, size, chunk>>
  BY DEF Batches!Call
<1>2. /\ specs \in Seq(Subcalls) /\ Len(specs) \in Nat
      /\ \A i \in 1 .. Len(specs) : specs[i] \in Subcalls
      /\ Batches!Places' = 1 .. Len(specs)
  BY <1>1, BatchesAssumption DEF Batches!Places, Batches!MulticallAssumption
<1>3. Batches!Uncached(specs) \in SUBSET (1 .. Len(specs))
  BY DEF Batches!Uncached
<1>4. /\ missing' \in Seq(Batches!Places') /\ Len(missing') \in Nat
      /\ \A i \in Batches!Uncached(specs) : \E k \in 1 .. Len(missing') : missing'[k] = i
  <2>1. PICK m \in Batches!InOrder(Batches!Uncached(specs)) : m = missing'
    BY <1>1
  <2> DEFINE n == Len(specs)
             places == Batches!Uncached(specs)
  <2>2. n \in Nat /\ places \in SUBSET (1 .. n) /\ m \in Batches!InOrder(places)
    BY <1>2, <1>3
  <2> HIDE DEF n, places
  <2>3. m \in Seq(1 .. n) /\ \A i \in places : \E k \in 1 .. Len(m) : m[k] = i
    BY <2>2, PlacesInOrder
  <2> QED
    BY <1>2, <2>1, <2>3 DEF n, places
<1>5. /\ cache \in [Subcalls -> Batches!Results \cup {None}] /\ CacheRight
      /\ chunk = <<>> /\ size \in 0 .. ChunkSize
  BY <1>1 DEF BatchInv, Batches!TypeOK, BatchWithin, Batches!AtRest
<1>6. \A i \in 1 .. Len(specs) :
         /\ results'[i] \in Batches!Results \cup {None}
         /\ cache[specs[i]] = None <=> results'[i] = None
         /\ results'[i] # None =>
               Right(results'[i]) /\ results'[i].spec = specs[i] /\ results'[i].via = "cache"
  BY <1>1, <1>2, <1>5, CacheGives
<1>7. Batches!TypeOK'
  BY <1>1, <1>2, <1>4, <1>5, <1>6 DEF BatchInv, Batches!TypeOK, Batches!AtRest
<1>8. BatchWithin' /\ CacheRight' /\ ChunkRight'
  BY <1>1, <1>5 DEF BatchWithin, CacheRight, ChunkRight
<1>9. ResultsRight'
  BY <1>1, <1>2, <1>6 DEF ResultsRight
<1>10. ASSUME Distinct PROVE PlacesAhead'
  <2> SUFFICES ASSUME NEW i \in 1 .. Len(specs), results'[i] = None
               PROVE  \E k \in 1 .. Len(missing') : k > 0 /\ missing'[k] = i
    BY <1>1, <1>2 DEF PlacesAhead
  <2>1. cache[specs[i]] = None
    BY <1>6
  <2>2. \A j \in 1 .. i - 1 : specs[j] # specs[i]
    <3> SUFFICES ASSUME NEW j \in 1 .. i - 1, specs[j] = specs[i] PROVE FALSE
      OBVIOUS
    <3>1. j \in 1 .. Len(specs) /\ j # i
      BY <1>2
    <3> QED
      BY <1>10, <3>1 DEF Distinct
  <2>3. i \in Batches!Uncached(specs)
    BY <2>1, <2>2 DEF Batches!Uncached
  <2>4. PICK k \in 1 .. Len(missing') : missing'[k] = i
    BY <1>4, <2>3
  <2> QED
    BY <1>4, <2>4
<1>11. EveryPlaceFilled'
  BY <1>1 DEF EveryPlaceFilled, Batches!EveryPlaceFilled
<1> QED
  BY <1>7, <1>8, <1>9, <1>10, <1>11 DEF BatchInv, Distinct

\* A batch is begun, answered, or halved when it fails, and a call returns or raises: what
\* was read stays as it was.
LEMMA BatchMoves ==
    ASSUME BatchInv,
           \/ Batches!NextChunk \/ Batches!AggregateAnswered
           \/ Batches!ChunkFails \/ Batches!SingleRaises
    PROVE  BatchInv'
<1>1. /\ UNCHANGED <<cache, request, results, missing, offset>>
      /\ at' \in {"aggregate", "subcalls", "single", "raised"}
      /\ chunk' = <<>>
  BY DEF Batches!NextChunk, Batches!AggregateAnswered, Batches!ChunkFails,
         Batches!SingleRaises, BatchInv, BatchWithin
<1>2. /\ offset \in 0 .. Len(missing) /\ size \in 0 .. ChunkSize /\ ChunkSize \in Nat
      /\ ChunkSize >= 1 /\ Len(missing) \in Nat
  BY BatchesAssumption DEF BatchInv, Batches!TypeOK, Batches!MulticallAssumption
<1>3. /\ size' \in 0 .. ChunkSize
      /\ at' # "raised" => size' >= 1 /\ offset + size' <= Len(missing)
  <2>1. CASE Batches!NextChunk
    BY <1>2, <2>1 DEF Batches!NextChunk, Batches!MinOf
  <2>2. CASE Batches!AggregateAnswered
    BY <1>2, <2>2 DEF Batches!AggregateAnswered, BatchInv, BatchWithin
  <2>3. CASE Batches!SingleRaises
    BY <1>2, <2>3 DEF Batches!SingleRaises
  <2>4. CASE Batches!ChunkFails
    <3>1. size >= 1 /\ offset + size <= Len(missing)
      BY <2>4 DEF Batches!ChunkFails, Batches!AggregateFails, Batches!SubcallRaises,
                  BatchInv, BatchWithin
    <3>2. size' = size \/ (size > 1 /\ size' = size \div 2)
      <4>1. CASE size > 1
        BY <2>4, <4>1 DEF Batches!ChunkFails
      <4>2. CASE ~(size > 1)
        BY <2>4, <4>2 DEF Batches!ChunkFails
      <4> QED
        BY <4>1, <4>2
    <3>3. size > 1 => size \div 2 \in Nat /\ size \div 2 >= 1 /\ size \div 2 <= size
      BY <1>2
    <3> QED
      BY <1>2, <3>1, <3>2, <3>3
  <2> QED
    BY <2>1, <2>2, <2>3, <2>4
<1>4. Batches!TypeOK'
  BY <1>1, <1>2, <1>3 DEF BatchInv, Batches!TypeOK, Batches!AtRest, Batches!Places
<1>5. BatchWithin' /\ CacheRight' /\ ResultsRight' /\ ChunkRight'
  BY <1>1, <1>3 DEF BatchInv, BatchWithin, CacheRight, ResultsRight, ChunkRight, Batches!Places
<1>6. (PlacesAhead => PlacesAhead') /\ EveryPlaceFilled'
  BY <1>1 DEF PlacesAhead, Batches!Places, EveryPlaceFilled, Batches!EveryPlaceFilled
<1> QED
  BY <1>4, <1>5, <1>6 DEF BatchInv, Distinct

\* With nothing missing the call returns what it has.
LEMMA ReturnFills == ASSUME BatchInv, Batches!Return PROVE BatchInv'
<1>1. /\ UNCHANGED <<cache, request, results, missing, offset, size, chunk>>
      /\ at = "loop" /\ offset = Len(missing) /\ at' \in {"returned", "assertionFailed"}
      /\ at' = "returned" <=> \A i \in Batches!Places : results[i] # None
  BY DEF Batches!Return
<1>2. chunk = <<>>
  BY <1>1 DEF BatchInv, BatchWithin
<1>3. Batches!TypeOK' /\ BatchWithin' /\ CacheRight' /\ ChunkRight'
  BY <1>1, <1>2
     DEF BatchInv, Batches!TypeOK, Batches!AtRest, Batches!Places, BatchWithin, CacheRight,
         ChunkRight
<1>4. ResultsRight'
  BY <1>1 DEF BatchInv, ResultsRight, Batches!Places
<1>5. PlacesAhead => PlacesAhead' /\ EveryPlaceFilled'
  <2> SUFFICES ASSUME PlacesAhead PROVE PlacesAhead' /\ EveryPlaceFilled'
    OBVIOUS
  <2>1. ASSUME NEW i \in Batches!Places PROVE results[i] # None
    <3>1. \A k \in 1 .. Len(missing) : ~(k > offset)
      BY <1>1 DEF BatchInv, Batches!TypeOK
    <3> QED
      BY <3>1 DEF PlacesAhead
  <2> QED
    BY <1>1, <2>1 DEF PlacesAhead, Batches!Places, EveryPlaceFilled, Batches!EveryPlaceFilled
<1> QED
  BY <1>3, <1>4, <1>5 DEF BatchInv, Distinct

\* A batch gains a result that is the direct call's.
LEMMA ChunkGrows ==
    ASSUME BatchInv, at = "subcalls", Len(chunk) < size,
           NEW result \in Batches!Results, Right(result),
           result.spec = Batches!Selected(Len(chunk) + 1),
           ~result.success => result.via # "multicall3",
           chunk' = Append(chunk, result),
           UNCHANGED <<at, request, results, missing, offset, size>>,
           cache' \in [Subcalls -> Batches!Results \cup {None}], CacheRight'
    PROVE  BatchInv'
<1>1. /\ chunk \in Seq(Batches!Results) /\ Len(chunk) \in Nat /\ size \in 0 .. ChunkSize
      /\ ChunkSize \in Nat
  BY BatchesAssumption DEF BatchInv, Batches!TypeOK, Batches!MulticallAssumption
<1>2. /\ chunk' \in Seq(Batches!Results) /\ Len(chunk') = Len(chunk) + 1
      /\ chunk'[Len(chunk) + 1] = result
      /\ \A k \in 1 .. Len(chunk) : chunk'[k] = chunk[k]
  BY <1>1
<1>3. Batches!TypeOK'
  BY <1>1, <1>2 DEF BatchInv, Batches!TypeOK, Batches!AtRest, Batches!Places
<1>4. BatchWithin' /\ ResultsRight'
  BY DEF BatchInv, BatchWithin, ResultsRight, Batches!Places
<1>5. ChunkRight'
  <2> SUFFICES ASSUME NEW k \in 1 .. Len(chunk) + 1
               PROVE  /\ Right(chunk'[k]) /\ chunk'[k].spec = Batches!Selected(k)
                      /\ ~chunk'[k].success => chunk'[k].via # "multicall3"
    BY <1>2 DEF ChunkRight, Batches!Selected
  <2>1. CASE k = Len(chunk) + 1
    BY <1>2, <2>1
  <2>2. CASE k \in 1 .. Len(chunk)
    BY <1>2, <2>2 DEF BatchInv, ChunkRight
  <2> QED
    BY <1>1, <2>1, <2>2
<1>6. (PlacesAhead => PlacesAhead') /\ EveryPlaceFilled'
  BY DEF PlacesAhead, Batches!Places, EveryPlaceFilled, Batches!EveryPlaceFilled
<1> QED
  BY <1>3, <1>4, <1>5, <1>6 DEF BatchInv, Distinct

\* A result that is kept is cached under its spec; a failure is kept from a direct call only.
LEMMA CacheGrows ==
    ASSUME cache \in [Subcalls -> Batches!Results \cup {None}], CacheRight,
           NEW s \in Subcalls, NEW result \in Batches!Results, Right(result), result.spec = s,
           ~result.success => result.via = "eth_call",
           cache' = [cache EXCEPT ![s] = result]
    PROVE  cache' \in [Subcalls -> Batches!Results \cup {None}] /\ CacheRight'
<1>1. cache' \in [Subcalls -> Batches!Results \cup {None}]
      /\ \A q \in Subcalls : cache'[q] = IF q = s THEN result ELSE cache[q]
  OBVIOUS
<1> QED
  BY <1>1 DEF CacheRight

\* A member of the batch is believed when it succeeds, and asked for alone when it does not.
LEMMA SubcallKeeps ==
    ASSUME BatchInv, Batches!SubcallBatched \/ Batches!SubcallAlone
    PROVE  BatchInv'
<1> DEFINE s == Batches!Selected(Len(chunk) + 1)
<1>1. at = "subcalls" /\ Len(chunk) < size /\ Len(chunk) \in Nat /\ size \in Nat
  BY BatchesAssumption
     DEF Batches!SubcallBatched, Batches!SubcallAlone, BatchInv, Batches!TypeOK,
         Batches!MulticallAssumption
<1>2. s \in Subcalls
  BY <1>1, SelectedIsAsked DEF BatchInv
<1>3. cache \in [Subcalls -> Batches!Results \cup {None}] /\ CacheRight
  BY DEF BatchInv, Batches!TypeOK
<1>4. PICK result \in Batches!Results :
         /\ Right(result) /\ result.spec = s
         /\ ~result.success => result.via # "multicall3"
         /\ chunk' = Append(chunk, result)
         /\ UNCHANGED <<at, request, results, missing, offset, size>>
         /\ cache' \in [Subcalls -> Batches!Results \cup {None}] /\ CacheRight'
  <2>1. CASE Batches!SubcallBatched
    <3> DEFINE result == Batches!Direct(s, "multicall3")
    <3>1. s \notin Reverting /\ Batches!Keep(result)
      BY <2>1 DEF Batches!SubcallBatched
    <3>2. /\ result \in Batches!Results /\ Right(result) /\ result.spec = s
          /\ result.success
      BY <1>2, <3>1, CallsMade
    <3>3. /\ chunk' = Append(chunk, result) /\ cache' = [cache EXCEPT ![s] = result]
          /\ UNCHANGED <<at, request, results, missing, offset, size>>
      BY <3>1, <3>2 DEF Batches!Keep
    <3> HIDE DEF result, s
    <3>4. cache' \in [Subcalls -> Batches!Results \cup {None}] /\ CacheRight'
      BY <1>2, <1>3, <3>2, <3>3, CacheGrows
    <3> QED
      BY <3>2, <3>3, <3>4
  <2>2. CASE Batches!SubcallAlone /\ cache[s] # None
    <3> DEFINE result == Batches!FromCache(s)
    <3>1. /\ result \in Batches!Results /\ Right(result) /\ result.spec = s
          /\ result.via = "cache"
      BY <1>2, <1>3, <2>2, CacheGives
    <3>2. /\ chunk' = Append(chunk, result)
          /\ UNCHANGED <<cache, at, request, results, missing, offset, size>>
      BY <2>2 DEF Batches!SubcallAlone
    <3> HIDE DEF result, s
    <3>3. cache' \in [Subcalls -> Batches!Results \cup {None}] /\ CacheRight'
      BY <1>3, <3>2 DEF CacheRight
    <3> QED
      BY <3>1, <3>2, <3>3
  <2>3. CASE Batches!SubcallAlone /\ cache[s] = None
    <3> DEFINE result == Batches!Direct(s, "eth_call")
    <3>1. Batches!Keep(result)
      BY <2>3 DEF Batches!SubcallAlone
    <3>2. /\ result \in Batches!Results /\ Right(result) /\ result.spec = s
          /\ result.via = "eth_call"
      BY <1>2, CallsMade
    <3>3. /\ chunk' = Append(chunk, result) /\ cache' = [cache EXCEPT ![s] = result]
          /\ UNCHANGED <<at, request, results, missing, offset, size>>
      BY <3>1, <3>2 DEF Batches!Keep
    <3> HIDE DEF result, s
    <3>4. cache' \in [Subcalls -> Batches!Results \cup {None}] /\ CacheRight'
      BY <1>2, <1>3, <3>2, <3>3, CacheGrows
    <3> QED
      BY <3>2, <3>3, <3>4
  <2> QED
    BY <2>1, <2>2, <2>3
<1> QED
  BY <1>1, <1>4, ChunkGrows

\* A batch that is done fills every place that asked for one of its specs.
LEMMA ChunkLands == ASSUME BatchInv, Batches!ChunkDone PROVE BatchInv'
<1>1. /\ at = "subcalls" /\ Len(chunk) = size /\ size \in Nat /\ size <= ChunkSize
      /\ offset \in Nat /\ Len(missing) \in Nat /\ ChunkSize \in Nat
      /\ size >= 1 /\ offset + size <= Len(missing)
      /\ chunk \in Seq(Batches!Results)
  BY BatchesAssumption
     DEF Batches!ChunkDone, BatchInv, Batches!TypeOK, BatchWithin, Batches!MulticallAssumption
<1>2. /\ UNCHANGED <<cache, request, missing, size>>
      /\ offset' = offset + size /\ chunk' = <<>> /\ at' = "loop"
      /\ DOMAIN results' = Batches!Places /\ results' = [i \in Batches!Places |-> results'[i]]
  BY DEF Batches!ChunkDone
<1>3. ASSUME NEW i \in Batches!Places
      PROVE  \/ /\ \A k \in 1 .. size : chunk[k].spec # request[i]
                /\ results'[i] = results[i]
             \/ \E k \in 1 .. size : chunk[k].spec = request[i] /\ results'[i] = chunk[k]
  <2>1. CASE \E k \in 1 .. size : chunk[k].spec = request[i]
    <3> DEFINE c == CHOOSE n \in 1 .. size : chunk[n].spec = request[i]
    <3>1. c \in 1 .. size /\ chunk[c].spec = request[i]
      BY <2>1
    <3>2. results'[i] = chunk[c]
      BY <2>1 DEF Batches!ChunkDone
    <3> HIDE DEF c
    <3> QED
      BY <3>1, <3>2
  <2>2. CASE ~\E k \in 1 .. size : chunk[k].spec = request[i]
    BY <2>2 DEF Batches!ChunkDone
  <2> QED
    BY <2>1, <2>2
<1>4. \A k \in 1 .. size :
         /\ chunk[k] \in Batches!Results /\ chunk[k] # None
         /\ Right(chunk[k]) /\ chunk[k].spec = Batches!Selected(k)
         /\ ~chunk[k].success => chunk[k].via # "multicall3"
  BY <1>1, BatchesAssumption DEF BatchInv, ChunkRight, Batches!MulticallAssumption
<1>5. \A i \in Batches!Places :
         /\ results'[i] \in Batches!Results \cup {None}
         /\ results'[i] # None => /\ Right(results'[i]) /\ results'[i].spec = request[i]
                                  /\ ~results'[i].success => results'[i].via # "multicall3"
  BY <1>3, <1>4 DEF BatchInv, Batches!TypeOK, ResultsRight
<1>6. Batches!Places' = Batches!Places
  BY <1>2 DEF Batches!Places
<1>7. Batches!TypeOK'
  <2>1. results' \in [Batches!Places -> Batches!Results \cup {None}]
    BY <1>2, <1>5
  <2>2. offset' \in 0 .. Len(missing')
    BY <1>1, <1>2
  <2>3. chunk' \in Seq(Batches!Results) /\ Len(chunk') <= size'
    BY <1>1, <1>2
  <2> QED
    BY <1>2, <1>6, <2>1, <2>2, <2>3 DEF BatchInv, Batches!TypeOK, Batches!AtRest
<1>8. BatchWithin' /\ CacheRight' /\ ChunkRight' /\ EveryPlaceFilled'
  BY <1>2 DEF BatchInv, BatchWithin, CacheRight, ChunkRight, EveryPlaceFilled,
              Batches!EveryPlaceFilled
<1>9. ResultsRight'
  BY <1>2, <1>5, <1>6 DEF ResultsRight
<1>10. PlacesAhead => PlacesAhead'
  <2> SUFFICES ASSUME PlacesAhead, NEW i \in Batches!Places, results'[i] = None
               PROVE  \E k \in 1 .. Len(missing) : k > offset + size /\ missing[k] = i
    BY <1>2, <1>6 DEF PlacesAhead
  <2>1. /\ \A k \in 1 .. size : chunk[k].spec # request[i]
        /\ results[i] = None
    BY <1>3, <1>4
  <2>2. PICK k \in 1 .. Len(missing) : k > offset /\ missing[k] = i
    BY <2>1 DEF PlacesAhead
  <2>3. ASSUME k <= offset + size PROVE FALSE
    <3>1. k - offset \in 1 .. size /\ offset + (k - offset) = k
      BY <1>1, <2>2, <2>3
    <3>2. chunk[k - offset].spec = request[missing[k]]
      BY <1>4, <3>1 DEF Batches!Selected
    <3> QED
      BY <2>1, <2>2, <3>1, <3>2
  <2> QED
    BY <1>1, <2>2, <2>3
<1> QED
  BY <1>7, <1>8, <1>9, <1>10 DEF BatchInv, Distinct

\* The last resort fills the place at hand.
LEMMA SingleLands == ASSUME BatchInv, Batches!SingleAnswered PROVE BatchInv'
<1> DEFINE s == Batches!Selected(1)
           result == IF cache[s] # None THEN Batches!FromCache(s)
                     ELSE Batches!Direct(s, "eth_call")
           place == missing[offset + 1]
<1>1. /\ at = "single" /\ size >= 1 /\ size \in Nat /\ offset \in Nat /\ Len(missing) \in Nat
      /\ offset + size <= Len(missing) /\ chunk = <<>>
  BY BatchesAssumption
     DEF Batches!SingleAnswered, BatchInv, Batches!TypeOK, BatchWithin,
         Batches!MulticallAssumption
<1>2. s \in Subcalls /\ place \in Batches!Places /\ s = request[place]
  BY <1>1, SelectedIsAsked DEF BatchInv
<1>3. cache \in [Subcalls -> Batches!Results \cup {None}] /\ CacheRight
  BY DEF BatchInv, Batches!TypeOK
<1>4. /\ result \in Batches!Results /\ Right(result) /\ result.spec = s
      /\ result.via # "multicall3" /\ result # None
      /\ cache[s] = None => result.via = "eth_call"
  <2>1. CASE cache[s] = None
    BY <1>2, <2>1, CallsMade
  <2>2. CASE cache[s] # None
    BY <1>2, <1>3, <2>2, CacheGives
  <2> QED
    BY <2>1, <2>2
<1>5. /\ results' = [results EXCEPT ![place] = result]
      /\ cache' = [cache EXCEPT ![s] = IF @ = None THEN result ELSE @]
      /\ offset' = offset + 1 /\ at' = "loop"
      /\ UNCHANGED <<request, missing, size, chunk>>
  BY DEF Batches!SingleAnswered
<1> HIDE DEF result, s, place
<1>6. cache' \in [Subcalls -> Batches!Results \cup {None}] /\ CacheRight'
  <2>1. CASE cache[s] = None
    <3>1. cache' = [cache EXCEPT ![s] = result]
      BY <1>2, <1>3, <1>5, <2>1
    <3> QED
      BY <1>2, <1>3, <1>4, <2>1, <3>1, CacheGrows
  <2>2. CASE cache[s] # None
    <3>1. cache' = cache
      BY <1>2, <1>3, <1>5, <2>2
    <3> QED
      BY <1>3, <3>1 DEF CacheRight
  <2> QED
    BY <2>1, <2>2
<1>7. /\ Batches!Places' = Batches!Places
      /\ results' \in [Batches!Places -> Batches!Results \cup {None}]
      /\ \A i \in Batches!Places : results'[i] = IF i = place THEN result ELSE results[i]
  BY <1>4, <1>5 DEF BatchInv, Batches!TypeOK, Batches!Places
<1>8. Batches!TypeOK'
  <2>1. offset' \in 0 .. Len(missing')
    BY <1>1, <1>5
  <2> QED
    BY <1>5, <1>6, <1>7, <2>1 DEF BatchInv, Batches!TypeOK, Batches!AtRest
<1>9. BatchWithin' /\ ChunkRight' /\ EveryPlaceFilled'
  BY <1>1, <1>5 DEF BatchWithin, ChunkRight, EveryPlaceFilled, Batches!EveryPlaceFilled
<1>10. ResultsRight'
  BY <1>2, <1>4, <1>5, <1>7 DEF BatchInv, ResultsRight
<1>11. PlacesAhead => PlacesAhead'
  <2> SUFFICES ASSUME PlacesAhead, NEW i \in Batches!Places, results'[i] = None
               PROVE  \E k \in 1 .. Len(missing) : k > offset + 1 /\ missing[k] = i
    BY <1>5, <1>7 DEF PlacesAhead
  <2>1. i # place /\ results[i] = None
    BY <1>4, <1>7
  <2>2. PICK k \in 1 .. Len(missing) : k > offset /\ missing[k] = i
    BY <2>1 DEF PlacesAhead
  <2>3. k # offset + 1
    BY <2>1, <2>2 DEF place
  <2> QED
    BY <1>1, <2>2, <2>3
<1> QED
  BY <1>6, <1>8, <1>9, <1>10, <1>11 DEF BatchInv, Distinct

\* Nothing is asked for, and nothing cached.
LEMMA BatchBegins == ASSUME Batches!Init PROVE BatchInv
<1>1. /\ cache = [s \in Subcalls |-> None] /\ at = "idle" /\ request = <<>>
      /\ results = <<>> /\ missing = <<>> /\ offset = 0 /\ size = 0 /\ chunk = <<>>
  BY DEF Batches!Init
<1>2. ChunkSize \in Nat
  BY BatchesAssumption DEF Batches!MulticallAssumption
<1>3. Batches!Places = {}
  BY <1>1 DEF Batches!Places
<1>4. results \in [Batches!Places -> Batches!Results \cup {None}]
  BY <1>1, <1>3
<1>5. Batches!TypeOK
  BY <1>1, <1>2, <1>4 DEF Batches!TypeOK, Batches!AtRest
<1> QED
  BY <1>1, <1>3, <1>5
     DEF BatchInv, BatchWithin, CacheRight, ResultsRight, ChunkRight, PlacesAhead,
         EveryPlaceFilled, Batches!EveryPlaceFilled

\* Every step of a call keeps what its results and the cache promise.
LEMMA BatchKeeps ==
    ASSUME BatchInv, [Batches!Next]_batchVars
    PROVE  BatchInv'
<1>1. CASE UNCHANGED batchVars
  BY <1>1
     DEF batchVars, BatchInv, Batches!TypeOK, Batches!Places, BatchWithin, CacheRight,
         ResultsRight, ChunkRight, Batches!Selected, Distinct, PlacesAhead,
         EveryPlaceFilled, Batches!EveryPlaceFilled
<1>2. CASE \E specs \in Requests : Batches!Call(specs)
  BY <1>2, CallBegins
<1>3. CASE \/ Batches!NextChunk \/ Batches!AggregateAnswered
           \/ Batches!ChunkFails \/ Batches!SingleRaises
  BY <1>3, BatchMoves
<1>4. CASE Batches!Return
  BY <1>4, ReturnFills
<1>5. CASE Batches!SubcallBatched \/ Batches!SubcallAlone
  BY <1>5, SubcallKeeps
<1>6. CASE Batches!ChunkDone
  BY <1>6, ChunkLands
<1>7. CASE Batches!SingleAnswered
  BY <1>7, SingleLands
<1> QED
  BY <1>1, <1>2, <1>3, <1>4, <1>5, <1>6, <1>7 DEF Batches!Next, Batches!CallStep

\* What the invariant is for.
LEMMA BatchDirect == ASSUME BatchInv PROVE ReturnedAsDirect
<1>1. Batches!ReturnedAsDirect
  BY DEF BatchInv, ResultsRight, Right, Batches!ReturnedAsDirect
<1>2. Batches!FailuresConfirmedAlone
  BY DEF BatchInv, CacheRight, ResultsRight, Batches!FailuresConfirmedAlone
<1> QED
  BY <1>1, <1>2 DEF ReturnedAsDirect

LEMMA BatchInductive ==
    /\ ReadsInit => BatchInv
    /\ BatchInv /\ [ReadsNext]_<<vars, batchVars, logsVars, reading>> => BatchInv'
<1>1. ReadsInit => BatchInv
  BY BatchBegins DEF ReadsInit
<1>2. ASSUME BatchInv, [ReadsNext]_<<vars, batchVars, logsVars, reading>> PROVE BatchInv'
  <2>1. [Batches!Next]_batchVars
    BY <1>2 DEF ReadsNext
  <2> QED
    BY <1>2, <2>1, BatchKeeps
<1> QED
  BY <1>1, <1>2

\* However batches are halved, fail and are repeated, and whatever was cached, a call returns
\* what direct calls would have, and believes no failure that was not seen alone (call,
\* _call_chunk).
THEOREM BatchedAsDirect == ReadsSpec => []ReturnedAsDirect
<1>1. BatchInv => ReturnedAsDirect
  BY BatchDirect
<1> QED
  BY <1>1, BatchInductive, PTL DEF ReadsSpec

\* The assertion of call holds for requests without repeats; for those with one it does not
\* (the run on repeated reads).
THEOREM DistinctRequestsFilled ==
    ASSUME Distinct
    PROVE  ReadsSpec => []EveryPlaceFilled
<1>1. BatchInv => EveryPlaceFilled
  BY DEF BatchInv
<1> QED
  BY <1>1, BatchInductive, PTL DEF ReadsSpec
=============================================================================
