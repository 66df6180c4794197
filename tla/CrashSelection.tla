---------------------------- MODULE CrashSelection ----------------------------
(***************************************************************************)
(* select_binance_crashes.py: archives of candles are downloaded with their *)
(* checksums and kept; the hours with the deepest falls are selected, days *)
(* apart from each other; the minutes around each and the selection are    *)
(* written.  An archive may be issued again between two requests or runs,  *)
(* and a run may end anywhere.                                             *)
(*                                                                         *)
(* An archive holds one hour, and is told by its edition.                  *)
(***************************************************************************)
EXTENDS Integers, FiniteSets, SequencesExt

CONSTANTS Hours,           \* openTime of the universe
          DayOf,           \* the date of an hour
          Drop,            \* Drop[edition][hour]: dropPct
          Separation, Count,    \* min_separation_days, crash_count
          MaxIssue, MaxSelections   \* bounds: editions; runs

SelectionAssumption ==
    /\ Hours \subseteq Nat /\ IsFiniteSet(Hours)
    /\ DayOf \in [Hours -> Nat] /\ Drop \in [1 .. MaxIssue -> [Hours -> Nat]]
    /\ {Separation, Count, MaxIssue} \subseteq Nat \ {0} /\ MaxSelections \in Nat

VARIABLES issued,      \* the edition data.binance.vision has of each archive
          archive,     \* the file, and
          checksum,    \*   its .CHECKSUM
          stage, hour, \* where the run is, and with which archive
          content,     \* downloaded
          universe,    \* the editions it goes by
          selection,   \* selection.json: the hours, in order
          minutes,     \* the hours of the minute files, by crash
          selections

selectionVars == <<issued, archive, checksum, stage, hour, content, universe, selection, minutes,
                   selections>>

Missing == 0
Torn == MaxIssue + 1       \* an archive, cut off
Cut == MaxIssue + 2        \* a checksum, cut off
Blank == MaxIssue + 3      \* or without a word
NoUniverse == [h \in Hours |-> Missing]

Init ==
    /\ issued = [h \in Hours |-> 1] /\ archive = NoUniverse /\ checksum = NoUniverse
    /\ stage = "idle" /\ hour = 0 /\ content = Missing /\ universe = NoUniverse
    /\ selection = <<>> /\ minutes = <<>> /\ selections = 0
-----------------------------------------------------------------------------
Select ==
    /\ stage = "idle" /\ selections < MaxSelections /\ selections' = selections + 1
    /\ stage' = "load" /\ universe' = NoUniverse
    /\ UNCHANGED <<issued, archive, checksum, hour, content, selection, minutes>>

\* download_with_sha256: the file has the checksum beside it.
Cached(h) == archive[h] # Missing /\ archive[h] = checksum[h]

\* load_universe_1h_candles, one archive after the other.
Load(h) ==
    /\ stage = "load" /\ universe[h] = Missing
    /\ \A g \in Hours : g < h => universe[g] # Missing
    /\ hour' = h
    /\ \/ /\ checksum[h] = Blank                 \* split()[0] raises
          /\ stage' = "idle" /\ UNCHANGED <<content, universe>>
       \/ /\ Cached(h)
          /\ universe' = [universe EXCEPT ![h] = archive[h]] /\ UNCHANGED <<stage, content>>
       \/ /\ checksum[h] # Blank /\ ~Cached(h)
          /\ stage' = "verify" /\ content' = issued[h] /\ UNCHANGED universe
    /\ UNCHANGED <<issued, archive, checksum, selection, minutes, selections>>

\* The checksum is another request; what matches is written, the file first.
Verify ==
    /\ stage = "verify"
    /\ IF content = issued[hour]
       THEN stage' = "store" /\ archive' = [archive EXCEPT ![hour] = content]
       ELSE stage' = "idle" /\ UNCHANGED archive
    /\ UNCHANGED <<issued, checksum, hour, content, universe, selection, minutes, selections>>

Store ==
    /\ stage = "store"
    /\ checksum' = [checksum EXCEPT ![hour] = content]
    /\ universe' = [universe EXCEPT ![hour] = content]
    /\ stage' = "load"
    /\ UNCHANGED <<issued, archive, hour, content, selection, minutes, selections>>

DropOf(h) == Drop[universe[h]][h]

\* Which hour comes before which: by the fall, by the time.
Deeper == {pair \in Hours \X Hours :
              \/ DropOf(pair[1]) > DropOf(pair[2])
              \/ DropOf(pair[1]) = DropOf(pair[2]) /\ pair[1] < pair[2]}
Earlier == {pair \in Hours \X Hours : pair[1] < pair[2]}

\* The place of an hour is told by how many come before it.
Preceding(S, order, h) == {g \in S : <<g, h>> \in order}
Sorted(S, order) ==
    [n \in 1 .. Cardinality(S) |->
        CHOOSE h \in S : Cardinality(Preceding(S, order, h)) = n - 1]

Days(g, h) == IF DayOf[g] < DayOf[h] THEN DayOf[h] - DayOf[g] ELSE DayOf[g] - DayOf[h]

\* Mutant: only the one selected last has to be far enough.
GreedyFromLast ==
    FoldLeft(LAMBDA taken, h :
                 IF Len(taken) < Count /\ (taken # <<>> => Days(Last(taken), h) >= Separation)
                 THEN Append(taken, h) ELSE taken,
             <<>>, Sorted(Hours, Deeper))

Admit(taken, h) ==
    IF Len(taken) < Count /\ \A n \in DOMAIN taken : Days(taken[n], h) >= Separation
      THEN Append(taken, h) ELSE taken

\* rank_and_select_clusters, before the chronological order.
Greedy == FoldLeft(Admit, <<>>, Sorted(Hours, Deeper))

Rank ==
    /\ stage = "load" /\ \A h \in Hours : universe[h] # Missing
    /\ stage' = IF Len(Greedy) = Count THEN "minutes" ELSE "idle"
    /\ UNCHANGED <<issued, archive, checksum, hour, content, universe, selection, minutes, selections>>

Chosen == Sorted({Greedy[n] : n \in DOMAIN Greedy}, Earlier)

\* build_selection_and_minute_artifacts: the files of each crash (its trough and
\* the candles of the day around it), and selection.json at the end.
WriteMinutes ==
    /\ stage = "minutes" /\ minutes' = Chosen /\ stage' = "select"
    /\ UNCHANGED <<issued, archive, checksum, hour, content, universe, selection, selections>>

WriteSelection ==
    /\ stage = "select" /\ selection' = Chosen /\ stage' = "idle"
    /\ UNCHANGED <<issued, archive, checksum, hour, content, universe, minutes, selections>>

\* Killed, in the middle of a write too: files are not replaced but overwritten.
Dies ==
    /\ stage # "idle" /\ stage' = "idle"
    /\ \/ UNCHANGED <<archive, checksum>>
       \/ stage = "verify" /\ archive' = [archive EXCEPT ![hour] = Torn] /\ UNCHANGED checksum
       \/ /\ stage = "store" /\ UNCHANGED archive
          /\ \E cut \in {Cut, Blank} : checksum' = [checksum EXCEPT ![hour] = cut]
    /\ UNCHANGED <<issued, hour, content, universe, selection, minutes, selections>>

Reissue(h) ==
    /\ issued[h] < MaxIssue /\ issued' = [issued EXCEPT ![h] = @ + 1]
    /\ UNCHANGED <<archive, checksum, stage, hour, content, universe, selection, minutes, selections>>

Next ==
    \/ Select \/ Verify \/ Store \/ Rank \/ WriteMinutes \/ WriteSelection \/ Dies
    \/ \E h \in Hours : Load(h) \/ Reissue(h)

Spec == Init /\ [][Next]_selectionVars
-----------------------------------------------------------------------------
\* Nothing is selected from a file that is torn or was not verified, whatever
\* ended earlier runs (download_with_sha256).  The selected hours are days
\* apart, in order; an hour that was passed over for one that falls less is too
\* close to one that falls as deep ("greedily select candidate hours with trough
\* dates >= 7 days apart", select_binance_crashes.py:650).
SelectionDeepest ==
    /\ \A h \in Hours : universe[h] # Torn
    /\ stage = "select" =>
        LET chosen == {minutes[n] : n \in DOMAIN minutes} IN
        /\ Cardinality(chosen) = Count
        /\ \A m, n \in DOMAIN minutes : m < n => minutes[m] < minutes[n]
        /\ \A g, h \in chosen : g # h => Days(g, h) >= Separation
        /\ \A h \in Hours \ chosen :
              \/ \A g \in chosen : DropOf(g) >= DropOf(h)
              \/ \E g \in chosen : DropOf(g) >= DropOf(h) /\ Days(g, h) < Separation
=============================================================================
