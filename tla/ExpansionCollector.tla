------------------------- MODULE ExpansionCollector -------------------------
(***************************************************************************)
(* october_expansion_collect.py: processes fill one directory with the     *)
(* snapshot and the records of every block of a window.  Each seeds the    *)
(* pinned blocks from earlier evidence, which may be part of what a block  *)
(* needs, lists what is missing, waits for the RPC lock, collects, and     *)
(* says in the manifest what there is.  Seeding is outside the lock.       *)
(*                                                                         *)
(* A block is the set of its reads in calls.json.gz; the pools' states load *)
(* if all of them are there.  The seeder writes header.json in place; calls *)
(* and records are replaced through temporaries of one name, so processes  *)
(* that write those of one block at one time spoil each other's.  The waves *)
(* of one acquisition are SnapshotStore's: here it loads once and          *)
(* publishes once, its header with its calls.                              *)
(***************************************************************************)
EXTENDS Naturals, FiniteSets

CONSTANTS Collectors,     \* processes
          Window,         \* the blocks, numbered in their order
          Reads,          \* of one block
          Evidence,       \* Evidence[b]: reads of pin b found in source-expansion
          MaxBlocks,      \* values of max_blocks, 0 standing for None
          MaxStarts, MaxFaults,   \* bounds: runs; failures and crashes
          None

ExpansionAssumption ==
    /\ Window \subseteq Nat /\ IsFiniteSet(Window)
    /\ \A b \in DOMAIN Evidence : b \in Window /\ Evidence[b] \subseteq Reads
    /\ MaxBlocks \subseteq Nat /\ {MaxStarts, MaxFaults} \subseteq Nat
    /\ None \notin Collectors

VARIABLES stored,     \* stored[b]: reads in calls.json.gz of b
          torn,       \* torn[b]: files of b's snapshot that cannot be read to the end
          listed,     \* blocks with a records file
          manifest,   \* status in collection_manifest.json
          exposed,    \* history: blocks that another process had in hand when they
                      \* were found collected for that manifest
          flock,      \* holder of the RPC lock
          proc,       \* the processes
          starts, faults

expansionVars == <<stored, torn, listed, manifest, exposed, flock, proc, starts, faults>>

Pins == DOMAIN Evidence
Quiet == {"idle", "returned", "raised"}
Processes == [at : Quiet \cup {"pin", "seed", "header", "calls", "records", "survey", "lock",
                               "collect", "validate"},
              pins : SUBSET Window,      \* pins still to look at
              left : SUBSET Window,      \* blocks still to look at
              pending : SUBSET Window,   \* pending_blocks, and missing of the validation
              rows : SUBSET Reads,       \* what it writes to calls.json.gz
              mixed : BOOLEAN,           \* another has written the same temporary
              exposed : SUBSET Window,   \* history, see above
              limit : MaxBlocks \cup {0}, seedOnly : BOOLEAN]
Rest == [at |-> "idle", pins |-> {}, left |-> {}, pending |-> {}, rows |-> {}, mixed |-> FALSE,
         exposed |-> {}, limit |-> 0, seedOnly |-> FALSE]

\* is_block_collected: records and snapshot are those of the block, and every
\* state loads.
IsCollected(b) == b \in listed /\ stored[b] = Reads /\ torn[b] = {}

\* It catches BadGzipFile and JSONDecodeError, but not the EOFError of a stream
\* that ends too early.
LookRaises(b) == b \in listed /\ torn[b] = {"calls"}

TypeOK ==
    /\ stored \in [Window -> SUBSET Reads] /\ listed \subseteq Window
    /\ torn \in [Window -> SUBSET {"header", "calls"}]
    /\ manifest \in {"none", "partial", "complete"} /\ exposed \subseteq Window
    /\ flock \in Collectors \cup {None}
    /\ proc \in [Collectors -> Processes]
    /\ starts \in 0 .. MaxStarts /\ faults \in 0 .. MaxFaults

Init ==
    /\ stored = [b \in Window |-> {}] /\ torn = [b \in Window |-> {}] /\ listed = {}
    /\ manifest = "none" /\ exposed = {} /\ flock = None
    /\ proc = [p \in Collectors |-> Rest]
    /\ starts = 0 /\ faults = 0
-----------------------------------------------------------------------------
At(p, place) == proc[p].at = place
Go(p, place) == proc' = [proc EXCEPT ![p].at = place]
Lowest(s) == CHOOSE b \in s : \A c \in s : b <= c
FirstOf(s, n) == {b \in s : Cardinality({c \in s : c < b}) < n}
Snapshots == <<stored, torn>>
Status == <<manifest, exposed>>
Files == <<Snapshots, listed, Status>>
Counts == <<starts, faults>>
Fault == faults < MaxFaults /\ faults' = faults + 1

\* The block a process is at: a pin while it seeds, else one that is pending.
Seeding(p) == proc[p].pins # {}
Block(p) == Lowest(IF Seeding(p) THEN proc[p].pins ELSE proc[p].pending)

\* A process that has settled what it writes of b before it looks at b again.
InHand(p, b) ==
    /\ proc[p].at \in {"seed", "header", "calls", "records"} /\ Block(p) = b
    /\ At(p, "records") => Seeding(p) \/ proc[p].mixed

\* Those who write the temporary that p writes at this place.
Rivals(p, place) == {q \in Collectors \ {p} : At(q, place) /\ Block(q) = Block(p)}

\* p begins to write a temporary: whoever has it open already, and p, write a mixture.
Begin(p, place, rows) ==
    proc' = [q \in Collectors |->
        IF q = p THEN [proc[p] EXCEPT !.at = place, !.rows = rows,
                                      !.mixed = (Rivals(p, place) # {})]
        ELSE [proc[q] EXCEPT !.mixed = @ \/ q \in Rivals(p, place)]]

\* An exception ends the run and lets go of the lock.
Raise(p) ==
    /\ proc' = [proc EXCEPT ![p] = [Rest EXCEPT !.at = "raised"]]
    /\ flock' = IF flock = p THEN None ELSE flock

\* main, and load_october_blocks.
Start(p, limit, seedOnly) ==
    /\ proc[p].at \in Quiet /\ starts < MaxStarts /\ starts' = starts + 1
    /\ proc' = [proc EXCEPT ![p] = [Rest EXCEPT !.at = "pin", !.pins = Pins, !.limit = limit,
                                                !.seedOnly = seedOnly]]
    /\ UNCHANGED <<Files, flock, faults>>
-----------------------------------------------------------------------------
\* seed_pinned_evidence, outside the lock.

\* Mutant: the evidence replaces what there is of a pin, collected or not.
LookAtPinAlways(p) ==
    /\ At(p, "pin") /\ Seeding(p)
    /\ Go(p, "seed")
    /\ UNCHANGED <<Files, flock, Counts>>

\* A pin that is collected, or has no evidence, is left alone.
LookAtPin(p) ==
    /\ At(p, "pin") /\ Seeding(p)
    /\ LET b == Block(p) IN
       \/ LookRaises(b) /\ Raise(p)
       \/ /\ IF IsCollected(b) \/ Evidence[b] = {}
               THEN proc' = [proc EXCEPT ![p].pins = @ \ {b}]
               ELSE Go(p, "seed")
          /\ UNCHANGED flock
    /\ UNCHANGED <<Files, Counts>>

\* header_path.write_text truncates the file, ...
TruncateHeader(p) ==
    /\ At(p, "seed")
    /\ torn' = [torn EXCEPT ![Block(p)] = @ \cup {"header"}]
    /\ Go(p, "header")
    /\ UNCHANGED <<stored, listed, Status, flock, Counts>>

\* ... and writes it; next are the calls.
WriteHeader(p) ==
    /\ At(p, "header")
    /\ torn' = [torn EXCEPT ![Block(p)] = @ \ {"header"}]
    /\ Begin(p, "calls", Evidence[Block(p)])
    /\ UNCHANGED <<stored, listed, Status, flock, Counts>>

Seeded(p) ==
    /\ At(p, "pin") /\ ~Seeding(p)
    /\ IF proc[p].seedOnly THEN Go(p, "returned")
       ELSE proc' = [proc EXCEPT ![p].at = "survey", ![p].left = Window]
    /\ UNCHANGED <<Files, flock, Counts>>
-----------------------------------------------------------------------------
\* calls.json.gz.tmp and its replacement, of a seeder and of a collector.
Replaced(p) ==
    /\ stored' = [stored EXCEPT ![Block(p)] = proc[p].rows]
    /\ torn' = [torn EXCEPT ![Block(p)] = IF Seeding(p) THEN @ \ {"calls"} ELSE {}]
Spoilt(p) ==
    /\ torn' = [torn EXCEPT ![Block(p)] = @ \cup {"calls"}]
    /\ UNCHANGED stored

\* Of a temporary that is mixed what is published may be spoilt, or another may
\* have moved it, and replace raises.  A collection that has failed raises after
\* it has published what was read.
PublishCalls(p) ==
    /\ At(p, "calls")
    /\ \/ /\ Replaced(p) \/ (proc[p].mixed /\ Spoilt(p))
          /\ IF Seeding(p) \/ proc[p].rows = Reads
               THEN Begin(p, "records", {}) /\ UNCHANGED flock
               ELSE Raise(p)
       \/ /\ proc[p].mixed
          /\ Replaced(p) \/ Spoilt(p) \/ UNCHANGED Snapshots
          /\ Raise(p)
    /\ UNCHANGED <<listed, Status, Counts>>

\* The records, of which each process writes the same; a seeder looks at the pin
\* once more.
WriteRecords(p) ==
    /\ At(p, "records")
    /\ LET b == Block(p)
           done == [proc[p] EXCEPT !.mixed = FALSE, !.at = IF Seeding(p) THEN "pin" ELSE "collect",
                       !.pins = @ \ {b}, !.pending = @ \ {b}] IN
       \/ /\ listed' = listed \cup {b} \/ (proc[p].mixed /\ listed' = listed \ {b})
          /\ proc' = [proc EXCEPT ![p] = done]
          /\ UNCHANGED flock
       \/ Seeding(p) /\ torn[b] = {"calls"} /\ listed' = listed \cup {b} /\ Raise(p)
       \/ proc[p].mixed /\ listed' \in {listed, listed \cup {b}, listed \ {b}} /\ Raise(p)
    /\ UNCHANGED <<Snapshots, Status, Counts>>
-----------------------------------------------------------------------------
\* pending_blocks, before the lock is asked for, and the validation of all blocks
\* at the end: one after the other.
LookAtBlock(p) ==
    /\ proc[p].at \in {"survey", "validate"} /\ proc[p].left # {}
    /\ LET b == Lowest(proc[p].left) IN
       \/ LookRaises(b) /\ Raise(p)
       \/ /\ proc' = [proc EXCEPT
                ![p].left = @ \ {b},
                ![p].pending = IF IsCollected(b) THEN @ ELSE @ \cup {b},
                ![p].exposed = IF At(p, "validate") /\ \E q \in Collectors : InHand(q, b)
                               THEN @ \cup {b} ELSE @]
          /\ UNCHANGED flock
    /\ UNCHANGED <<Files, Counts>>

Surveyed(p) ==
    /\ At(p, "survey") /\ proc[p].left = {}
    /\ LET missing == proc[p].pending IN
       proc' = IF missing = {}
               THEN [proc EXCEPT ![p].at = "validate", ![p].left = Window]
               ELSE [proc EXCEPT ![p].at = "lock",
                        ![p].pending = IF proc[p].limit = 0 THEN missing
                                       ELSE FirstOf(missing, proc[p].limit)]
    /\ UNCHANGED <<Files, flock, Counts>>

RpcLock(p) ==
    /\ At(p, "lock") /\ flock = None
    /\ flock' = p
    /\ Go(p, "collect")
    /\ UNCHANGED <<Files, Counts>>

\* collect_block: acquire loads what is stored, and raises if it cannot be read;
\* with nothing missing nothing is written.  Reads may fail, all or some.
Load(p) ==
    /\ At(p, "collect") /\ proc[p].pending # {}
    /\ LET b == Block(p) IN
       \/ torn[b] # {} /\ Raise(p) /\ UNCHANGED faults
       \/ /\ torn[b] = {}
          /\ IF stored[b] = Reads THEN Begin(p, "records", {}) ELSE Begin(p, "calls", Reads)
          /\ UNCHANGED <<flock, faults>>
       \/ /\ torn[b] = {} /\ stored[b] # Reads /\ Fault
          /\ \/ Raise(p)
             \/ /\ \E more \in SUBSET Reads \ {Reads} : Begin(p, "calls", stored[b] \cup more)
                /\ UNCHANGED flock
    /\ UNCHANGED <<Files, starts>>

Release(p) ==
    /\ At(p, "collect") /\ proc[p].pending = {}
    /\ flock' = None
    /\ proc' = [proc EXCEPT ![p].at = "validate", ![p].left = Window]
    /\ UNCHANGED <<Files, Counts>>

\* A run without a limit raises over a gap.
Validate(p) ==
    /\ At(p, "validate") /\ proc[p].left = {}
    /\ IF proc[p].pending # {} /\ proc[p].limit = 0
       THEN Raise(p) /\ UNCHANGED Status
       ELSE /\ manifest' = IF proc[p].pending = {} THEN "complete" ELSE "partial"
            /\ exposed' = proc[p].exposed
            /\ proc' = [proc EXCEPT ![p] = [Rest EXCEPT !.at = "returned"]]
            /\ UNCHANGED flock
    /\ UNCHANGED <<Snapshots, listed, Counts>>

\* Killed: the kernel drops the lock.
Crash(p) ==
    /\ proc[p].at \notin Quiet
    /\ proc' = [proc EXCEPT ![p] = Rest]
    /\ flock' = IF flock = p THEN None ELSE flock
    /\ Fault
    /\ UNCHANGED <<Files, starts>>

ProcessStep(p) ==
    \/ LookAtPin(p) \/ TruncateHeader(p) \/ WriteHeader(p) \/ Seeded(p)
    \/ PublishCalls(p) \/ WriteRecords(p) \/ LookAtBlock(p) \/ Surveyed(p)
    \/ RpcLock(p) \/ Load(p) \/ Release(p) \/ Validate(p)

Next == \E p \in Collectors :
    \/ ProcessStep(p) \/ Crash(p)
    \/ \E limit \in MaxBlocks, seedOnly \in BOOLEAN : Start(p, limit, seedOnly)

Fairness == \A p \in Collectors : WF_expansionVars(ProcessStep(p))
Spec == Init /\ [][Next]_expansionVars /\ Fairness
-----------------------------------------------------------------------------
\* Once the manifest says that all blocks are collected they are, and they remain
\* so (is_block_collected, collect_expansion), whatever other processes seed,
\* collect, fail at and leave half written in the directory.  With one exception:
\* a block that another process had in hand, found missing and not yet written,
\* when it was found collected for this manifest.  Seeding takes no lock
\* (seed_pinned_evidence), so that process may write partial evidence over it.
CompleteManifestTrue == manifest = "complete" => \A b \in Window \ exposed : IsCollected(b)
=============================================================================
