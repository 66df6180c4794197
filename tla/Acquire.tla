------------------------------- MODULE Acquire -------------------------------
(***************************************************************************)
(* acquire (universe.py): the independent reads of every pool, then the    *)
(* reads that depend on them, each wave through SnapshotStore.extend, until *)
(* no adapter asks for more.  Processes acquire different sets of pools at *)
(* one block, die and are started again.                                   *)
(*                                                                         *)
(* An adapter is the sequence of its waves of reads, as the LitePSM's two  *)
(* and Uniswap V3's three; Failed are the calls whose result is a failure. *)
(***************************************************************************)
EXTENDS SnapshotStore, Sequences

CONSTANTS Pools,
          Wave,          \* Wave[p][k]: reads of pool p known after k-1 waves
          Inactive,      \* pools activation_reason or read_requests refuses
          Failed,
          Hints,         \* sets of specs to prefetch
          MaxPhases      \* max_phases

ASSUME AcquireAssumption ==
    /\ Wave \in [Pools -> Seq(SUBSET Specs)]
    /\ Inactive \subseteq Pools
    /\ Failed \subseteq Specs
    /\ Hints \subseteq SUBSET Specs
    /\ MaxPhases \in Nat \ {0}
    \* The adapters of the repository need at most four of the six phases.
    /\ \A p \in Pools : Len(Wave[p]) \in 1 .. MaxPhases

VARIABLES pc,         \* "idle", "extending", "planning", "acquired", "raised"
          records,    \* the pools asked for
          failures,   \* pools excluded so far
          phases,
          snapshot    \* as the last extend returned it

vars == <<store, pc, records, failures, phases, snapshot>>

AtRest == {"idle", "acquired", "raised"}

TypeOK ==
    /\ StoreTypeOK
    /\ pc \in [Processes -> AtRest \cup {"extending", "planning"}]
    /\ records \in [Processes -> SUBSET Pools]
    /\ failures \in [Processes -> SUBSET Pools]
    /\ \A p \in Processes : failures[p] \subseteq records[p]
    /\ phases \in [Processes -> 0 .. MaxPhases]
    /\ snapshot \in [Processes -> SUBSET Specs]

Init ==
    /\ StoreInit
    /\ pc = [p \in Processes |-> "idle"]
    /\ records = [p \in Processes |-> {}]
    /\ failures = [p \in Processes |-> {}]
    /\ phases = [p \in Processes |-> 0]
    /\ snapshot = [p \in Processes |-> {}]
-----------------------------------------------------------------------------
\* Waves of which the snapshot lacks a read.
Open(r, snap) == {k \in DOMAIN Wave[r] : ~(Wave[r][k] \subseteq snap)}

First(ks) == CHOOSE k \in ks : \A j \in ks : k <= j

\* dependent_requests: nothing before the first wave has landed, then what is
\* missing of the next one.
DependentRequests(r, snap) ==
    LET open == Open(r, snap) IN
    IF open = {} \/ 1 \in open THEN {} ELSE Wave[r][First(open)] \ snap

\* It raises Unsupported when a read it builds on failed; dependent_requests
\* reads nothing but the waves before the one it asks for.
Unsupported(r, snap) ==
    LET open == Open(r, snap) IN
    /\ 1 \notin open
    /\ \E k \in 1 .. Len(Wave[r]) - 1 :
          (\A j \in open : k < j) /\ Wave[r][k] \cap Failed # {}

Begin(p, wanted) == extend' = [extend EXCEPT ![p] = Extending(p, wanted)]

\* Mutant: pools of the inventory nobody asked for are reported too.
StartReportingAll(p) ==
    \E asked \in SUBSET Pools, hints \in Hints :
       /\ pc[p] \in AtRest
       /\ records' = [records EXCEPT ![p] = asked]
       /\ failures' = [failures EXCEPT ![p] = Inactive]
       /\ Begin(p, hints \cup UNION {Wave[r][1] : r \in asked \ Inactive})
       /\ phases' = [phases EXCEPT ![p] = 0]
       /\ snapshot' = [snapshot EXCEPT ![p] = {}]
       /\ pc' = [pc EXCEPT ![p] = "extending"]
       /\ UNCHANGED <<header, calls, tmp, content>>

Start(p) ==
    \E asked \in SUBSET Pools, hints \in Hints :
       /\ pc[p] \in AtRest
       /\ records' = [records EXCEPT ![p] = asked]
       /\ failures' = [failures EXCEPT ![p] = asked \cap Inactive]
       /\ Begin(p, hints \cup UNION {Wave[r][1] : r \in asked \ Inactive})
       /\ phases' = [phases EXCEPT ![p] = 0]
       /\ snapshot' = [snapshot EXCEPT ![p] = {}]
       /\ pc' = [pc EXCEPT ![p] = "extending"]
       /\ UNCHANGED <<header, calls, tmp, content>>

Extend(p) ==
    /\ pc[p] = "extending"
    /\ ExtendStep(p)
    /\ UNCHANGED <<pc, records, failures, phases, snapshot>>

Extended(p) ==
    /\ pc[p] = "extending" /\ extend[p].at = "returned"
    /\ snapshot' = [snapshot EXCEPT ![p] = extend[p].rows]
    /\ phases' = [phases EXCEPT ![p] = @ + 1]
    /\ extend' = [extend EXCEPT ![p] = Idle]
    /\ pc' = [pc EXCEPT ![p] = "planning"]
    /\ UNCHANGED <<header, calls, tmp, content, records, failures>>

Raised(p) ==
    /\ pc[p] = "extending" /\ extend[p].at = "raised"
    /\ extend' = [extend EXCEPT ![p] = Idle]
    /\ pc' = [pc EXCEPT ![p] = "raised"]
    /\ UNCHANGED <<header, calls, tmp, content, records, failures, phases, snapshot>>

FailuresNow(p) ==
    failures[p] \cup {r \in records[p] \ failures[p] : Unsupported(r, snapshot[p])}

More(p) ==
    UNION {DependentRequests(r, snapshot[p]) : r \in records[p] \ FailuresNow(p)}

\* Mutant: the last phase is not used.
PlanShort(p) ==
    /\ pc[p] = "planning"
    /\ \/ /\ phases[p] + 1 < MaxPhases
          /\ failures' = [failures EXCEPT ![p] = FailuresNow(p)]
          /\ \/ More(p) = {} /\ pc' = [pc EXCEPT ![p] = "acquired"] /\ UNCHANGED extend
             \/ More(p) # {} /\ pc' = [pc EXCEPT ![p] = "extending"] /\ Begin(p, More(p))
       \/ /\ phases[p] + 1 >= MaxPhases
          /\ pc' = [pc EXCEPT ![p] = "acquired"]
          /\ UNCHANGED <<failures, extend>>
    /\ UNCHANGED <<header, calls, tmp, content, records, phases, snapshot>>

\* while phases < max_phases: ask every adapter that has not failed.
Plan(p) ==
    /\ pc[p] = "planning"
    /\ \/ /\ phases[p] < MaxPhases
          /\ failures' = [failures EXCEPT ![p] = FailuresNow(p)]
          /\ \/ More(p) = {} /\ pc' = [pc EXCEPT ![p] = "acquired"] /\ UNCHANGED extend
             \/ More(p) # {} /\ pc' = [pc EXCEPT ![p] = "extending"] /\ Begin(p, More(p))
       \/ /\ phases[p] >= MaxPhases
          /\ pc' = [pc EXCEPT ![p] = "acquired"]
          /\ UNCHANGED <<failures, extend>>
    /\ UNCHANGED <<header, calls, tmp, content, records, phases, snapshot>>

\* The process is killed; its files stay as they are.
Crash(p) ==
    /\ pc[p] \in {"extending", "planning"}
    /\ extend' = [extend EXCEPT ![p] = Idle]
    /\ pc' = [pc EXCEPT ![p] = "idle"]
    /\ UNCHANGED <<header, calls, tmp, content, records, failures, phases, snapshot>>
-----------------------------------------------------------------------------
AcquireStep(p) == Extend(p) \/ Extended(p) \/ Raised(p) \/ Plan(p)

Next == \E p \in Processes : Start(p) \/ AcquireStep(p) \/ Crash(p)

Spec == Init /\ [][Next]_vars

\* A process that is not killed runs on; Multicall3.call ends (CallEnds).
FairSpec == Spec /\ \A p \in Processes : WF_vars(AcquireStep(p))
-----------------------------------------------------------------------------
\* "Phase-1 independent reads, then dependent reads until every adapter is
\* satisfied" (universe.py:172): a pool that is not reported as a failure has
\* every read load_state will look for in the snapshot returned.
AcquiredIsComplete ==
    \A p \in Processes : pc[p] = "acquired" =>
        \A r \in records[p] \ failures[p] :
           \A k \in DOMAIN Wave[r] : Wave[r][k] \subseteq snapshot[p]

\* What SnapshotStore.load would find now.
Published == IF Stored /\ content[calls].complete THEN content[calls].rows ELSE {}

\* What was acquired can be loaded again offline, by any later process.
AcquiredIsStored ==
    \A p \in Processes : pc[p] = "acquired" => snapshot[p] \subseteq Published

\* Across extensions, failures and crashes at any point the stored snapshot
\* only grows: no published call is lost and no half-written file takes its
\* place.
PublishedNeverShrinks == [][Published \subseteq Published']_vars

\* An acquisition ends.
AcquireEnds ==
    \A p \in Processes : pc[p] \in {"extending", "planning"} ~> pc[p] \in AtRest
=============================================================================
