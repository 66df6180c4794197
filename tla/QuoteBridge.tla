----------------------------- MODULE QuoteBridge -----------------------------
(***************************************************************************)
(* QuoteBridge (web_api.py) over quote_command and its caches (cli.py).    *)
(* Every request has a thread.  It names its answer by the inventories and *)
(* the snapshot it finds, and if there is no such answer asks the solver,  *)
(* one thread at a time.  Meanwhile other programs rewrite the inventories *)
(* and extend the snapshot of the block.                                   *)
(*                                                                         *)
(* An identity is the edition it was computed from, content the edition it *)
(* was read from.  One block, one choice of sources; the code's identity   *)
(* stands still.  A value read and filed in one statement is one step.     *)
(***************************************************************************)
EXTENDS Naturals, Sequences

CONSTANTS Threads,        \* of ThreadingHTTPServer
          Requests,       \* quotes asked for
          Limit,          \* PREPARED_CONTEXT_LIMIT
          MaxEdition, MaxSnapshot,   \* bounds: editions of inventories and snapshot
          MaxRequests,    \* bound: requests received
          MaxRestarts,    \* bound: restarts of the server
          None

ASSUME QuoteBridgeAssumption ==
    /\ {Limit, MaxEdition, MaxSnapshot} \subseteq Nat \ {0}
    /\ {MaxRequests, MaxRestarts} \subseteq Nat
    /\ None \notin Threads /\ Requests # {}

VARIABLES
    edition,    \* of data/discovery/1/*.json
    snapshot,   \* of the block's header.json and calls.json.gz
    answers,    \* quotes/<key>.json: what the report was made of
    parsed,     \* _PARSED_INVENTORIES, oldest first
    contexts,   \* _PREPARED_CONTEXTS, oldest first
    lock,       \* holder of _solver_lock
    call,       \* what each thread is doing
    received, restarts

bridgeVars == <<edition, snapshot, answers, parsed, contexts, lock, call, received, restarts>>

Editions == 0 .. MaxEdition
Snapshots == 0 .. MaxSnapshot
Sources == [inventory : Editions, snapshot : Snapshots]
Nothing == [inventory |-> 0, snapshot |-> 0]
Keys == [request : Requests, inventory : Editions, snapshot : Snapshots]

Quiet == {"idle", "answered", "refused", "dropped"}
Calls ==
    [at : Quiet \cup {"identify", "parse", "touch", "key", "find", "lock", "recheck",
                      "prepare", "build", "rekey", "solve", "release"},
     request : Requests,
     since : Editions,       \* history: the inventories when the request arrived
     key : Keys,             \* _cache_key
     inventory : Editions,   \* inventory_id
     content : Editions,     \* inventories
     made : Sources,         \* what the context, then the report, is made of
     result : Quiet]

Free(q) == [at |-> "idle", request |-> q, since |-> 0, inventory |-> 0, content |-> 0,
            key |-> [request |-> q, inventory |-> 0, snapshot |-> 0],
            made |-> Nothing, result |-> "idle"]
-----------------------------------------------------------------------------
\* OrderedDict, as a sequence of its items.
Has(cache, k) == \E i \in DOMAIN cache : cache[i].key = k
Get(cache, k) == cache[CHOOSE i \in DOMAIN cache : cache[i].key = k].value
Put(cache, k, v) ==
    IF Has(cache, k)
    THEN [i \in DOMAIN cache |-> IF cache[i].key = k THEN [key |-> k, value |-> v] ELSE cache[i]]
    ELSE Append(cache, [key |-> k, value |-> v])
Touched(cache, k) ==
    LET i == CHOOSE i \in DOMAIN cache : cache[i].key = k
    IN SubSeq(cache, 1, i - 1) \o SubSeq(cache, i + 1, Len(cache)) \o <<cache[i]>>
\* Mutant: the caches grow.
Untrimmed(cache) == cache

Trimmed(cache) ==
    IF Len(cache) > Limit THEN SubSeq(cache, Len(cache) - Limit + 1, Len(cache)) ELSE cache

TypeOK ==
    /\ edition \in Editions /\ snapshot \in Snapshots
    /\ answers \in [Keys -> Sources]
    /\ \A i \in DOMAIN parsed : parsed[i] \in [key : Editions, value : Editions]
    /\ \A i \in DOMAIN contexts : contexts[i] \in [key : Sources, value : Sources]
    /\ Len(parsed) <= Limit /\ Len(contexts) <= Limit
    /\ lock \in Threads \cup {None}
    /\ call \in [Threads -> Calls]
    /\ received \in 0 .. MaxRequests /\ restarts \in 0 .. MaxRestarts

Init ==
    /\ edition = 1 /\ snapshot = 1
    /\ answers = [k \in Keys |-> Nothing]
    /\ parsed = <<>> /\ contexts = <<>>
    /\ lock = None
    /\ call = [t \in Threads |-> Free(CHOOSE q \in Requests : TRUE)]
    /\ received = 0 /\ restarts = 0
-----------------------------------------------------------------------------
At(t, place) == call[t].at = place
Ended(t, result, made) ==
    [Free(call[t].request) EXCEPT !.at = result, !.since = call[t].since, !.made = made]
Solving(t) == lock = t

\* parse_request: the fields and the cached header of the block.
Receive(t, q) ==
    /\ call[t].at \in Quiet
    /\ received < MaxRequests /\ received' = received + 1
    /\ \E at \in {"identify", "refused"} :
          call' = [call EXCEPT ![t] = [Free(q) EXCEPT !.at = at, !.since = edition]]
    /\ UNCHANGED <<edition, snapshot, answers, parsed, contexts, lock, restarts>>

\* Mutant: parsed inventories are used as long as they are there.
IdentifyOnce(t) ==
    /\ At(t, "identify")
    /\ call' = [call EXCEPT ![t].at = "parse",
                            ![t].inventory = IF parsed = <<>> THEN edition
                                             ELSE parsed[Len(parsed)].key]
    /\ UNCHANGED <<edition, snapshot, answers, parsed, contexts, lock, received, restarts>>

\* _inventory_inputs: the identity of the files, ...
Identify(t) ==
    /\ At(t, "identify")
    /\ call' = [call EXCEPT ![t].at = "parse", ![t].inventory = edition]
    /\ UNCHANGED <<edition, snapshot, answers, parsed, contexts, lock, received, restarts>>

AfterInputs(t) == IF Solving(t) THEN "prepare" ELSE "key"

\* ... what is parsed of them already, which another thread may drop before it
\* is moved to the end, ...
ParsedBefore(t) ==
    /\ At(t, "parse") /\ Has(parsed, call[t].inventory)
    /\ call' = [call EXCEPT ![t].at = "touch", ![t].content = Get(parsed, call[t].inventory)]
    /\ UNCHANGED <<edition, snapshot, answers, parsed, contexts, lock, received, restarts>>

Fails(t) == IF Solving(t) THEN [call[t] EXCEPT !.at = "release", !.result = "refused"]
            ELSE Ended(t, "dropped", Nothing)

Touch(t) ==
    /\ At(t, "touch")
    /\ IF Has(parsed, call[t].inventory)
       THEN /\ parsed' = Touched(parsed, call[t].inventory)
            /\ call' = [call EXCEPT ![t].at = AfterInputs(t)]
       ELSE /\ call' = [call EXCEPT ![t] = Fails(t)]     \* KeyError
            /\ UNCHANGED parsed
    /\ UNCHANGED <<edition, snapshot, answers, contexts, lock, received, restarts>>

\* ... or the files once more.
ParseFiles(t) ==
    /\ At(t, "parse") /\ ~Has(parsed, call[t].inventory)
    /\ parsed' = Trimmed(Put(parsed, call[t].inventory, edition))
    /\ call' = [call EXCEPT ![t].at = AfterInputs(t), ![t].content = edition]
    /\ UNCHANGED <<edition, snapshot, answers, contexts, lock, received, restarts>>

\* _cache_key
CacheKey(t) ==
    /\ At(t, "key")
    /\ call' = [call EXCEPT ![t].at = "find",
                            ![t].key = [request |-> call[t].request,
                                        inventory |-> call[t].inventory,
                                        snapshot |-> snapshot]]
    /\ UNCHANGED <<edition, snapshot, answers, parsed, contexts, lock, received, restarts>>

OnFile(t) == answers[call[t].key] # Nothing

FindAnswer(t) ==
    /\ At(t, "find")
    /\ call' = [call EXCEPT ![t] =
                   IF OnFile(t) THEN Ended(t, "answered", answers[call[t].key])
                   ELSE [@ EXCEPT !.at = "lock"]]
    /\ UNCHANGED <<edition, snapshot, answers, parsed, contexts, lock, received, restarts>>

\* Without waiting: another request is refused while one is being solved.
AcquireLock(t) ==
    /\ At(t, "lock")
    /\ lock' = IF lock = None THEN t ELSE lock
    /\ call' = [call EXCEPT ![t] = IF lock = None THEN [@ EXCEPT !.at = "recheck"]
                                   ELSE Ended(t, "refused", Nothing)]
    /\ UNCHANGED <<edition, snapshot, answers, parsed, contexts, received, restarts>>

\* Mutant: what was not there before the lock was won is not there.
RecheckNothing(t) ==
    /\ At(t, "recheck")
    /\ call' = [call EXCEPT ![t].at = "identify"]
    /\ UNCHANGED <<edition, snapshot, answers, parsed, contexts, lock, received, restarts>>

Recheck(t) ==
    /\ At(t, "recheck")
    /\ call' = [call EXCEPT ![t] =
                   IF OnFile(t) THEN [@ EXCEPT !.at = "release", !.result = "answered",
                                               !.made = answers[call[t].key]]
                   ELSE [@ EXCEPT !.at = "identify"]]
    /\ UNCHANGED <<edition, snapshot, answers, parsed, contexts, lock, received, restarts>>
-----------------------------------------------------------------------------
ContextKey(t) == [inventory |-> call[t].inventory, snapshot |-> snapshot]

\* _prepared_quote_context: the context of these inventories and this snapshot.
Prepare(t) ==
    /\ At(t, "prepare")
    /\ IF Has(contexts, ContextKey(t))
       THEN /\ contexts' = Touched(contexts, ContextKey(t))
            /\ call' = [call EXCEPT ![t].at = "solve", ![t].made = Get(contexts, ContextKey(t))]
       ELSE /\ call' = [call EXCEPT ![t].at = "build"]
            /\ UNCHANGED contexts
    /\ UNCHANGED <<edition, snapshot, answers, parsed, lock, received, restarts>>

\* build: acquire, which may extend the snapshot by reads it finds in the RPC
\* cache and fails offline on others; load_states.
Build(t) ==
    /\ At(t, "build")
    /\ snapshot' \in {snapshot, snapshot + 1} \cap Snapshots
    /\ \/ call' = [call EXCEPT ![t].at = "rekey",
                               ![t].made = [inventory |-> call[t].content,
                                            snapshot |-> snapshot']]
       \/ call' = [call EXCEPT ![t] = Fails(t)]
    /\ UNCHANGED <<edition, answers, parsed, contexts, lock, received, restarts>>

\* _cached_context, under the identity of the snapshot after acquisition; what
\* is there already is preferred.
Rekey(t) ==
    /\ At(t, "rekey")
    /\ LET k == ContextKey(t)
           c == IF Has(contexts, k) THEN contexts ELSE Put(contexts, k, call[t].made) IN
       /\ contexts' = Trimmed(Touched(c, k))
       /\ call' = [call EXCEPT ![t].at = "solve", ![t].made = Get(c, k)]
    /\ UNCHANGED <<edition, snapshot, answers, parsed, lock, received, restarts>>

\* The report is filed under the key the request came with, or the request is
\* refused: quote_failed, missing_state, qualification_required.
Publish(t) ==
    /\ At(t, "solve")
    /\ \/ /\ answers' = [answers EXCEPT ![call[t].key] = call[t].made]
          /\ call' = [call EXCEPT ![t].at = "release", ![t].result = "answered"]
       \/ /\ call' = [call EXCEPT ![t] = Fails(t)]
          /\ UNCHANGED answers
    /\ UNCHANGED <<edition, snapshot, parsed, contexts, lock, received, restarts>>

\* Mutant: the lock is released where an answer is returned.
ReleaseAnswered(t) ==
    /\ At(t, "release")
    /\ lock' = IF call[t].result = "answered" THEN None ELSE lock
    /\ call' = [call EXCEPT ![t] = Ended(t, @.result, @.made)]
    /\ UNCHANGED <<edition, snapshot, answers, parsed, contexts, received, restarts>>

Release(t) ==
    /\ At(t, "release")
    /\ lock' = None
    /\ call' = [call EXCEPT ![t] = Ended(t, @.result, @.made)]
    /\ UNCHANGED <<edition, snapshot, answers, parsed, contexts, received, restarts>>
-----------------------------------------------------------------------------
InventoriesChange ==
    /\ edition < MaxEdition /\ edition' = edition + 1
    /\ UNCHANGED <<snapshot, answers, parsed, contexts, lock, call, received, restarts>>

SnapshotExtended ==
    /\ snapshot < MaxSnapshot /\ snapshot' = snapshot + 1
    /\ UNCHANGED <<edition, answers, parsed, contexts, lock, call, received, restarts>>

\* The server dies and comes back: only the answers remain.
Restart ==
    /\ restarts < MaxRestarts /\ restarts' = restarts + 1
    /\ parsed' = <<>> /\ contexts' = <<>> /\ lock' = None
    /\ call' = [t \in Threads |-> Free(call[t].request)]
    /\ UNCHANGED <<edition, snapshot, answers, received>>

ThreadStep(t) ==
    \/ Identify(t) \/ ParsedBefore(t) \/ Touch(t) \/ ParseFiles(t) \/ CacheKey(t)
    \/ FindAnswer(t) \/ AcquireLock(t) \/ Recheck(t) \/ Prepare(t) \/ Build(t)
    \/ Rekey(t) \/ Publish(t) \/ Release(t)

Next ==
    \/ \E t \in Threads : ThreadStep(t) \/ \E q \in Requests : Receive(t, q)
    \/ InventoriesChange \/ SnapshotExtended \/ Restart

Fairness == \A t \in Threads : WF_bridgeVars(ThreadStep(t))
Spec == Init /\ [][Next]_bridgeVars
-----------------------------------------------------------------------------
\* A report that is returned was made of inventories no older than those in
\* place when the request arrived, through three caches (_PARSED_INVENTORIES,
\* _PREPARED_CONTEXTS, the answers) keyed by identities computed before the
\* content was read.
AnswersAreFresh ==
    \A t \in Threads : At(t, "answered") => call[t].made.inventory >= call[t].since

\* An answer that is on file is never made again or replaced: the lock's holder
\* looks once more before it solves (quote).
AnswersStand ==
    [][\A k \in Keys : answers[k] # Nothing => answers'[k] = answers[k]]_bridgeVars

\* A request that is being worked on ends, refused at worst; one that holds the
\* lock ends by releasing it, whatever the solver raises.
RequestsEnd == \A t \in Threads : At(t, "identify") ~> call[t].at \in Quiet /\ lock # t
=============================================================================
