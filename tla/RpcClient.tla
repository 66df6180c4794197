----------------------------- MODULE RpcClient -----------------------------
(***************************************************************************)
(* RpcClient.get_block and RpcClient.eth_call (rpc/client.py) over the     *)
(* header cache (rpc/headers.py) and the SQLite call cache.                *)
(*                                                                         *)
(* Several processes share one cache directory, as the study's workers do. *)
(* Each of them pins a block, then reads contract state "at that block":   *)
(* by block hash where the provider takes a hash parameter, otherwise by   *)
(* number between two checks of the live header.  Every answer of the node *)
(* is one step, so other processes and reorganisations fall between any    *)
(* two of them.  _rpc retries inside one step: only its last attempt       *)
(* answers.                                                                *)
(*                                                                         *)
(* The value of a call is not modelled; an answer is identified by the     *)
(* block whose state produced it, and by whether the call reverted there.  *)
(***************************************************************************)
EXTENDS NodeChain

CONSTANTS Clients,    \* processes sharing the cache directory
          Specs,      \* call identities (to, data)
          Reverting   \* the specs that revert

ASSUME RpcClientAssumption == Reverting \subseteq Specs

VARIABLES headers,    \* headers[n]: hash cached for block number n, or Absent
          calls,      \* calls[b][s]: cached answer for spec s at block b
          pc,         \* where each client's current operation stands
          block,      \* the BlockRef each client has pinned
          spec,       \* the call each client is making
          got,        \* answer of the by-number call, not yet stored
          hashCalls,  \* _block_hash_calls: "untried", "yes" or "no"
          returned    \* what the client's last eth_call returned, or Absent

clientVars == <<pc, block, spec, got, hashCalls, returned>>
vars == <<canon, abandoned, headers, calls, clientVars>>

Blocks == [number : Heights, fork : Forks]
Answers == [at : Blocks, success : BOOLEAN]

\* Mutant: the answer does not say which block it was evaluated at.
AnswerUnpinned(s, b) == [at |-> Absent, success |-> s \notin Reverting]

\* What the node answers when it evaluates s on the state of block b.
AnswerOf(s, b) == [at |-> b, success |-> s \notin Reverting]

NetworkStates == {"hashCall", "verify", "numberCall", "reverify"}

TypeOK ==
    /\ ChainTypeOK
    /\ headers \in [Heights -> Forks \cup {Absent}]
    /\ calls \in [Blocks -> [Specs -> Answers \cup {Absent}]]
    /\ pc \in [Clients -> {"idle"} \cup NetworkStates]
    /\ block \in [Clients -> Blocks \cup {Absent}]
    /\ spec \in [Clients -> Specs \cup {Absent}]
    /\ got \in [Clients -> Answers \cup {Absent}]
    /\ hashCalls \in [Clients -> {"untried", "yes", "no"}]
    /\ returned \in [Clients -> Answers \cup {Absent}]

Init ==
    /\ ChainInit
    /\ headers = [n \in Heights |-> Absent]
    /\ calls = [b \in Blocks |-> [s \in Specs |-> Absent]]
    /\ pc = [c \in Clients |-> "idle"]
    /\ block = [c \in Clients |-> Absent]
    /\ spec = [c \in Clients |-> Absent]
    /\ got = [c \in Clients |-> Absent]
    /\ hashCalls = [c \in Clients |-> "untried"]
    /\ returned = [c \in Clients |-> Absent]
-----------------------------------------------------------------------------
(* get_block: the block a client pins                                      *)

Live(n) == [number |-> n, fork |-> canon[n]]

Pin(c, b) ==
    /\ pc[c] = "idle"
    /\ block' = [block EXCEPT ![c] = b]
    /\ spec' = [spec EXCEPT ![c] = Absent]
    /\ returned' = [returned EXCEPT ![c] = Absent]
    /\ UNCHANGED <<canon, abandoned, calls, pc, got, hashCalls>>

\* A number with a cached header is answered from disk, whatever the chain
\* has become since.
PinCachedNumber(c, n) ==
    /\ headers[n] # Absent
    /\ Pin(c, [number |-> n, fork |-> headers[n]])
    /\ UNCHANGED headers

PinNumber(c, n) ==
    /\ headers[n] = Absent
    /\ Pin(c, Live(n))
    /\ headers' = [headers EXCEPT ![n] = canon[n]]

\* "latest" is never cached: the head may be any height by then.
PinLatest(c, n) ==
    /\ Pin(c, Live(n))
    /\ UNCHANGED headers

\* By hash a node also serves blocks that are no longer canonical, and the
\* header overwrites the one cached for that number.
PinHash(c, n, f) ==
    /\ f \in Seen(n)
    /\ Pin(c, [number |-> n, fork |-> f])
    /\ headers' = [headers EXCEPT ![n] = f]
-----------------------------------------------------------------------------
(* eth_call                                                                *)

Return(c, answer) ==
    /\ pc' = [pc EXCEPT ![c] = "idle"]
    /\ got' = [got EXCEPT ![c] = Absent]
    /\ returned' = [returned EXCEPT ![c] = answer]

\* Mutant: cached answers are looked up by block number alone.
CallCachedByNumber(c, s) ==
    /\ pc[c] = "idle" /\ block[c] # Absent
    /\ \E f \in Forks :
          LET b == [number |-> block[c].number, fork |-> f] IN
          calls[b][s] # Absent /\ Return(c, calls[b][s])
    /\ spec' = [spec EXCEPT ![c] = s]
    /\ UNCHANGED <<canon, abandoned, headers, calls, block, hashCalls>>

CallCached(c, s) ==
    /\ pc[c] = "idle" /\ block[c] # Absent
    /\ calls[block[c]][s] # Absent
    /\ spec' = [spec EXCEPT ![c] = s]
    /\ Return(c, calls[block[c]][s])
    /\ UNCHANGED <<canon, abandoned, headers, calls, block, hashCalls>>

CallMissing(c, s) ==
    /\ pc[c] = "idle" /\ block[c] # Absent
    /\ calls[block[c]][s] = Absent
    /\ spec' = [spec EXCEPT ![c] = s]
    /\ returned' = [returned EXCEPT ![c] = Absent]
    /\ pc' = [pc EXCEPT ![c] =
                 IF hashCalls[c] # "no" THEN "hashCall" ELSE "verify"]
    /\ UNCHANGED <<canon, abandoned, headers, calls, block, got, hashCalls>>

\* store_call_result: INSERT OR REPLACE under (block hash, to, data).
Store(c, answer) ==
    calls' = [calls EXCEPT ![block[c]][spec[c]] = answer]

\* The provider evaluates at the pinned hash.  A revert is an answer too, but
\* only a success settles that hash parameters work.
HashAnswered(c) ==
    LET answer == AnswerOf(spec[c], block[c]) IN
    /\ pc[c] = "hashCall"
    /\ hashCalls' = [hashCalls EXCEPT ![c] = IF answer.success THEN "yes" ELSE @]
    /\ Store(c, answer)
    /\ Return(c, answer)
    /\ UNCHANGED <<canon, abandoned, headers, block, spec>>

HashUnsupported(c) ==
    /\ pc[c] = "hashCall"
    /\ hashCalls' = [hashCalls EXCEPT ![c] = "no"]
    /\ pc' = [pc EXCEPT ![c] = "verify"]
    /\ UNCHANGED <<canon, abandoned, headers, calls, block, spec, got, returned>>

\* _fetch_numbered_block(use_cache=False): the live header is cached before
\* it is compared, so a failed check still refreshes the cache.
RefreshHeader(n) == headers' = [headers EXCEPT ![n] = canon[n]]

HashMatches(c) == canon[block[c].number] = block[c].fork

VerifyBefore(c) ==
    /\ pc[c] = "verify"
    /\ RefreshHeader(block[c].number)
    /\ pc' = [pc EXCEPT ![c] = IF HashMatches(c) THEN "numberCall" ELSE "idle"]
    /\ UNCHANGED <<canon, abandoned, calls, block, spec, got, hashCalls, returned>>

NumberAnswered(c) ==
    /\ pc[c] = "numberCall"
    /\ got' = [got EXCEPT ![c] = AnswerOf(spec[c], Live(block[c].number))]
    /\ pc' = [pc EXCEPT ![c] = "reverify"]
    /\ UNCHANGED <<canon, abandoned, headers, calls, block, spec, hashCalls, returned>>

\* Mutant: the live header is fetched again but not compared.
VerifyAfterUnchecked(c) ==
    /\ pc[c] = "reverify"
    /\ RefreshHeader(block[c].number)
    /\ Store(c, got[c]) /\ Return(c, got[c])
    /\ UNCHANGED <<canon, abandoned, block, spec, hashCalls>>

VerifyAfter(c) ==
    /\ pc[c] = "reverify"
    /\ RefreshHeader(block[c].number)
    /\ IF HashMatches(c)
         THEN Store(c, got[c]) /\ Return(c, got[c])
         ELSE UNCHANGED calls /\ Return(c, Absent)
    /\ UNCHANGED <<canon, abandoned, block, spec, hashCalls>>

\* Attempts exhausted, an HTTP error, or an RPC error that is neither a revert
\* nor a refusal of the hash parameter: eth_call raises and nothing is cached.
CallRaises(c) ==
    /\ pc[c] \in NetworkStates
    /\ Return(c, Absent)
    /\ UNCHANGED <<canon, abandoned, headers, calls, block, spec, hashCalls>>

\* The process dies and a new one starts on the same cache directory.
Restart(c) ==
    /\ pc' = [pc EXCEPT ![c] = "idle"]
    /\ block' = [block EXCEPT ![c] = Absent]
    /\ spec' = [spec EXCEPT ![c] = Absent]
    /\ got' = [got EXCEPT ![c] = Absent]
    /\ hashCalls' = [hashCalls EXCEPT ![c] = "untried"]
    /\ returned' = [returned EXCEPT ![c] = Absent]
    /\ UNCHANGED <<canon, abandoned, headers, calls>>
-----------------------------------------------------------------------------
ChainMoves ==
    /\ \E d \in Heights, f \in Forks : Reorg(d, f)
    /\ UNCHANGED <<headers, calls, clientVars>>

GetBlock(c) ==
    \E n \in Heights :
        \/ PinCachedNumber(c, n)
        \/ PinNumber(c, n)
        \/ PinLatest(c, n)
        \/ \E f \in Forks : PinHash(c, n, f)

EthCall(c) ==
    \/ \E s \in Specs : CallCached(c, s) \/ CallMissing(c, s)
    \/ HashAnswered(c) \/ HashUnsupported(c)
    \/ VerifyBefore(c) \/ NumberAnswered(c) \/ VerifyAfter(c)
    \/ CallRaises(c)

Next ==
    \/ ChainMoves
    \/ \E c \in Clients : GetBlock(c) \/ EthCall(c) \/ Restart(c)

Spec == Init /\ [][Next]_vars
-----------------------------------------------------------------------------
\* Every answer in the shared call cache was produced by the very block whose
\* hash it is filed under, whatever reorganisations fell between the requests
\* of a by-number read (docs/INTERFACES.md, "Cache keys").
CachedAnswersPinned ==
    \A s \in Specs, b \in Blocks :
        calls[b][s] # Absent => calls[b][s] = AnswerOf(s, b)

\* Whatever eth_call hands back, from the cache another process filled or from
\* the node, is the answer of the block the caller pinned.
ReturnedAnswersPinned ==
    \A c \in Clients :
        returned[c] # Absent => returned[c] = AnswerOf(spec[c], block[c])

\* An answer belongs to the block it was asked for, in the cache and in the hands
\* of a caller, whatever reorganised or restarted in between (eth_call).
AnswersPinned == CachedAnswersPinned /\ ReturnedAnswersPinned

\* Reads are reproducible: what one process cached for a block hash, no later
\* read, failure, restart or reorganisation changes or drops.
CacheNeverRewritten ==
    [][\A s \in Specs, b \in Blocks :
          calls[b][s] # Absent => calls'[b][s] = calls[b][s]]_vars
=============================================================================
