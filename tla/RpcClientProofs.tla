-------------------------- MODULE RpcClientProofs --------------------------
(***************************************************************************)
(* The cache of rpc/client.py holds, for every number of processes, blocks *)
(* and reorganisations, only answers of the block they are filed under.    *)
(*                                                                         *)
(* The inductive invariant adds to that what makes the second header check *)
(* of a by-number read sufficient: every pinned or cached hash has been    *)
(* served by the node, so one that is not canonical is abandoned; and an   *)
(* answer of another block is held only for an abandoned one.  A hash that *)
(* is canonical at the second check is not abandoned, so the answer is its *)
(* own.                                                                    *)
(***************************************************************************)
EXTENDS RpcClient, TLAPS

HeadersSeen == \A n \in Heights : headers[n] # Absent => headers[n] \in Seen(n)

BlocksSeen ==
    \A c \in Clients :
        block[c] # Absent => block[c].fork \in Seen(block[c].number)

\* A client with a call under way has a pinned block and a call identity.
CallInProgress ==
    \A c \in Clients :
        /\ pc[c] \in NetworkStates => block[c] # Absent /\ spec[c] \in Specs
        /\ returned[c] # Absent => block[c] # Absent

\* What a client holds between the two header checks.
PendingPinned ==
    \A c \in Clients :
        pc[c] = "reverify" =>
            \/ got[c] = AnswerOf(spec[c], block[c])
            \/ block[c].fork \in abandoned[block[c].number]

IInv ==
    /\ TypeOK
    /\ CanonIsLive
    /\ HeadersSeen
    /\ BlocksSeen
    /\ CallInProgress
    /\ PendingPinned
    /\ CachedAnswersPinned
    /\ ReturnedAnswersPinned

LEMMA BlockType ==
    ASSUME NEW n \in Heights, NEW f \in Forks
    PROVE  [number |-> n, fork |-> f] \in Blocks
BY DEF Blocks

LEMMA AnswerType ==
    ASSUME NEW s, NEW b \in Blocks
    PROVE  AnswerOf(s, b) \in Answers
BY DEF AnswerOf, Answers

LEMMA InitInv == Init => IInv
<1> SUFFICES ASSUME Init PROVE IInv
  OBVIOUS
<1> USE NodeChainAssumption DEF Init, ChainInit
<1>1. TypeOK
  BY DEF TypeOK, ChainTypeOK
<1>2. CanonIsLive /\ HeadersSeen /\ BlocksSeen
  BY DEF CanonIsLive, HeadersSeen, BlocksSeen
<1>3. CallInProgress /\ PendingPinned
  BY DEF CallInProgress, PendingPinned, NetworkStates
<1>4. CachedAnswersPinned /\ ReturnedAnswersPinned
  BY DEF CachedAnswersPinned, ReturnedAnswersPinned
<1> QED
  BY <1>1, <1>2, <1>3, <1>4 DEF IInv
-----------------------------------------------------------------------------
LEMMA ReorgInv ==
    ASSUME IInv, ChainMoves
    PROVE  IInv'
<1>1. PICK d \in Heights, f \in Forks : Reorg(d, f)
  BY DEF ChainMoves
<1> USE <1>1, NodeChainAssumption DEF IInv, ChainMoves, Reorg, clientVars, Seen
<1>2. TypeOK'
  BY DEF TypeOK, ChainTypeOK
<1>3. CanonIsLive'
  BY DEF CanonIsLive, TypeOK, ChainTypeOK
<1>4. \A n \in Heights : Seen(n) \subseteq Seen(n)'
  BY DEF TypeOK, ChainTypeOK
<1>5. HeadersSeen' /\ BlocksSeen'
  BY <1>4 DEF HeadersSeen, BlocksSeen, TypeOK, Blocks
<1>6. CallInProgress' /\ PendingPinned'
  BY DEF CallInProgress, PendingPinned, TypeOK, ChainTypeOK, Blocks, NetworkStates
<1>7. CachedAnswersPinned' /\ ReturnedAnswersPinned'
  BY DEF CachedAnswersPinned, ReturnedAnswersPinned
<1> QED
  BY <1>2, <1>3, <1>5, <1>6, <1>7

LEMMA GetBlockInv ==
    ASSUME IInv, NEW c \in Clients, GetBlock(c)
    PROVE  IInv'
<1> USE DEF IInv
<1>1. PICK n \in Heights, b \in Blocks :
         /\ Pin(c, b)
         /\ b.number = n /\ b.fork \in Seen(n)
         /\ headers' = headers \/ headers' = [headers EXCEPT ![n] = b.fork]
  <2>1. PICK n \in Heights :
            \/ PinCachedNumber(c, n) \/ PinNumber(c, n) \/ PinLatest(c, n)
            \/ \E f \in Forks : PinHash(c, n, f)
    BY DEF GetBlock
  <2>2. CASE PinCachedNumber(c, n)
    <3>1. headers[n] \in Seen(n) /\ headers[n] \in Forks
      BY <2>2 DEF PinCachedNumber, HeadersSeen, TypeOK
    <3> QED
      BY <2>2, <3>1, BlockType DEF PinCachedNumber
  <2>3. CASE PinNumber(c, n)
    <3>1. Live(n) \in Blocks /\ Live(n).number = n /\ Live(n).fork = canon[n]
      BY DEF Live, Blocks, TypeOK, ChainTypeOK
    <3>2. Pin(c, Live(n)) /\ headers' = [headers EXCEPT ![n] = canon[n]]
      BY <2>3 DEF PinNumber
    <3> QED
      BY <3>1, <3>2 DEF Seen
  <2>4. CASE PinLatest(c, n)
    BY <2>4, BlockType DEF PinLatest, Live, Seen, TypeOK, ChainTypeOK
  <2>5. CASE \E f \in Forks : PinHash(c, n, f)
    BY <2>5, BlockType DEF PinHash
  <2> QED
    BY <2>1, <2>2, <2>3, <2>4, <2>5
<1> USE <1>1 DEF Pin
<1>2. b.fork \in Forks
  BY DEF Blocks
<1>3. TypeOK'
  BY <1>2 DEF TypeOK, ChainTypeOK
<1>4. CanonIsLive' /\ HeadersSeen' /\ BlocksSeen'
  BY DEF CanonIsLive, HeadersSeen, BlocksSeen, Seen, TypeOK
<1>5. CallInProgress' /\ PendingPinned'
  BY DEF CallInProgress, PendingPinned, TypeOK, NetworkStates
<1>6. CachedAnswersPinned' /\ ReturnedAnswersPinned'
  BY DEF CachedAnswersPinned, ReturnedAnswersPinned, TypeOK
<1> QED
  BY <1>3, <1>4, <1>5, <1>6

LEMMA LookupInv ==
    ASSUME IInv, NEW c \in Clients, NEW s \in Specs,
           CallCached(c, s) \/ CallMissing(c, s)
    PROVE  IInv'
<1> USE DEF IInv, CallInProgress, NetworkStates
<1>1. block[c] \in Blocks /\ UNCHANGED <<canon, abandoned, headers, calls, block, hashCalls>>
  BY DEF CallCached, CallMissing, TypeOK
<1>2. CanonIsLive' /\ HeadersSeen' /\ BlocksSeen' /\ CachedAnswersPinned'
  BY <1>1 DEF CanonIsLive, HeadersSeen, BlocksSeen, CachedAnswersPinned, Seen
<1>3. CASE CallCached(c, s)
  <2> USE <1>1, <1>3 DEF CallCached, Return
  <2>1. calls[block[c]][s] = AnswerOf(s, block[c])
    BY DEF CachedAnswersPinned
  <2>2. TypeOK'
    BY <2>1, AnswerType DEF TypeOK, ChainTypeOK
  <2>3. CallInProgress' /\ PendingPinned'
    BY DEF PendingPinned, TypeOK
  <2>4. ReturnedAnswersPinned'
    BY <2>1 DEF ReturnedAnswersPinned, TypeOK
  <2> QED
    BY <1>2, <2>2, <2>3, <2>4
<1>4. CASE CallMissing(c, s)
  <2> USE <1>1, <1>4 DEF CallMissing
  <2>1. TypeOK'
    BY DEF TypeOK, ChainTypeOK
  <2>2. CallInProgress' /\ PendingPinned' /\ ReturnedAnswersPinned'
    BY DEF PendingPinned, ReturnedAnswersPinned, TypeOK
  <2> QED
    BY <1>2, <2>1, <2>2
<1> QED
  BY <1>3, <1>4

\* Filing the answer of the pinned block under its hash and returning it.
LEMMA StoreInv ==
    ASSUME IInv, NEW c \in Clients, pc[c] \in NetworkStates,
           Store(c, AnswerOf(spec[c], block[c])),
           Return(c, AnswerOf(spec[c], block[c])),
           UNCHANGED <<canon, abandoned, block, spec>>,
           HeadersSeen', headers' \in [Heights -> Forks \cup {Absent}],
           hashCalls' \in [Clients -> {"untried", "yes", "no"}]
    PROVE  IInv'
<1> USE DEF IInv, CallInProgress, NetworkStates, Return, Store
<1>1. block[c] \in Blocks /\ spec[c] \in Specs
  BY DEF TypeOK
<1>2. AnswerOf(spec[c], block[c]) \in Answers
  BY <1>1, AnswerType
<1>3. TypeOK'
  BY <1>1, <1>2 DEF TypeOK, ChainTypeOK
<1>4. CanonIsLive' /\ BlocksSeen'
  BY DEF CanonIsLive, BlocksSeen, Seen
<1>5. CallInProgress' /\ PendingPinned' /\ ReturnedAnswersPinned'
  BY <1>1 DEF PendingPinned, ReturnedAnswersPinned, TypeOK
<1>6. CachedAnswersPinned'
  BY <1>1 DEF CachedAnswersPinned, TypeOK
<1> QED
  BY <1>3, <1>4, <1>5, <1>6

\* Raising, or losing the process: nothing is filed.
LEMMA RaiseInv ==
    ASSUME IInv, NEW c \in Clients,
           UNCHANGED <<canon, abandoned, calls>>,
           Return(c, Absent),
           HeadersSeen', headers' \in [Heights -> Forks \cup {Absent}],
           UNCHANGED <<block, spec, hashCalls>>
    PROVE  IInv'
<1> USE DEF IInv, CallInProgress, NetworkStates, Return
<1>1. TypeOK'
  BY DEF TypeOK, ChainTypeOK
<1>2. CanonIsLive' /\ BlocksSeen' /\ CachedAnswersPinned'
  BY DEF CanonIsLive, BlocksSeen, CachedAnswersPinned, Seen
<1>3. CallInProgress' /\ PendingPinned' /\ ReturnedAnswersPinned'
  BY DEF PendingPinned, ReturnedAnswersPinned, TypeOK
<1> QED
  BY <1>1, <1>2, <1>3

LEMMA RefreshKeepsHeaders ==
    ASSUME IInv, NEW n \in Heights, RefreshHeader(n),
           UNCHANGED <<canon, abandoned>>
    PROVE  HeadersSeen' /\ headers' \in [Heights -> Forks \cup {Absent}]
BY DEF IInv, RefreshHeader, HeadersSeen, Seen, TypeOK, ChainTypeOK

LEMMA EthCallInv ==
    ASSUME IInv, NEW c \in Clients, EthCall(c)
    PROVE  IInv'
<1>1. CASE \E s \in Specs : CallCached(c, s) \/ CallMissing(c, s)
  BY <1>1, LookupInv
<1>2. CASE HashAnswered(c)
  <2>1. HeadersSeen' /\ headers' \in [Heights -> Forks \cup {Absent}]
    BY <1>2 DEF HashAnswered, IInv, HeadersSeen, Seen, TypeOK
  <2>2. hashCalls' \in [Clients -> {"untried", "yes", "no"}]
    BY <1>2 DEF HashAnswered, IInv, TypeOK
  <2>3. pc[c] \in NetworkStates /\ UNCHANGED <<canon, abandoned, block, spec>>
    BY <1>2 DEF HashAnswered, NetworkStates
  <2>4. Store(c, AnswerOf(spec[c], block[c])) /\ Return(c, AnswerOf(spec[c], block[c]))
    BY <1>2 DEF HashAnswered
  <2> QED
    BY <2>1, <2>2, <2>3, <2>4, StoreInv
<1>3. CASE HashUnsupported(c)
  <2> USE <1>3 DEF HashUnsupported, IInv, CallInProgress, NetworkStates
  <2>1. TypeOK'
    BY DEF TypeOK, ChainTypeOK
  <2>2. CanonIsLive' /\ HeadersSeen' /\ BlocksSeen'
    BY DEF CanonIsLive, HeadersSeen, BlocksSeen, Seen
  <2>3. CallInProgress' /\ PendingPinned'
    BY DEF PendingPinned, TypeOK
  <2>4. CachedAnswersPinned' /\ ReturnedAnswersPinned'
    BY DEF CachedAnswersPinned, ReturnedAnswersPinned
  <2> QED
    BY <2>1, <2>2, <2>3, <2>4
<1>4. CASE VerifyBefore(c)
  <2> USE <1>4 DEF VerifyBefore, IInv, CallInProgress, NetworkStates
  <2>1. block[c].number \in Heights
    BY DEF TypeOK, Blocks
  <2>2. HeadersSeen' /\ headers' \in [Heights -> Forks \cup {Absent}]
    BY <2>1, RefreshKeepsHeaders
  <2>3. TypeOK'
    BY <2>2 DEF TypeOK, ChainTypeOK
  <2>4. CanonIsLive' /\ BlocksSeen'
    BY DEF CanonIsLive, BlocksSeen, Seen
  <2>5. CallInProgress' /\ PendingPinned'
    BY DEF PendingPinned, TypeOK
  <2>6. CachedAnswersPinned' /\ ReturnedAnswersPinned'
    BY DEF CachedAnswersPinned, ReturnedAnswersPinned
  <2> QED
    BY <2>2, <2>3, <2>4, <2>5, <2>6
<1>5. CASE NumberAnswered(c)
  \* The node answers for the block that is canonical now: the pinned one, or
  \* one that has replaced it, and then the pinned one is abandoned.
  <2> USE <1>5 DEF NumberAnswered, IInv, CallInProgress, NetworkStates
  <2>1. block[c] \in Blocks /\ Live(block[c].number) \in Blocks
    BY BlockType DEF TypeOK, ChainTypeOK, Blocks, Live
  <2>2. \/ block[c] = Live(block[c].number)
        \/ block[c].fork \in abandoned[block[c].number]
    BY <2>1 DEF BlocksSeen, Seen, Live, Blocks
  <2>3. TypeOK'
    BY <2>1, AnswerType DEF TypeOK, ChainTypeOK
  <2>4. CanonIsLive' /\ HeadersSeen' /\ BlocksSeen'
    BY DEF CanonIsLive, HeadersSeen, BlocksSeen, Seen
  <2>5. CallInProgress'
    BY DEF TypeOK
  <2>6. PendingPinned'
    BY <2>2 DEF PendingPinned, TypeOK
  <2>7. CachedAnswersPinned' /\ ReturnedAnswersPinned'
    BY DEF CachedAnswersPinned, ReturnedAnswersPinned
  <2> QED
    BY <2>3, <2>4, <2>5, <2>6, <2>7
<1>6. CASE VerifyAfter(c)
  <2> USE <1>6 DEF VerifyAfter
  <2>1. block[c] \in Blocks /\ pc[c] \in NetworkStates
    BY DEF IInv, TypeOK, CallInProgress, NetworkStates
  <2>2. HeadersSeen' /\ headers' \in [Heights -> Forks \cup {Absent}]
    BY <2>1, RefreshKeepsHeaders DEF Blocks
  <2>3. CASE HashMatches(c)
    \* Canonical, hence not abandoned, hence the pending answer is its own.
    <3>1. got[c] = AnswerOf(spec[c], block[c])
      BY <2>1, <2>3 DEF IInv, PendingPinned, CanonIsLive, HashMatches, Blocks
    <3>2. hashCalls' \in [Clients -> {"untried", "yes", "no"}]
      BY DEF IInv, TypeOK
    <3>3. Store(c, AnswerOf(spec[c], block[c])) /\ Return(c, AnswerOf(spec[c], block[c]))
      BY <2>3, <3>1
    <3> QED
      BY <2>1, <2>2, <3>2, <3>3, StoreInv
  <2>4. CASE ~HashMatches(c)
    BY <2>2, <2>4, RaiseInv
  <2> QED
    BY <2>3, <2>4
<1>7. CASE CallRaises(c)
  <2>1. HeadersSeen' /\ headers' \in [Heights -> Forks \cup {Absent}]
    BY <1>7 DEF CallRaises, IInv, HeadersSeen, Seen, TypeOK
  <2> QED
    BY <1>7, <2>1, RaiseInv DEF CallRaises
<1> QED
  BY <1>1, <1>2, <1>3, <1>4, <1>5, <1>6, <1>7 DEF EthCall

LEMMA RestartInv ==
    ASSUME IInv, NEW c \in Clients, Restart(c)
    PROVE  IInv'
<1> USE DEF IInv, Restart, CallInProgress, NetworkStates
<1>1. TypeOK'
  BY DEF TypeOK, ChainTypeOK
<1>2. CanonIsLive' /\ HeadersSeen' /\ BlocksSeen'
  BY DEF CanonIsLive, HeadersSeen, BlocksSeen, Seen, TypeOK
<1>3. CallInProgress' /\ PendingPinned'
  BY DEF PendingPinned, TypeOK
<1>4. CachedAnswersPinned' /\ ReturnedAnswersPinned'
  BY DEF CachedAnswersPinned, ReturnedAnswersPinned, TypeOK
<1> QED
  BY <1>1, <1>2, <1>3, <1>4
-----------------------------------------------------------------------------
LEMMA NextInv == IInv /\ [Next]_vars => IInv'
<1> SUFFICES ASSUME IInv, [Next]_vars PROVE IInv'
  OBVIOUS
<1>1. CASE ChainMoves
  BY <1>1, ReorgInv
<1>2. CASE \E c \in Clients : GetBlock(c) \/ EthCall(c) \/ Restart(c)
  BY <1>2, GetBlockInv, EthCallInv, RestartInv
<1>3. CASE UNCHANGED vars
  BY <1>3 DEF vars, clientVars, IInv, TypeOK, ChainTypeOK, CanonIsLive, Seen,
     HeadersSeen, BlocksSeen, CallInProgress, PendingPinned,
     CachedAnswersPinned, ReturnedAnswersPinned
<1> QED
  BY <1>1, <1>2, <1>3 DEF Next

\* Every reachable state of get_block and eth_call satisfies the inductive invariant:
\* answers cached, pending and returned belong to the blocks they are meant for.
THEOREM Inductive == Spec => []IInv
<1>1. Init => IInv
  BY InitInv
<1>2. IInv /\ [Next]_vars => IInv'
  BY NextInv
<1> QED
  BY <1>1, <1>2, PTL DEF Spec

\* The variables of client.py and its caches keep the shapes TypeOK gives them.
THEOREM TypeCorrect == Spec => []TypeOK
<1>1. IInv => TypeOK
  BY DEF IInv
<1> QED
  BY <1>1, Inductive, PTL

\* Every answer _call_database holds was produced by the block it is filed
\* under, for any number of processes and any reorganisations.
THEOREM CacheIsPinned == Spec => []CachedAnswersPinned
<1>1. IInv => CachedAnswersPinned
  BY DEF IInv
<1> QED
  BY <1>1, Inductive, PTL

\* eth_call returns the answer of the block its caller pinned.
THEOREM ReturnsArePinned == Spec => []ReturnedAnswersPinned
<1>1. IInv => ReturnedAnswersPinned
  BY DEF IInv
<1> QED
  BY <1>1, Inductive, PTL

\* Neither the cache nor a caller ever has an answer of another block.
THEOREM AnswersArePinned == Spec => []AnswersPinned
  BY CacheIsPinned, ReturnsArePinned, PTL DEF AnswersPinned

\* A step that touches an entry of the call cache writes that block's answer.
LEMMA OnlyAnswersWritten ==
    ASSUME IInv, [Next]_vars, NEW s \in Specs, NEW b \in Blocks
    PROVE  calls'[b][s] = calls[b][s] \/ calls'[b][s] = AnswerOf(s, b)
<1> USE DEF Store
<1>1. CASE UNCHANGED calls
  BY <1>1
<1>2. ASSUME NEW c \in Clients, HashAnswered(c)
      PROVE  calls'[b][s] = calls[b][s] \/ calls'[b][s] = AnswerOf(s, b)
  BY <1>2 DEF HashAnswered, IInv, TypeOK
<1>3. ASSUME NEW c \in Clients, VerifyAfter(c), ~UNCHANGED calls
      PROVE  calls'[b][s] = calls[b][s] \/ calls'[b][s] = AnswerOf(s, b)
  <2>1. HashMatches(c) /\ Store(c, got[c]) /\ pc[c] = "reverify"
    BY <1>3 DEF VerifyAfter
  <2>2. block[c] \in Blocks
    BY <2>1 DEF IInv, TypeOK, CallInProgress, NetworkStates
  <2>3. got[c] = AnswerOf(spec[c], block[c])
    BY <2>1, <2>2 DEF IInv, PendingPinned, CanonIsLive, HashMatches, Blocks
  <2> QED
    BY <2>1, <2>3 DEF IInv, TypeOK
<1>4. CASE ~UNCHANGED calls
  <2>1. \E c \in Clients : HashAnswered(c) \/ VerifyAfter(c)
    BY <1>4 DEF Next, vars, ChainMoves, GetBlock, EthCall, Restart, Pin,
       PinCachedNumber, PinNumber, PinLatest, PinHash, CallCached, CallMissing,
       HashUnsupported, VerifyBefore, NumberAnswered, CallRaises
  <2> QED
    BY <1>2, <1>3, <1>4, <2>1
<1> QED
  BY <1>1, <1>4

\* Reads at a block hash are reproducible for good: a cached answer is neither
\* dropped nor replaced by a different one.
THEOREM CacheIsStable == Spec => CacheNeverRewritten
<1>1. IInv /\ [Next]_vars =>
        \A s \in Specs, b \in Blocks :
            calls[b][s] # Absent => calls'[b][s] = calls[b][s]
  BY OnlyAnswersWritten DEF IInv, CachedAnswersPinned
<1>2. IInv /\ [Next]_vars =>
        [\A s \in Specs, b \in Blocks :
            calls[b][s] # Absent => calls'[b][s] = calls[b][s]]_vars
  BY <1>1
<1> QED
  BY <1>2, Inductive, PTL DEF Spec, CacheNeverRewritten
=============================================================================
