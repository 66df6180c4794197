---------------------------- MODULE QuotesProofs ----------------------------
(***************************************************************************)
(* What the bridge returns is fresh and what it filed stands.  Fresh is    *)
(* the invariant of the first: identities are computed before what is      *)
(* filed under them is read, in every cache and every request.  Exclusive  *)
(* is that of the second: who holds the lock, and that its answer is       *)
(* missing until it publishes one.                                         *)
(***************************************************************************)
EXTENDS Quotes, SequenceTheorems, TLAPS

\* An item of a cache is no older than the identity it is filed under.
InventoryItems == {item \in [key : Editions, value : Editions] : item.key <= item.value}
ContextItems ==
    {item \in [key : Sources, value : Sources] : item.key.inventory <= item.value.inventory}

\* The invariant, by variable.
FilesOK == edition \in Editions /\ snapshot \in Snapshots
ParsedOK == parsed \in Seq(InventoryItems)
ContextsOK == contexts \in Seq(ContextItems)
AnswersOK ==
    /\ answers \in [Keys -> Sources]
    /\ \A k \in Keys : answers[k] # Nothing => k.inventory <= answers[k].inventory

\* A request named its answer, read and built no later than now, ...
Past(c, now) == c.since <= now /\ c.key.inventory <= now /\ c.inventory <= now
\* ... and each in its turn: the request came before its name, the name before the
\* identity, the identity before the content.
Named(c) == c.at \in {"find", "lock", "recheck"} => c.since <= c.key.inventory
Identified(c) ==
    c.at \in {"parse", "touch", "key", "prepare", "build", "rekey", "solve"}
    => c.since <= c.inventory /\ c.key.inventory <= c.inventory
Loaded(c) == c.at \in {"touch", "key", "prepare", "build"} => c.inventory <= c.content
Made(c) == c.at \in {"rekey", "solve"} => c.inventory <= c.made.inventory
Returned(c) ==
    c.at = "answered" \/ (c.at = "release" /\ c.result = "answered")
    => c.since <= c.made.inventory
Timely(c, now) ==
    c \in Calls /\ Past(c, now) /\ Named(c) /\ Identified(c) /\ Loaded(c) /\ Made(c) /\ Returned(c)

CallsOK == call \in [Threads -> Calls] /\ \A t \in Threads : Timely(call[t], edition)

Fresh == FilesOK /\ ParsedOK /\ ContextsOK /\ AnswersOK /\ CallsOK

\* Who holds the lock, and that its answer is missing until it publishes one.
Outside == {"key", "find", "lock"} \cup Quiet
Inside == {"recheck", "prepare", "build", "rekey", "solve", "release"}
Settled(t, c) ==
    /\ c.at \in Outside => lock # t
    /\ c.at \in Inside => lock = t
    /\ lock = t /\ c.at \notin {"recheck", "release"} => answers[c.key] = Nothing
Exclusive == \A t \in Threads : Settled(t, call[t])
-----------------------------------------------------------------------------
(* The caches.                                                             *)
\* What is found in a cache is the value of one of its items under that key.
LEMMA Gotten ==
    ASSUME NEW S, NEW cache \in Seq(S), NEW k, Has(cache, k)
    PROVE  \E item \in S : item.key = k /\ item.value = Get(cache, k)
<1> DEFINE i == CHOOSE i \in DOMAIN cache : cache[i].key = k
<1>1. i \in DOMAIN cache /\ cache[i].key = k
  BY DEF Has
<1>2. cache[i] \in S
  BY <1>1, LenProperties
<1> QED BY <1>1, <1>2 DEF Get

\* Moving an item to the end loses and adds none.
LEMMA MovedItems ==
    ASSUME NEW S, NEW cache \in Seq(S), NEW i \in 1 .. Len(cache)
    PROVE  LET moved == SubSeq(cache, 1, i - 1) \o SubSeq(cache, i + 1, Len(cache)) \o <<cache[i]>>
           IN moved \in Seq(S) /\ Len(moved) = Len(cache)
<1> DEFINE n == Len(cache)
           before == SubSeq(cache, 1, i - 1)
           after == SubSeq(cache, i + 1, n)
           last == <<cache[i]>>
<1>1. n \in Nat /\ \A j \in 1 .. n : cache[j] \in S
  BY LenProperties
<1>2. i - 1 \in Int /\ i + 1 \in Int /\ n \in Int /\ 1 \in Int
  BY <1>1
<1>3. before \in Seq(S) /\ Len(before) = i - 1
  <2>1. \A j \in 1 .. i - 1 : cache[j] \in S
    BY <1>1
  <2> QED BY <2>1, <1>1, <1>2, SubSeqProperties
<1>4. after \in Seq(S) /\ Len(after) = n - i
  <2>1. \A j \in i + 1 .. n : cache[j] \in S
    BY <1>1
  <2>2. after \in Seq(S) /\ Len(after) = IF i + 1 <= n THEN n - (i + 1) + 1 ELSE 0
    BY <2>1, <1>2, SubSeqProperties
  <2> QED BY <2>2, <1>1
<1>5. last \in Seq(S) /\ Len(last) = 1
  <2>1. cache[i] \in S
    BY <1>1
  <2> QED BY <2>1
<1> HIDE DEF before, after, last, n
<1>6. before \o after \in Seq(S) /\ Len(before \o after) = n - 1
  <2>1. before \o after \in Seq(S) /\ Len(before \o after) = Len(before) + Len(after)
    BY <1>3, <1>4, ConcatProperties, Zenon
  <2> QED BY <2>1, <1>1, <1>2, <1>3, <1>4
<1>7. (before \o after) \o last \in Seq(S) /\ Len((before \o after) \o last) = n
  <2>1. (before \o after) \o last \in Seq(S)
        /\ Len((before \o after) \o last) = Len(before \o after) + Len(last)
    BY <1>5, <1>6, ConcatProperties, Zenon
  <2> QED BY <2>1, <1>1, <1>5, <1>6
<1> QED BY <1>7 DEF before, after, last, n

\* What touching leaves are the same items (move_to_end of _cached_context).
LEMMA TouchedItems ==
    ASSUME NEW S, NEW cache \in Seq(S), NEW k, Has(cache, k)
    PROVE  Touched(cache, k) \in Seq(S) /\ Len(Touched(cache, k)) = Len(cache)
<1> DEFINE i == CHOOSE i \in DOMAIN cache : cache[i].key = k
<1>1. i \in 1 .. Len(cache)
  BY LenProperties DEF Has
<1> HIDE DEF i
<1>2. LET moved == SubSeq(cache, 1, i - 1) \o SubSeq(cache, i + 1, Len(cache)) \o <<cache[i]>>
      IN moved \in Seq(S) /\ Len(moved) = Len(cache)
  BY <1>1, MovedItems
<1> QED BY <1>2 DEF Touched, i

\* A put item is in the cache, beside those that were.
LEMMA PutItems ==
    ASSUME NEW S, NEW cache \in Seq(S), NEW k, NEW v, [key |-> k, value |-> v] \in S
    PROVE  Put(cache, k, v) \in Seq(S) /\ Has(Put(cache, k, v), k)
<1> DEFINE new == [key |-> k, value |-> v]
<1>1. Len(cache) \in Nat /\ DOMAIN cache = 1 .. Len(cache) /\ \A j \in 1 .. Len(cache) : cache[j] \in S
  BY LenProperties
<1>2. CASE Has(cache, k)
  <2> DEFINE put == [i \in DOMAIN cache |-> IF cache[i].key = k THEN new ELSE cache[i]]
  <2>1. put \in [1 .. Len(cache) -> S]
    BY <1>1
  <2>2. put \in Seq(S)
    BY <2>1, <1>1, SeqDef
  <2>3. \E i \in DOMAIN put : put[i].key = k
    BY <1>1, <1>2 DEF Has
  <2> QED BY <2>2, <2>3, <1>2 DEF Put, Has
<1>3. CASE ~Has(cache, k)
  <2>1. Append(cache, new) \in Seq(S) /\ Len(Append(cache, new)) = Len(cache) + 1
        /\ Append(cache, new)[Len(cache) + 1] = new
    BY AppendProperties
  <2>2. Len(cache) + 1 \in DOMAIN Append(cache, new)
    BY <2>1, <1>1, LenProperties
  <2> QED BY <2>1, <2>2, <1>3 DEF Put, Has
<1> QED BY <1>2, <1>3

\* Trimming keeps the newest Limit items.
LEMMA TrimmedItems ==
    ASSUME NEW S, NEW cache \in Seq(S)
    PROVE  Trimmed(cache) \in Seq(S) /\ Len(Trimmed(cache)) <= Limit
<1>1. Len(cache) \in Nat /\ \A j \in 1 .. Len(cache) : cache[j] \in S
  BY LenProperties
<1>2. Limit \in Nat
  BY QuoteBridgeAssumption
<1>3. CASE Len(cache) > Limit
  <2> DEFINE first == Len(cache) - Limit + 1
  <2>1. first \in Int /\ \A j \in first .. Len(cache) : cache[j] \in S
    BY <1>1, <1>2, <1>3
  <2>2. SubSeq(cache, first, Len(cache)) \in Seq(S) /\ Len(SubSeq(cache, first, Len(cache))) <= Limit
    BY <2>1, <1>1, <1>2, <1>3, SubSeqProperties
  <2> QED BY <2>2, <1>3 DEF Trimmed
<1>4. CASE ~(Len(cache) > Limit)
  BY <1>4, <1>1, <1>2 DEF Trimmed
<1> QED BY <1>3, <1>4
-----------------------------------------------------------------------------
(* The calls.                                                              *)
\* Editions are numbers, and start at 0.
LEMMA EditionsAreNaturals == Editions \subseteq Nat /\ Snapshots \subseteq Nat /\ 0 \in Editions /\ 0 \in Snapshots
BY QuoteBridgeAssumption DEF Editions, Snapshots

\* Their order is transitive.
LEMMA NotLater ==
    ASSUME NEW a \in Editions, NEW b \in Editions, NEW c \in Editions, a <= b, b <= c
    PROVE  a <= c
BY EditionsAreNaturals

\* A call is a record of its eight fields.
LEMMA CallFields ==
    ASSUME NEW c \in Calls
    PROVE  /\ c.request \in Requests /\ c.since \in Editions /\ c.key \in Keys
           /\ c.inventory \in Editions /\ c.content \in Editions
           /\ c.made \in Sources /\ c.result \in Quiet
           /\ c.key.inventory \in Editions /\ c.made.inventory \in Editions
BY DEF Calls, Keys, Sources

\* A thread that begins again, or returns.
LEMMA FreeIsTimely ==
    ASSUME NEW q \in Requests, NEW now \in Editions
    PROVE  Timely(Free(q), now)
<1>1. Free(q) \in Calls
  BY EditionsAreNaturals DEF Free, Calls, Keys, Sources, Nothing, Quiet
<1>2. 0 <= now
  BY EditionsAreNaturals
<1> QED BY <1>1, <1>2 DEF Timely, Past, Named, Identified, Loaded, Made, Returned, Free, Nothing

\* One thread's call changes, to one that is timely.
LEMMA OneCall ==
    ASSUME CallsOK, NEW t \in Threads, NEW c, Timely(c, edition),
           call' = [call EXCEPT ![t] = c], edition' = edition
    PROVE  CallsOK'
<1>1. c \in Calls
  BY DEF Timely
<1>2. call' \in [Threads -> Calls]
  BY <1>1 DEF CallsOK
<1>3. \A u \in Threads : Timely(call'[u], edition')
  BY <1>1 DEF CallsOK
<1> QED BY <1>2, <1>3 DEF CallsOK

\* A call that ends is timely if its report, if any, is no older than the request.
LEMMA EndedIsTimely ==
    ASSUME NEW t \in Threads, CallsOK, edition \in Editions, NEW r \in Quiet, NEW m \in Sources,
           r = "answered" => call[t].since <= m.inventory
    PROVE  Timely(Ended(t, r, m), edition)
<1>1. call[t] \in Calls /\ call[t].since <= edition
  BY DEF CallsOK, Timely, Past
<1>2. call[t].request \in Requests /\ call[t].since \in Editions
  BY <1>1, CallFields
<1>3. Free(call[t].request) \in Calls /\ 0 <= edition
  BY <1>2, EditionsAreNaturals, FreeIsTimely DEF Timely
<1>4. Ended(t, r, m) \in Calls
  BY <1>2, <1>3 DEF Ended, Calls
<1> QED BY <1>1, <1>2, <1>3, <1>4 DEF Ended, Free, Quiet, Timely, Past, Named, Identified, Loaded, Made, Returned

\* So is one that fails, whether or not it holds the lock.
LEMMA FailsIsTimely ==
    ASSUME NEW t \in Threads, CallsOK, edition \in Editions
    PROVE  Timely(Fails(t), edition)
<1>1. Nothing \in Sources
  BY EditionsAreNaturals DEF Nothing, Sources
<1>2. Timely(Ended(t, "dropped", Nothing), edition)
  BY <1>1, EndedIsTimely DEF Quiet
<1>3. call[t] \in Calls /\ Timely(call[t], edition)
  BY DEF CallsOK
<1>4. [call[t] EXCEPT !.at = "release", !.result = "refused"] \in Calls
  BY <1>3 DEF Calls, Quiet
<1>5. Timely([call[t] EXCEPT !.at = "release", !.result = "refused"], edition)
  BY <1>3, <1>4 DEF Timely, Past, Named, Identified, Loaded, Made, Returned
<1> QED BY <1>2, <1>5 DEF Fails

\* Each action keeps Fresh.
LEMMA ReceiveFresh == ASSUME Fresh, NEW t \in Threads, NEW q \in Requests, Receive(t, q) PROVE Fresh'
<1>1. edition \in Editions /\ call \in [Threads -> Calls]
  BY DEF Fresh, CallsOK, FilesOK
<1>2. PICK at \in {"identify", "refused"} :
          call' = [call EXCEPT ![t] = [Free(q) EXCEPT !.at = at, !.since = edition]]
  BY DEF Receive
<1> DEFINE c == [Free(q) EXCEPT !.at = at, !.since = edition]
<1>3. Free(q) \in Calls /\ 0 <= edition
  BY <1>1, EditionsAreNaturals, FreeIsTimely DEF Timely
<1>4. c \in Calls
  BY <1>1, <1>3 DEF Calls, Quiet
<1>5. Timely(c, edition)
  BY <1>1, <1>3, <1>4, EditionsAreNaturals DEF Free, Timely, Past, Named, Identified, Loaded, Made, Returned
<1>6. CallsOK'
  BY <1>2, <1>5, OneCall DEF Receive, Fresh
<1> QED BY <1>6 DEF Receive, Fresh, FilesOK, ParsedOK, ContextsOK, AnswersOK

\* The identity is of the inventories of this moment.
LEMMA IdentifyFresh == ASSUME Fresh, NEW t \in Threads, Identify(t) PROVE Fresh'
<1> DEFINE c == [call[t] EXCEPT !.at = "parse", !.inventory = edition]
<1>1. call[t] \in Calls /\ Timely(call[t], edition) /\ edition \in Editions
  BY DEF Fresh, CallsOK, FilesOK
<1>2. c \in Calls
  BY <1>1 DEF Calls
<1>3. Timely(c, edition)
  BY <1>1, <1>2, EditionsAreNaturals DEF Timely, Past, Named, Identified, Loaded, Made, Returned
<1>4. call' = [call EXCEPT ![t] = c]
  BY DEF Identify, Fresh, CallsOK
<1>5. CallsOK'
  BY <1>3, <1>4, OneCall DEF Identify, Fresh
<1> QED BY <1>5 DEF Identify, Fresh, FilesOK, ParsedOK, ContextsOK, AnswersOK

\* What was parsed before is no older than its identity.
LEMMA ParsedBeforeFresh == ASSUME Fresh, NEW t \in Threads, ParsedBefore(t) PROVE Fresh'
<1> DEFINE found == Get(parsed, call[t].inventory)
           c == [call[t] EXCEPT !.at = "touch", !.content = found]
<1>1. call[t] \in Calls /\ Timely(call[t], edition) /\ call[t].at = "parse"
  BY DEF Fresh, CallsOK, ParsedBefore, At
<1>2. PICK item \in InventoryItems : item.key = call[t].inventory /\ item.value = found
  BY Gotten DEF Fresh, ParsedOK, ParsedBefore
<1>3. found \in Editions /\ call[t].inventory <= found
  BY <1>2 DEF InventoryItems
<1> HIDE DEF found
<1>4. c \in Calls
  BY <1>1, <1>3 DEF Calls
<1>5. Timely(c, edition)
  BY <1>1, <1>3, <1>4 DEF Timely, Past, Named, Identified, Loaded, Made, Returned
<1>6. call' = [call EXCEPT ![t] = c]
  BY DEF ParsedBefore, Fresh, CallsOK, found
<1>7. CallsOK'
  BY <1>5, <1>6, OneCall DEF ParsedBefore, Fresh
<1> QED BY <1>7 DEF ParsedBefore, Fresh, FilesOK, ParsedOK, ContextsOK, AnswersOK

\* A touched cache has the same items; a KeyError ends the request.
LEMMA TouchFresh == ASSUME Fresh, NEW t \in Threads, Touch(t) PROVE Fresh'
<1>1. call[t] \in Calls /\ Timely(call[t], edition) /\ call[t].at = "touch"
  BY DEF Fresh, CallsOK, Touch, At
<1>2. CASE Has(parsed, call[t].inventory)
  <2> DEFINE c == [call[t] EXCEPT !.at = AfterInputs(t)]
  <2>1. AfterInputs(t) \in {"prepare", "key"}
    BY DEF AfterInputs
  <2>2. c \in Calls
    BY <1>1, <2>1 DEF Calls
  <2>3. Timely(c, edition)
    BY <1>1, <2>1, <2>2 DEF Timely, Past, Named, Identified, Loaded, Made, Returned
  <2>4. call' = [call EXCEPT ![t] = c]
    BY <1>2 DEF Touch, Fresh, CallsOK
  <2>5. CallsOK'
    BY <2>3, <2>4, OneCall DEF Touch, Fresh
  <2>6. ParsedOK'
    BY <1>2, TouchedItems DEF Touch, Fresh, ParsedOK
  <2> QED BY <2>5, <2>6 DEF Touch, Fresh, FilesOK, ContextsOK, AnswersOK
<1>3. CASE ~Has(parsed, call[t].inventory)
  <2>1. call' = [call EXCEPT ![t] = Fails(t)]
    BY <1>3 DEF Touch
  <2>2. CallsOK'
    BY <2>1, FailsIsTimely, OneCall DEF Touch, Fresh, FilesOK
  <2> QED BY <1>3, <2>2 DEF Touch, Fresh, FilesOK, ParsedOK, ContextsOK, AnswersOK
<1> QED BY <1>2, <1>3

\* The files are read after their identity was computed, and filed under it.
LEMMA ParseFilesFresh == ASSUME Fresh, NEW t \in Threads, ParseFiles(t) PROVE Fresh'
<1> DEFINE c == [call[t] EXCEPT !.at = AfterInputs(t), !.content = edition]
           k == call[t].inventory
<1>1. call[t] \in Calls /\ Timely(call[t], edition) /\ call[t].at = "parse" /\ edition \in Editions
  BY DEF Fresh, CallsOK, FilesOK, ParseFiles, At
<1>2. k \in Editions /\ k <= edition
  BY <1>1, CallFields DEF Timely, Past
<1>3. AfterInputs(t) \in {"prepare", "key"}
  BY DEF AfterInputs
<1>4. c \in Calls
  BY <1>1, <1>3 DEF Calls
<1>5. Timely(c, edition)
  BY <1>1, <1>2, <1>3, <1>4 DEF Timely, Past, Named, Identified, Loaded, Made, Returned
<1>6. call' = [call EXCEPT ![t] = c]
  BY DEF ParseFiles, Fresh, CallsOK
<1>7. CallsOK'
  BY <1>5, <1>6, OneCall DEF ParseFiles, Fresh
<1>8. [key |-> k, value |-> edition] \in InventoryItems
  BY <1>1, <1>2 DEF InventoryItems
<1>9. Put(parsed, k, edition) \in Seq(InventoryItems)
  BY <1>8, PutItems DEF Fresh, ParsedOK
<1>10. ParsedOK'
  BY <1>9, TrimmedItems DEF ParseFiles, ParsedOK
<1> QED BY <1>7, <1>10 DEF ParseFiles, Fresh, FilesOK, ContextsOK, AnswersOK

\* The name of the answer has the identity, which is no older than the request.
LEMMA CacheKeyFresh == ASSUME Fresh, NEW t \in Threads, CacheKey(t) PROVE Fresh'
<1> DEFINE k == [request |-> call[t].request, inventory |-> call[t].inventory, snapshot |-> snapshot]
           c == [call[t] EXCEPT !.at = "find", !.key = k]
<1>1. call[t] \in Calls /\ Timely(call[t], edition) /\ call[t].at = "key" /\ snapshot \in Snapshots
  BY DEF Fresh, CallsOK, FilesOK, CacheKey, At
<1>2. k \in Keys /\ k.inventory = call[t].inventory
  BY <1>1, CallFields DEF Keys
<1> HIDE DEF k
<1>3. c \in Calls
  BY <1>1, <1>2 DEF Calls
<1>4. Timely(c, edition)
  BY <1>1, <1>2, <1>3 DEF Timely, Past, Named, Identified, Loaded, Made, Returned
<1>5. call' = [call EXCEPT ![t] = c]
  BY DEF CacheKey, Fresh, CallsOK, k
<1>6. CallsOK'
  BY <1>4, <1>5, OneCall DEF CacheKey, Fresh
<1> QED BY <1>6 DEF CacheKey, Fresh, FilesOK, ParsedOK, ContextsOK, AnswersOK

\* An answer is no older than its name, the name no older than the request.
LEMMA FindAnswerFresh == ASSUME Fresh, NEW t \in Threads, FindAnswer(t) PROVE Fresh'
<1>1. call[t] \in Calls /\ Timely(call[t], edition) /\ call[t].at = "find" /\ edition \in Editions
  BY DEF Fresh, CallsOK, FilesOK, FindAnswer, At
<1> DEFINE m == answers[call[t].key]
           c == [call[t] EXCEPT !.at = "lock"]
<1>2. CASE OnFile(t)
  <2>1. m \in Sources /\ call[t].key.inventory <= m.inventory
    BY <1>1, <1>2, CallFields DEF OnFile, Fresh, AnswersOK
  <2>2. call[t].since <= m.inventory
    <3>1. call[t].since <= call[t].key.inventory
      BY <1>1 DEF Timely, Named
    <3>2. m.inventory \in Editions
      BY <2>1 DEF Sources
    <3> QED BY <1>1, <2>1, <3>1, <3>2, CallFields, NotLater
  <2>3. Timely(Ended(t, "answered", m), edition)
    BY <1>1, <2>1, <2>2, EndedIsTimely DEF Fresh, Quiet
  <2>4. call' = [call EXCEPT ![t] = Ended(t, "answered", m)]
    BY <1>2 DEF FindAnswer
  <2> QED BY <2>3, <2>4, OneCall DEF FindAnswer, Fresh, FilesOK, ParsedOK, ContextsOK, AnswersOK
<1>3. CASE ~OnFile(t)
  <2>1. c \in Calls
    BY <1>1 DEF Calls
  <2>2. Timely(c, edition)
    BY <1>1, <2>1 DEF Timely, Past, Named, Identified, Loaded, Made, Returned
  <2>3. call' = [call EXCEPT ![t] = c]
    BY <1>3 DEF FindAnswer, Fresh, CallsOK
  <2> QED BY <2>2, <2>3, OneCall DEF FindAnswer, Fresh, FilesOK, ParsedOK, ContextsOK, AnswersOK
<1> QED BY <1>2, <1>3

\* Winning or missing the lock reads nothing.
LEMMA AcquireLockFresh == ASSUME Fresh, NEW t \in Threads, AcquireLock(t) PROVE Fresh'
<1>1. call[t] \in Calls /\ Timely(call[t], edition) /\ call[t].at = "lock" /\ edition \in Editions
  BY DEF Fresh, CallsOK, FilesOK, AcquireLock, At
<1> DEFINE c == [call[t] EXCEPT !.at = "recheck"]
<1>2. c \in Calls /\ Nothing \in Sources
  BY <1>1, EditionsAreNaturals DEF Calls, Nothing, Sources
<1>3. Timely(c, edition)
  BY <1>1, <1>2 DEF Timely, Past, Named, Identified, Loaded, Made, Returned
<1>4. Timely(Ended(t, "refused", Nothing), edition)
  BY <1>1, <1>2, EndedIsTimely DEF Fresh, Quiet
<1>5. call' = [call EXCEPT ![t] = c] \/ call' = [call EXCEPT ![t] = Ended(t, "refused", Nothing)]
  BY DEF AcquireLock, Fresh, CallsOK
<1>6. CallsOK'
  BY <1>3, <1>4, <1>5, OneCall DEF AcquireLock, Fresh
<1> QED BY <1>6 DEF AcquireLock, Fresh, FilesOK, ParsedOK, ContextsOK, AnswersOK

\* The second look finds what the first might have found.
LEMMA RecheckFresh == ASSUME Fresh, NEW t \in Threads, Recheck(t) PROVE Fresh'
<1>1. call[t] \in Calls /\ Timely(call[t], edition) /\ call[t].at = "recheck" /\ edition \in Editions
  BY DEF Fresh, CallsOK, FilesOK, Recheck, At
<1> DEFINE m == answers[call[t].key]
<1>2. CASE OnFile(t)
  <2> DEFINE c == [call[t] EXCEPT !.at = "release", !.result = "answered", !.made = m]
  <2>1. m \in Sources /\ call[t].key.inventory <= m.inventory
    BY <1>1, <1>2, CallFields DEF OnFile, Fresh, AnswersOK
  <2>2. call[t].since <= m.inventory
    <3>1. call[t].since <= call[t].key.inventory
      BY <1>1 DEF Timely, Named
    <3>2. m.inventory \in Editions
      BY <2>1 DEF Sources
    <3> QED BY <1>1, <2>1, <3>1, <3>2, CallFields, NotLater
  <2>3. call' = [call EXCEPT ![t] = c]
    BY <1>2 DEF Recheck, Fresh, CallsOK
  <2> HIDE DEF m
  <2>4. c \in Calls
    BY <1>1, <2>1 DEF Calls, Quiet
  <2>5. Timely(c, edition)
    BY <1>1, <2>2, <2>4 DEF Timely, Past, Named, Identified, Loaded, Made, Returned
  <2> QED BY <2>3, <2>5, OneCall DEF Recheck, Fresh, FilesOK, ParsedOK, ContextsOK, AnswersOK
<1>3. CASE ~OnFile(t)
  <2> DEFINE c == [call[t] EXCEPT !.at = "identify"]
  <2>1. c \in Calls
    BY <1>1 DEF Calls
  <2>2. Timely(c, edition)
    BY <1>1, <2>1 DEF Timely, Past, Named, Identified, Loaded, Made, Returned
  <2>3. call' = [call EXCEPT ![t] = c]
    BY <1>3 DEF Recheck, Fresh, CallsOK
  <2> QED BY <2>2, <2>3, OneCall DEF Recheck, Fresh, FilesOK, ParsedOK, ContextsOK, AnswersOK
<1> QED BY <1>2, <1>3

\* A prepared context is no older than the inventories it is filed under.
LEMMA PrepareFresh == ASSUME Fresh, NEW t \in Threads, Prepare(t) PROVE Fresh'
<1>1. call[t] \in Calls /\ Timely(call[t], edition) /\ call[t].at = "prepare"
  BY DEF Fresh, CallsOK, Prepare, At
<1> DEFINE k == ContextKey(t)
<1>2. CASE Has(contexts, k)
  <2> DEFINE m == Get(contexts, k)
             c == [call[t] EXCEPT !.at = "solve", !.made = m]
  <2>1. PICK item \in ContextItems : item.key = k /\ item.value = m
    BY <1>2, Gotten DEF Fresh, ContextsOK
  <2>2. m \in Sources /\ call[t].inventory <= m.inventory
    BY <2>1 DEF ContextItems, ContextKey
  <2>3. call' = [call EXCEPT ![t] = c]
    BY <1>2 DEF Prepare, Fresh, CallsOK
  <2> HIDE DEF m
  <2>4. c \in Calls
    BY <1>1, <2>2 DEF Calls
  <2>5. Timely(c, edition)
    BY <1>1, <2>2, <2>4 DEF Timely, Past, Named, Identified, Loaded, Made, Returned
  <2>6. CallsOK'
    BY <2>3, <2>5, OneCall DEF Prepare, Fresh
  <2>7. ContextsOK'
    BY <1>2, TouchedItems DEF Prepare, Fresh, ContextsOK
  <2> QED BY <2>6, <2>7 DEF Prepare, Fresh, FilesOK, ParsedOK, AnswersOK
<1>3. CASE ~Has(contexts, k)
  <2> DEFINE c == [call[t] EXCEPT !.at = "build"]
  <2>1. c \in Calls
    BY <1>1 DEF Calls
  <2>2. Timely(c, edition)
    BY <1>1, <2>1 DEF Timely, Past, Named, Identified, Loaded, Made, Returned
  <2>3. call' = [call EXCEPT ![t] = c]
    BY <1>3 DEF Prepare, Fresh, CallsOK
  <2> QED BY <1>3, <2>2, <2>3, OneCall DEF Prepare, Fresh, FilesOK, ParsedOK, ContextsOK, AnswersOK
<1> QED BY <1>2, <1>3

\* A context is built of the inventories that were read.
LEMMA BuildFresh == ASSUME Fresh, NEW t \in Threads, Build(t) PROVE Fresh'
<1>1. call[t] \in Calls /\ Timely(call[t], edition) /\ call[t].at = "build" /\ edition \in Editions
  BY DEF Fresh, CallsOK, FilesOK, Build, At
<1>2. PICK now \in Snapshots : now = snapshot'
  BY DEF Build
<1> DEFINE m == [inventory |-> call[t].content, snapshot |-> now]
           c == [call[t] EXCEPT !.at = "rekey", !.made = m]
<1>3. m \in Sources /\ m.inventory = call[t].content
  BY <1>1, <1>2, CallFields DEF Sources
<1>4. call' = [call EXCEPT ![t] = c] \/ call' = [call EXCEPT ![t] = Fails(t)]
  BY <1>2 DEF Build, Fresh, CallsOK
<1> HIDE DEF m
<1>5. c \in Calls
  BY <1>1, <1>3 DEF Calls
<1>6. Timely(c, edition)
  BY <1>1, <1>3, <1>5 DEF Timely, Past, Named, Identified, Loaded, Made, Returned
<1>7. CallsOK'
  BY <1>1, <1>4, <1>6, FailsIsTimely, OneCall DEF Build, Fresh
<1> QED BY <1>2, <1>7 DEF Build, Fresh, FilesOK, ParsedOK, ContextsOK, AnswersOK

\* What is filed anew, or was there already, is no older than its name.
LEMMA RekeyFresh == ASSUME Fresh, NEW t \in Threads, Rekey(t) PROVE Fresh'
<1> DEFINE k == ContextKey(t)
           cache == IF Has(contexts, k) THEN contexts ELSE Put(contexts, k, call[t].made)
           m == Get(cache, k)
           c == [call[t] EXCEPT !.at = "solve", !.made = m]
<1>1. call[t] \in Calls /\ Timely(call[t], edition) /\ call[t].at = "rekey" /\ snapshot \in Snapshots
  BY DEF Fresh, CallsOK, FilesOK, Rekey, At
<1>2. [key |-> k, value |-> call[t].made] \in ContextItems
  BY <1>1, CallFields DEF ContextItems, ContextKey, Sources, Timely, Made
<1>3. cache \in Seq(ContextItems) /\ Has(cache, k)
  BY <1>2, PutItems DEF Fresh, ContextsOK
<1>4. call' = [call EXCEPT ![t] = c] /\ contexts' = Trimmed(Touched(cache, k))
  BY DEF Rekey, Fresh, CallsOK
<1> HIDE DEF cache
<1>5. PICK item \in ContextItems : item.key = k /\ item.value = m
  BY <1>3, Gotten
<1>6. m \in Sources /\ call[t].inventory <= m.inventory
  BY <1>5 DEF ContextItems, ContextKey
<1> HIDE DEF m
<1>7. c \in Calls
  BY <1>1, <1>6 DEF Calls
<1>8. Timely(c, edition)
  BY <1>1, <1>6, <1>7 DEF Timely, Past, Named, Identified, Loaded, Made, Returned
<1>9. CallsOK'
  BY <1>4, <1>8, OneCall DEF Rekey, Fresh
<1>10. Touched(cache, k) \in Seq(ContextItems)
  BY <1>3, TouchedItems
<1>11. ContextsOK'
  BY <1>4, <1>10, TrimmedItems DEF ContextsOK
<1> QED BY <1>9, <1>11 DEF Rekey, Fresh, FilesOK, ParsedOK, AnswersOK

\* The report is no older than the name it is filed under.
LEMMA PublishFresh == ASSUME Fresh, NEW t \in Threads, Publish(t) PROVE Fresh'
<1>1. call[t] \in Calls /\ Timely(call[t], edition) /\ call[t].at = "solve" /\ edition \in Editions
  BY DEF Fresh, CallsOK, FilesOK, Publish, At
<1>2. CASE /\ answers' = [answers EXCEPT ![call[t].key] = call[t].made]
           /\ call' = [call EXCEPT ![t].at = "release", ![t].result = "answered"]
  <2> DEFINE c == [call[t] EXCEPT !.at = "release", !.result = "answered"]
             k == call[t].key
             m == call[t].made
  <2>1. k \in Keys /\ m \in Sources
    BY <1>1, CallFields
  <2>2. call[t].since <= m.inventory /\ k.inventory <= m.inventory
    <3>1. call[t].since <= call[t].inventory /\ k.inventory <= call[t].inventory
      BY <1>1 DEF Timely, Identified
    <3>2. call[t].inventory <= m.inventory
      BY <1>1 DEF Timely, Made
    <3> QED BY <1>1, <3>1, <3>2, CallFields, NotLater
  <2>3. c \in Calls
    BY <1>1 DEF Calls, Quiet
  <2>4. Timely(c, edition)
    BY <1>1, <2>2, <2>3 DEF Timely, Past, Named, Identified, Loaded, Made, Returned
  <2>5. call' = [call EXCEPT ![t] = c]
    BY <1>2 DEF Fresh, CallsOK
  <2>6. CallsOK'
    BY <2>4, <2>5, OneCall DEF Publish, Fresh
  <2>7. AnswersOK'
    BY <1>2, <2>1, <2>2 DEF Fresh, AnswersOK
  <2> QED BY <2>6, <2>7 DEF Publish, Fresh, FilesOK, ParsedOK, ContextsOK
<1>3. CASE call' = [call EXCEPT ![t] = Fails(t)] /\ UNCHANGED answers
  BY <1>1, <1>3, FailsIsTimely, OneCall DEF Publish, Fresh, FilesOK, ParsedOK, ContextsOK, AnswersOK
<1> QED BY <1>2, <1>3 DEF Publish

\* The result is handed on as it was.
LEMMA ReleaseFresh == ASSUME Fresh, NEW t \in Threads, Release(t) PROVE Fresh'
<1>1. call[t] \in Calls /\ Timely(call[t], edition) /\ call[t].at = "release" /\ edition \in Editions
  BY DEF Fresh, CallsOK, FilesOK, Release, At
<1> DEFINE c == Ended(t, call[t].result, call[t].made)
<1>2. Timely(c, edition)
  BY <1>1, CallFields, EndedIsTimely DEF Fresh, Timely, Returned
<1>3. call' = [call EXCEPT ![t] = c]
  BY DEF Release, Fresh, CallsOK
<1>4. CallsOK'
  BY <1>2, <1>3, OneCall DEF Release, Fresh
<1> QED BY <1>4 DEF Release, Fresh, FilesOK, ParsedOK, ContextsOK, AnswersOK

\* When time goes on, what was not too old for its request still is not.
LEMMA InventoriesChangeFresh == ASSUME Fresh, InventoriesChange PROVE Fresh'
<1>1. edition' \in Editions /\ edition \in Nat /\ edition' = edition + 1
  BY EditionsAreNaturals, QuoteBridgeAssumption DEF InventoriesChange, Editions, Fresh, FilesOK
<1>2. ASSUME NEW t \in Threads
      PROVE  Timely(call'[t], edition')
  <2>1. call'[t] = call[t] /\ call[t] \in Calls /\ Timely(call[t], edition)
    BY DEF InventoriesChange, Fresh, CallsOK
  <2>2. edition \in Editions /\ edition <= edition'
    BY <1>1 DEF Fresh, FilesOK
  <2>3. Past(call[t], edition')
    BY <1>1, <2>1, <2>2, CallFields, NotLater DEF Timely, Past
  <2> QED BY <2>1, <2>3 DEF Timely
<1>3. CallsOK'
  BY <1>2 DEF InventoriesChange, Fresh, CallsOK
<1> QED BY <1>1, <1>3 DEF InventoriesChange, Fresh, FilesOK, ParsedOK, ContextsOK, AnswersOK

\* The snapshot is not compared with the request.
LEMMA SnapshotExtendedFresh == ASSUME Fresh, SnapshotExtended PROVE Fresh'
<1>1. snapshot' \in Snapshots
  BY QuoteBridgeAssumption DEF SnapshotExtended, Snapshots, Fresh, FilesOK
<1> QED BY <1>1 DEF SnapshotExtended, Fresh, FilesOK, ParsedOK, ContextsOK, AnswersOK, CallsOK

\* After a restart the caches are empty and no request is at work.
LEMMA RestartFresh == ASSUME Fresh, Restart PROVE Fresh'
<1>1. ASSUME NEW t \in Threads
      PROVE  Timely(call'[t], edition') /\ call'[t] \in Calls
  <2>1. call'[t] = Free(call[t].request) /\ edition' = edition /\ edition \in Editions
    BY DEF Restart, Fresh, FilesOK
  <2>2. call[t].request \in Requests
    BY CallFields DEF Fresh, CallsOK
  <2>3. Timely(Free(call[t].request), edition)
    BY <2>1, <2>2, FreeIsTimely
  <2> QED BY <2>1, <2>3 DEF Timely
<1>2. call' \in [Threads -> Calls]
  BY <1>1 DEF Restart
<1>3. CallsOK' /\ ParsedOK' /\ ContextsOK'
  BY <1>1, <1>2, EmptySeq DEF CallsOK, ParsedOK, ContextsOK, Restart
<1> QED BY <1>3 DEF Restart, Fresh, FilesOK, AnswersOK

\* At first there is nothing that could be too old.
LEMMA InitFresh == ASSUME Init PROVE Fresh
<1>1. edition \in Editions /\ snapshot \in Snapshots
  BY QuoteBridgeAssumption DEF Init, Editions, Snapshots
<1> DEFINE q == CHOOSE q \in Requests : TRUE
<1>2. q \in Requests
  BY QuoteBridgeAssumption
<1>3. Timely(Free(q), edition)
  BY <1>1, <1>2, FreeIsTimely
<1> HIDE DEF q
<1>4. call = [t \in Threads |-> Free(q)]
  BY DEF Init, q
<1>5. CallsOK
  BY <1>3, <1>4 DEF CallsOK, Timely
<1>6. Nothing \in Sources
  BY EditionsAreNaturals DEF Nothing, Sources
<1>7. AnswersOK
  BY <1>6 DEF Init, AnswersOK
<1>8. ParsedOK /\ ContextsOK
  BY EmptySeq DEF Init, ParsedOK, ContextsOK
<1> QED BY <1>1, <1>5, <1>7, <1>8 DEF Fresh, FilesOK

\* Every step keeps Fresh.
LEMMA NextFresh == ASSUME Fresh, [Next]_bridgeVars PROVE Fresh'
<1>1. CASE \E t \in Threads : ThreadStep(t)
  BY <1>1, IdentifyFresh, ParsedBeforeFresh, TouchFresh, ParseFilesFresh, CacheKeyFresh,
     FindAnswerFresh, AcquireLockFresh, RecheckFresh, PrepareFresh, BuildFresh, RekeyFresh,
     PublishFresh, ReleaseFresh DEF ThreadStep
<1>2. CASE \E t \in Threads, q \in Requests : Receive(t, q)
  BY <1>2, ReceiveFresh
<1>3. CASE InventoriesChange \/ SnapshotExtended \/ Restart
  BY <1>3, InventoriesChangeFresh, SnapshotExtendedFresh, RestartFresh
<1>4. CASE UNCHANGED bridgeVars
  BY <1>4 DEF bridgeVars, Fresh, FilesOK, ParsedOK, ContextsOK, AnswersOK, CallsOK
<1> QED BY <1>1, <1>2, <1>3, <1>4 DEF Next

\* No report that is returned is older than its request (AnswersAreFresh), for any
\* number of threads, requests, editions and any length of the caches: quote.
THEOREM ReportsAreFresh == Spec => []AnswersAreFresh
<1>1. ASSUME Fresh
      PROVE  AnswersAreFresh
  <2> SUFFICES ASSUME NEW t \in Threads, At(t, "answered")
               PROVE  call[t].made.inventory >= call[t].since
    BY DEF AnswersAreFresh
  <2>1. call[t] \in Calls /\ call[t].since <= call[t].made.inventory
    BY <1>1 DEF Fresh, CallsOK, Timely, Returned, At
  <2> QED BY <2>1, CallFields, EditionsAreNaturals
<1> QED BY <1>1, InitFresh, NextFresh, PTL DEF Spec
-----------------------------------------------------------------------------
(* The lock.                                                               *)
\* One thread's call changes, and neither the lock nor an answer.
LEMMA OthersSettled ==
    ASSUME Fresh, Exclusive, NEW t \in Threads, NEW c,
           call' = [call EXCEPT ![t] = c], Settled(t, c), UNCHANGED <<lock, answers>>
    PROVE  Exclusive'
BY DEF Fresh, CallsOK, Exclusive, Settled

\* A call that ends without the lock needs nothing more.
LEMMA EndedSettled ==
    ASSUME NEW t \in Threads, lock # t, NEW r \in Quiet, NEW m
    PROVE  Settled(t, Ended(t, r, m))
BY DEF Settled, Ended, Free, Quiet, Inside

\* A call that fails goes on to release the lock if it holds it.
LEMMA FailsSettled ==
    ASSUME Fresh, NEW t \in Threads
    PROVE  Settled(t, Fails(t))
<1>1. call[t] \in Calls
  BY DEF Fresh, CallsOK
<1>2. CASE Solving(t)
  BY <1>1, <1>2 DEF Fails, Solving, Settled, Calls, Outside, Quiet
<1>3. CASE ~Solving(t)
  BY <1>3, EndedSettled DEF Fails, Solving, Quiet
<1> QED BY <1>2, <1>3

\* The steps around the lock neither take it nor let it go; only a second look
\* that finds no answer leads from the lock to the solver.
LEMMA NamingExclusive ==
    ASSUME Fresh, Exclusive, NEW t \in Threads,
           Identify(t) \/ ParsedBefore(t) \/ ParseFiles(t) \/ CacheKey(t) \/ Recheck(t)
           \/ FindAnswer(t)
    PROVE  Exclusive'
<1>1. call[t] \in Calls /\ Settled(t, call[t]) /\ call \in [Threads -> Calls]
  BY DEF Fresh, CallsOK, Exclusive
<1>2. CASE Identify(t)
  <2> DEFINE c == [call[t] EXCEPT !.at = "parse", !.inventory = edition]
  <2>1. call' = [call EXCEPT ![t] = c] /\ call[t].at = "identify"
    BY <1>1, <1>2 DEF Identify, At
  <2>2. Settled(t, c)
    BY <1>1, <2>1 DEF Settled, Calls, Outside, Inside, Quiet
  <2> QED BY <1>2, <2>1, <2>2, OthersSettled DEF Identify
<1>3. CASE ParsedBefore(t)
  <2> DEFINE c == [call[t] EXCEPT !.at = "touch", !.content = Get(parsed, call[t].inventory)]
  <2>1. call' = [call EXCEPT ![t] = c] /\ call[t].at = "parse"
    BY <1>1, <1>3 DEF ParsedBefore, At
  <2>2. Settled(t, c)
    BY <1>1, <2>1 DEF Settled, Calls, Outside, Inside, Quiet
  <2> QED BY <1>3, <2>1, <2>2, OthersSettled DEF ParsedBefore
<1>4. CASE ParseFiles(t)
  <2> DEFINE c == [call[t] EXCEPT !.at = AfterInputs(t), !.content = edition]
  <2>1. call' = [call EXCEPT ![t] = c] /\ call[t].at = "parse"
    BY <1>1, <1>4 DEF ParseFiles, At
  <2>2. Settled(t, c)
    BY <1>1, <2>1 DEF Settled, Calls, Outside, Inside, Quiet, AfterInputs, Solving
  <2> QED BY <1>4, <2>1, <2>2, OthersSettled DEF ParseFiles
<1>5. CASE CacheKey(t)
  <2> DEFINE k == [request |-> call[t].request, inventory |-> call[t].inventory,
                   snapshot |-> snapshot]
             c == [call[t] EXCEPT !.at = "find", !.key = k]
  <2>1. call' = [call EXCEPT ![t] = c] /\ call[t].at = "key"
    BY <1>1, <1>5 DEF CacheKey, At
  <2>2. Settled(t, c)
    BY <1>1, <2>1 DEF Settled, Calls, Outside, Inside, Quiet
  <2> QED BY <1>5, <2>1, <2>2, OthersSettled DEF CacheKey
<1>6. CASE Recheck(t)
  <2> DEFINE c == IF OnFile(t)
                  THEN [call[t] EXCEPT !.at = "release", !.result = "answered",
                                       !.made = answers[call[t].key]]
                  ELSE [call[t] EXCEPT !.at = "identify"]
  <2>1. call' = [call EXCEPT ![t] = c] /\ call[t].at = "recheck"
    BY <1>1, <1>6 DEF Recheck, At
  <2>2. Settled(t, c)
    BY <1>1, <2>1 DEF Settled, Calls, Outside, Inside, Quiet, OnFile
  <2> QED BY <1>6, <2>1, <2>2, OthersSettled DEF Recheck
<1>7. CASE FindAnswer(t)
  <2>1. call[t].at = "find" /\ lock # t
    BY <1>1, <1>7 DEF FindAnswer, At, Settled, Outside
  <2>2. Settled(t, Ended(t, "answered", answers[call[t].key]))
    BY <2>1, EndedSettled DEF Quiet
  <2>3. Settled(t, [call[t] EXCEPT !.at = "lock"])
    BY <1>1, <2>1 DEF Settled, Calls, Inside
  <2>4. \/ call' = [call EXCEPT ![t] = Ended(t, "answered", answers[call[t].key])]
        \/ call' = [call EXCEPT ![t] = [call[t] EXCEPT !.at = "lock"]]
    BY <1>1, <1>7 DEF FindAnswer
  <2> QED BY <1>7, <2>2, <2>3, <2>4, OthersSettled DEF FindAnswer
<1> QED BY <1>2, <1>3, <1>4, <1>5, <1>6, <1>7

\* The steps under the lock keep it and its missing answer.
LEMMA SolvingExclusive ==
    ASSUME Fresh, Exclusive, NEW t \in Threads,
           Touch(t) \/ Prepare(t) \/ Build(t) \/ Rekey(t)
    PROVE  Exclusive'
<1>1. call[t] \in Calls /\ Settled(t, call[t]) /\ call \in [Threads -> Calls]
  BY DEF Fresh, CallsOK, Exclusive
<1>2. CASE Touch(t)
  <2> DEFINE c == [call[t] EXCEPT !.at = AfterInputs(t)]
  <2>1. call' = [call EXCEPT ![t] = c] \/ call' = [call EXCEPT ![t] = Fails(t)]
    BY <1>1, <1>2 DEF Touch
  <2>2. Settled(t, c)
    BY <1>1, <1>2 DEF Touch, At, Settled, Calls, Outside, Inside, Quiet, AfterInputs, Solving
  <2> QED BY <1>2, <2>1, <2>2, FailsSettled, OthersSettled DEF Touch
<1>3. CASE Prepare(t)
  <2> DEFINE c == [call[t] EXCEPT !.at = "solve", !.made = Get(contexts, ContextKey(t))]
             d == [call[t] EXCEPT !.at = "build"]
  <2>1. call' = [call EXCEPT ![t] = c] \/ call' = [call EXCEPT ![t] = d]
    BY <1>1, <1>3 DEF Prepare
  <2>2. Settled(t, c) /\ Settled(t, d)
    BY <1>1, <1>3 DEF Prepare, At, Settled, Calls, Outside, Inside, Quiet
  <2> QED BY <1>3, <2>1, <2>2, OthersSettled DEF Prepare
<1>4. CASE Build(t)
  <2> DEFINE c(s) == [call[t] EXCEPT !.at = "rekey",
                                     !.made = [inventory |-> call[t].content, snapshot |-> s]]
  <2>1. PICK now : now = snapshot'
    OBVIOUS
  <2>2. call' = [call EXCEPT ![t] = c(now)] \/ call' = [call EXCEPT ![t] = Fails(t)]
    BY <1>1, <1>4, <2>1 DEF Build
  <2>3. Settled(t, c(now))
    BY <1>1, <1>4 DEF Build, At, Settled, Calls, Outside, Inside, Quiet
  <2> QED BY <1>4, <2>2, <2>3, FailsSettled, OthersSettled DEF Build
<1>5. CASE Rekey(t)
  <2>1. PICK m : call' = [call EXCEPT ![t] = [call[t] EXCEPT !.at = "solve", !.made = m]]
    BY <1>1, <1>5 DEF Rekey
  <2> DEFINE c == [call[t] EXCEPT !.at = "solve", !.made = m]
  <2>2. Settled(t, c)
    BY <1>1, <1>5 DEF Rekey, At, Settled, Calls, Outside, Inside, Quiet
  <2> QED BY <1>5, <2>1, <2>2, OthersSettled DEF Rekey
<1> QED BY <1>2, <1>3, <1>4, <1>5

\* The steps that take the lock, file an answer and let go.
LEMMA AcquireLockExclusive ==
    ASSUME Fresh, Exclusive, NEW t \in Threads, AcquireLock(t) PROVE Exclusive'
<1>1. call[t] \in Calls /\ Settled(t, call[t]) /\ call \in [Threads -> Calls] /\ call[t].at = "lock"
  BY DEF Fresh, CallsOK, Exclusive, AcquireLock, At
<1>2. lock # t
  BY <1>1 DEF Settled, Outside
<1>3. CASE lock = None
  <2> DEFINE c == [call[t] EXCEPT !.at = "recheck"]
  <2>1. call' = [call EXCEPT ![t] = c] /\ lock' = t /\ answers' = answers
    BY <1>1, <1>3 DEF AcquireLock
  <2>2. c.at = "recheck"
    BY <1>1 DEF Calls
  <2>3. \A u \in Threads : u # t => call'[u] = call[u] /\ call[u].at \notin Inside
    BY <1>1, <1>3, <2>1, QuoteBridgeAssumption DEF Exclusive, Settled
  <2>4. call'[t] = c
    BY <1>1, <2>1
  <2> QED BY <2>1, <2>2, <2>3, <2>4 DEF Exclusive, Settled, Outside, Quiet
<1>4. CASE lock # None
  <2>1. call' = [call EXCEPT ![t] = Ended(t, "refused", Nothing)]
    BY <1>4 DEF AcquireLock
  <2> QED BY <1>2, <1>4, <2>1, EndedSettled, OthersSettled DEF AcquireLock, Quiet
<1> QED BY <1>3, <1>4

\* Nobody else is under the lock when an answer is published.
LEMMA PublishExclusive == ASSUME Fresh, Exclusive, NEW t \in Threads, Publish(t) PROVE Exclusive'
<1>1. call[t] \in Calls /\ Settled(t, call[t]) /\ call \in [Threads -> Calls] /\ call[t].at = "solve"
  BY DEF Fresh, CallsOK, Exclusive, Publish, At
<1>2. lock = t
  BY <1>1 DEF Settled, Inside
<1>3. CASE call' = [call EXCEPT ![t].at = "release", ![t].result = "answered"]
  <2>1. call'[t].at = "release" /\ lock' = lock
    BY <1>1, <1>3 DEF Publish, Calls
  <2>2. \A u \in Threads : u # t => call'[u] = call[u]
    BY <1>1, <1>3
  <2> QED BY <1>2, <2>1, <2>2 DEF Exclusive, Settled, Outside, Quiet
<1>4. CASE call' = [call EXCEPT ![t] = Fails(t)] /\ UNCHANGED answers
  BY <1>4, FailsSettled, OthersSettled DEF Publish
<1> QED BY <1>3, <1>4 DEF Publish

\* Nor when it is released.
LEMMA ReleaseExclusive == ASSUME Fresh, Exclusive, NEW t \in Threads, Release(t) PROVE Exclusive'
<1>1. call[t] \in Calls /\ Settled(t, call[t]) /\ call \in [Threads -> Calls] /\ call[t].at = "release"
  BY DEF Fresh, CallsOK, Exclusive, Release, At
<1>2. lock = t /\ lock' = None /\ None # t
  BY <1>1, QuoteBridgeAssumption DEF Settled, Inside, Release
<1>3. call[t].result \in Quiet
  BY <1>1, CallFields
<1>4. call'[t].at = call[t].result
  BY <1>1 DEF Release, Ended, Free
<1>5. \A u \in Threads : u # t => call'[u] = call[u] /\ call[u].at \notin Inside
  BY <1>1, <1>2 DEF Release, Exclusive, Settled
<1> QED BY <1>2, <1>3, <1>4, <1>5, QuoteBridgeAssumption DEF Exclusive, Settled, Inside, Quiet

\* Every step keeps Exclusive.
LEMMA NextExclusive == ASSUME Fresh, Exclusive, [Next]_bridgeVars PROVE Exclusive'
<1>1. CASE \E t \in Threads : ThreadStep(t)
  BY <1>1, NamingExclusive, SolvingExclusive, AcquireLockExclusive, PublishExclusive,
     ReleaseExclusive DEF ThreadStep
<1>2. ASSUME NEW t \in Threads, NEW q \in Requests, Receive(t, q)
      PROVE  Exclusive'
  <2>1. PICK at \in {"identify", "refused"} :
            call' = [call EXCEPT ![t] = [Free(q) EXCEPT !.at = at, !.since = edition]]
    BY <1>2 DEF Receive
  <2> DEFINE c == [Free(q) EXCEPT !.at = at, !.since = edition]
  <2>2. lock # t
    BY <1>2 DEF Receive, Exclusive, Settled, Outside
  <2>3. Settled(t, c)
    BY <2>1, <2>2 DEF Settled, Free, Inside
  <2> QED BY <1>2, <2>1, <2>3, OthersSettled DEF Receive
<1>3. CASE InventoriesChange \/ SnapshotExtended \/ UNCHANGED bridgeVars
  BY <1>3 DEF InventoriesChange, SnapshotExtended, bridgeVars, Exclusive, Settled
<1>4. CASE Restart
  <2>1. \A t \in Threads : lock' # t /\ call'[t].at = "idle"
    BY <1>4, QuoteBridgeAssumption DEF Restart, Free
  <2> QED BY <2>1 DEF Exclusive, Settled, Inside
<1> QED BY <1>1, <1>2, <1>3, <1>4 DEF Next

\* At first nobody holds the lock.
LEMMA InitExclusive == ASSUME Init PROVE Exclusive
BY QuoteBridgeAssumption DEF Init, Exclusive, Settled, Free, Inside

\* An answer on file is never replaced (AnswersStand): only the holder of the lock
\* publishes, under a name it has found no answer for since it won the lock: quote.
THEOREM AnswersStay == Spec => AnswersStand
<1>1. ASSUME Fresh, Exclusive, [Next]_bridgeVars, NEW k \in Keys, answers[k] # Nothing
      PROVE  answers'[k] = answers[k]
  <2>1. ASSUME NEW t \in Threads, Publish(t)
        PROVE  answers'[k] = answers[k]
    <3>1. call[t].at = "solve" /\ Settled(t, call[t])
      BY <1>1, <2>1 DEF Publish, At, Exclusive
    <3>2. answers[call[t].key] = Nothing
      BY <3>1 DEF Settled, Inside
    <3> QED BY <1>1, <2>1, <3>2 DEF Publish, Fresh, AnswersOK
  <2>2. CASE UNCHANGED answers
    BY <2>2
  <2>3. UNCHANGED answers \/ \E t \in Threads : Publish(t)
    BY <1>1 DEF Next, ThreadStep, Identify, ParsedBefore, Touch, ParseFiles, CacheKey, FindAnswer,
       AcquireLock, Recheck, Prepare, Build, Rekey, Release, Receive, InventoriesChange,
       SnapshotExtended, Restart, bridgeVars
  <2> QED BY <2>1, <2>2, <2>3
<1>2. ASSUME Fresh, Exclusive, [Next]_bridgeVars
      PROVE  [\A k \in Keys : answers[k] # Nothing => answers'[k] = answers[k]]_bridgeVars
  BY <1>1, <1>2
<1> QED BY <1>2, InitFresh, NextFresh, InitExclusive, NextExclusive, PTL DEF Spec, AnswersStand
-----------------------------------------------------------------------------
(* The context of a collected block.                                       *)
\* Each call's files are those of its moment or later, and what is in hand, in an
\* entry or in a context is of the report it is named for, unless that one was put
\* in place amid the reading of an earlier one.
CollectionTyped ==
    /\ files \in Collection!Artifacts
    /\ inputs \in Collection!Inputs \cup {None}
    /\ prepared \in [Collection!Artifacts -> Collection!Artifacts]
    /\ quote \in Collection!QuoteCalls

\* A report in hand is the one of an edition that did not come amid.
Of(report, named) == named \notin amid => report = named

InputsMatch ==
    inputs # None =>
        /\ Of(inputs.report, inputs.signature.report)
        /\ Of(inputs.report, inputs.identity.report)
        /\ inputs.signature.report <= inputs.identity.report
        /\ inputs.signature.calls <= inputs.identity.calls
        /\ inputs.identity.calls <= files.calls

ContextsMatch ==
    \A i \in Collection!Artifacts :
        prepared[i] # Collection!Missing =>
            Of(prepared[i].report, i.report) /\ i.calls <= prepared[i].calls

\* While the call has a report in hand and no identity, that report is in place.
Reading ==
    /\ quote.at = "read" => Of(quote.stat, files.report)
    /\ quote.at \in {"sign", "signCalls", "identify"} => Of(quote.report, files.report)

SinceFiles == quote.since.report <= files.report /\ quote.since.calls <= files.calls

\* The signature is of files that are in place or have been.
Signed ==
    /\ quote.at \in {"signCalls", "identify", "identifyCalls"} =>
          /\ quote.since.report <= quote.signature.report
          /\ Of(quote.report, quote.signature.report)
    /\ quote.at \in {"signCalls", "identify"} => quote.signature.report <= files.report
    /\ quote.at \in {"identify", "identifyCalls"} => quote.signature.calls <= files.calls

Naming ==
    /\ quote.at = "identifyCalls" => quote.signature.report <= quote.identity.report
    /\ quote.at \in {"identifyCalls", "context"} =>
          /\ Of(quote.report, quote.identity.report)
          /\ quote.since.report <= quote.identity.report
    /\ quote.at = "context" =>
          /\ quote.since.calls <= quote.identity.calls
          /\ quote.identity.calls <= files.calls

CollectionInv ==
    CollectionTyped /\ InputsMatch /\ ContextsMatch /\ Reading /\ SinceFiles /\ Signed
    /\ Naming /\ CollectionContextCurrent

\* The files and the artifacts of a call are editions, which are numbers.
LEMMA ArtifactFields ==
    /\ \A a \in Collection!Artifacts : a.report \in Nat /\ a.calls \in Nat
    /\ Collection!Missing \in Collection!Artifacts
    /\ \A r \in 0 .. MaxReport, c \in 0 .. MaxCalls :
          [report |-> r, calls |-> c] \in Collection!Artifacts
BY CollectionAssumption
   DEF Collection!Artifacts, Collection!Missing, Collection!CollectionQuotesAssumption

\* What each field of a call is.
LEMMA QuoteFields ==
    ASSUME CollectionTyped
    PROVE  /\ quote.since \in Collection!Artifacts /\ quote.signature \in Collection!Artifacts
           /\ quote.identity \in Collection!Artifacts /\ quote.made \in Collection!Artifacts
           /\ quote.stat \in 0 .. MaxReport /\ quote.report \in 0 .. MaxReport
           /\ files.report \in 0 .. MaxReport /\ files.calls \in 0 .. MaxCalls
BY DEF CollectionTyped, Collection!QuoteCalls, Collection!Artifacts

\* A call that has not begun is one.
LEMMA IdleIsCall == Collection!IdleQuote \in Collection!QuoteCalls
BY ArtifactFields, CollectionAssumption
   DEF Collection!QuoteCalls, Collection!IdleQuote, Collection!Quiet,
       Collection!CollectionQuotesAssumption

\* A call begins with the files in place.
LEMMA CallCurrent ==
    ASSUME CollectionInv, Collection!Call, amid' = amid PROVE CollectionInv'
<1> DEFINE c == [Collection!IdleQuote EXCEPT !.at = "stat", !.since = files]
<1> USE DEF CollectionInv
<1>1. quote' = c /\ files' = files /\ inputs' = inputs /\ prepared' = prepared
  BY DEF Collection!Call
<1>2. c \in Collection!QuoteCalls /\ c.since = files /\ c.at = "stat"
  BY IdleIsCall DEF CollectionTyped, Collection!QuoteCalls
<1>3. files.report <= files.report /\ files.calls <= files.calls
  BY ArtifactFields DEF CollectionTyped
<1> HIDE DEF c
<1> QED BY <1>1, <1>2, <1>3
        DEF CollectionTyped, InputsMatch, ContextsMatch, Reading, SinceFiles, Signed, Naming, Of,
            CollectionContextCurrent, Collection!CollectionContextCurrent

\* A step that touches only the call, which goes where nothing is said of it yet.
LEMMA StatReportCurrent ==
    ASSUME CollectionInv, Collection!StatReport, amid' = amid PROVE CollectionInv'
<1> USE DEF CollectionInv
<1>1. files' = files /\ inputs' = inputs /\ prepared' = prepared
  BY DEF Collection!StatReport
<1>2. CASE files.report = 0
  <2>1. quote' = [quote EXCEPT !.at = "raised"]
    BY <1>2 DEF Collection!StatReport
  <2>2. quote' \in Collection!QuoteCalls /\ quote'.at = "raised" /\ quote'.since = quote.since
    BY <2>1 DEF CollectionTyped, Collection!QuoteCalls, Collection!Quiet
  <2> QED BY <1>1, <2>2
          DEF CollectionTyped, InputsMatch, ContextsMatch, Reading, SinceFiles, Signed, Naming, Of,
              CollectionContextCurrent, Collection!CollectionContextCurrent
<1>3. CASE files.report # 0
  <2>1. quote' = [quote EXCEPT !.at = "read", !.stat = files.report]
    BY <1>3 DEF Collection!StatReport
  <2>2. /\ quote' \in Collection!QuoteCalls /\ quote'.at = "read" /\ quote'.since = quote.since
        /\ quote'.stat = files.report
    BY <2>1, QuoteFields DEF CollectionTyped, Collection!QuoteCalls
  <2> QED BY <1>1, <2>2
          DEF CollectionTyped, InputsMatch, ContextsMatch, Reading, SinceFiles, Signed, Naming, Of,
              CollectionContextCurrent, Collection!CollectionContextCurrent
<1> QED BY <1>2, <1>3

\* The report in hand is the one in place: the entry's is, if its stat is.
LEMMA ReadReportCurrent ==
    ASSUME CollectionInv, Collection!ReadReport, amid' = amid PROVE CollectionInv'
<1> USE DEF CollectionInv
<1>1. files' = files /\ inputs' = inputs /\ prepared' = prepared /\ quote.at = "read"
  BY DEF Collection!ReadReport
<1> DEFINE found == IF inputs # None /\ inputs.signature.report = quote.stat
                    THEN inputs.report ELSE files.report
<1>2. quote' = [quote EXCEPT !.at = "sign", !.report = found]
  BY DEF Collection!ReadReport
<1>3. found \in 0 .. MaxReport
  BY QuoteFields DEF CollectionTyped, Collection!Inputs
<1>4. Of(found, files.report)
  BY <1>1 DEF Of, Reading, InputsMatch
<1> HIDE DEF found
<1>5. /\ quote' \in Collection!QuoteCalls /\ quote'.at = "sign" /\ quote'.since = quote.since
      /\ quote'.report = found
  BY <1>2, <1>3 DEF CollectionTyped, Collection!QuoteCalls
<1> QED BY <1>1, <1>4, <1>5
        DEF CollectionTyped, InputsMatch, ContextsMatch, Reading, SinceFiles, Signed, Naming, Of,
            CollectionContextCurrent, Collection!CollectionContextCurrent

\* The signature's report is the one in place.
LEMMA SignCurrent ==
    ASSUME CollectionInv, Collection!Sign, amid' = amid PROVE CollectionInv'
<1> USE DEF CollectionInv
<1>1. files' = files /\ inputs' = inputs /\ prepared' = prepared /\ quote.at = "sign"
  BY DEF Collection!Sign
<1>2. quote' = [quote EXCEPT !.at = "signCalls",
                             !.signature = [quote.signature EXCEPT !.report = files.report]]
  BY DEF Collection!Sign
<1>3. [quote.signature EXCEPT !.report = files.report] \in Collection!Artifacts
  BY QuoteFields DEF Collection!Artifacts
<1>4. /\ quote' \in Collection!QuoteCalls /\ quote'.at = "signCalls" /\ quote'.since = quote.since
      /\ quote'.report = quote.report /\ quote'.signature.report = files.report
  BY <1>2, <1>3, QuoteFields DEF CollectionTyped, Collection!QuoteCalls, Collection!Artifacts
<1>5. files.report <= files.report
  BY QuoteFields
<1> QED BY <1>1, <1>4, <1>5
        DEF CollectionTyped, InputsMatch, ContextsMatch, Reading, SinceFiles, Signed, Naming, Of,
            CollectionContextCurrent, Collection!CollectionContextCurrent

\* An entry of this signature names a report and a snapshot no older.
LEMMA SignCallsCurrent ==
    ASSUME CollectionInv, Collection!SignCalls, amid' = amid PROVE CollectionInv'
<1> USE DEF CollectionInv
<1> DEFINE signature == [quote.signature EXCEPT !.calls = files.calls]
<1>1. files' = files /\ inputs' = inputs /\ prepared' = prepared /\ quote.at = "signCalls"
  BY DEF Collection!SignCalls
<1>2. /\ signature \in Collection!Artifacts /\ signature.calls = files.calls
      /\ signature.report = quote.signature.report
  BY QuoteFields DEF Collection!Artifacts
<1>3. CASE inputs # None /\ inputs.signature = signature
  <2>1. quote' = [quote EXCEPT !.at = "context", !.signature = signature,
                               !.report = inputs.report, !.identity = inputs.identity]
    BY <1>3 DEF Collection!SignCalls
  <2> HIDE DEF signature
  <2>2. inputs.report \in 0 .. MaxReport /\ inputs.identity \in Collection!Artifacts
    BY <1>3 DEF CollectionTyped, Collection!Inputs
  <2>3. /\ quote' \in Collection!QuoteCalls /\ quote'.at = "context" /\ quote'.since = quote.since
        /\ quote'.report = inputs.report /\ quote'.identity = inputs.identity
    BY <1>2, <2>1, <2>2 DEF CollectionTyped, Collection!QuoteCalls
  <2>4. /\ Of(inputs.report, inputs.identity.report)
        /\ files.calls <= inputs.identity.calls /\ inputs.identity.calls <= files.calls
        /\ quote.signature.report <= inputs.identity.report
    BY <1>2, <1>3 DEF InputsMatch
  <2>5. quote.since.report <= quote.signature.report
    BY <1>1 DEF Signed
  <2>6. /\ quote.since.calls <= inputs.identity.calls
        /\ quote.since.report <= inputs.identity.report
    BY <2>2, <2>4, <2>5, QuoteFields, ArtifactFields DEF SinceFiles
  <2> QED BY <1>1, <2>3, <2>4, <2>6
          DEF CollectionTyped, InputsMatch, ContextsMatch, Reading, SinceFiles, Signed, Naming, Of,
              CollectionContextCurrent, Collection!CollectionContextCurrent
<1>4. CASE ~(inputs # None /\ inputs.signature = signature)
  <2>1. quote' = [quote EXCEPT !.at = "identify", !.signature = signature]
    BY <1>4 DEF Collection!SignCalls
  <2> HIDE DEF signature
  <2>2. /\ quote' \in Collection!QuoteCalls /\ quote'.at = "identify" /\ quote'.since = quote.since
        /\ quote'.report = quote.report /\ quote'.signature = signature
    BY <1>2, <2>1 DEF CollectionTyped, Collection!QuoteCalls
  <2>3. files.calls <= files.calls
    BY QuoteFields
  <2> QED BY <1>1, <1>2, <2>2, <2>3
          DEF CollectionTyped, InputsMatch, ContextsMatch, Reading, SinceFiles, Signed, Naming, Of,
              CollectionContextCurrent, Collection!CollectionContextCurrent
<1> QED BY <1>3, <1>4

\* The identity's report is the one in place, and no older than the signature's.
LEMMA IdentifyCurrent ==
    ASSUME CollectionInv, Collection!Identify, amid' = amid PROVE CollectionInv'
<1> USE DEF CollectionInv
<1>1. files' = files /\ inputs' = inputs /\ prepared' = prepared /\ quote.at = "identify"
  BY DEF Collection!Identify
<1>2. quote' = [quote EXCEPT !.at = "identifyCalls",
                             !.identity = [quote.identity EXCEPT !.report = files.report]]
  BY DEF Collection!Identify
<1>3. [quote.identity EXCEPT !.report = files.report] \in Collection!Artifacts
  BY QuoteFields DEF Collection!Artifacts
<1>4. /\ quote' \in Collection!QuoteCalls /\ quote'.at = "identifyCalls"
      /\ quote'.since = quote.since /\ quote'.signature = quote.signature
      /\ quote'.report = quote.report /\ quote'.identity.report = files.report
  BY <1>2, <1>3, QuoteFields DEF CollectionTyped, Collection!QuoteCalls, Collection!Artifacts
<1> QED BY <1>1, <1>4
        DEF CollectionTyped, InputsMatch, ContextsMatch, Reading, SinceFiles, Signed, Naming, Of,
            CollectionContextCurrent, Collection!CollectionContextCurrent

\* The entry is of the identity's report and a snapshot no older than the signature's.
LEMMA IdentifyCallsCurrent ==
    ASSUME CollectionInv, Collection!IdentifyCalls, amid' = amid PROVE CollectionInv'
<1> USE DEF CollectionInv
<1> DEFINE identity == [quote.identity EXCEPT !.calls = files.calls]
           entry == [signature |-> quote.signature, report |-> quote.report, identity |-> identity]
<1>1. /\ files' = files /\ prepared' = prepared /\ quote.at = "identifyCalls" /\ inputs' = entry
      /\ quote' = [quote EXCEPT !.at = "context", !.identity = identity]
  BY DEF Collection!IdentifyCalls
<1>2. /\ identity \in Collection!Artifacts /\ identity.calls = files.calls
      /\ identity.report = quote.identity.report
  BY QuoteFields DEF Collection!Artifacts
<1> HIDE DEF identity
<1>3. /\ quote' \in Collection!QuoteCalls /\ quote'.at = "context" /\ quote'.since = quote.since
      /\ quote'.report = quote.report /\ quote'.identity = identity
  BY <1>1, <1>2 DEF CollectionTyped, Collection!QuoteCalls
<1>4. entry \in Collection!Inputs
  BY <1>2, QuoteFields DEF CollectionTyped, Collection!Inputs
<1>5. files.calls <= files.calls
  BY QuoteFields
<1>6. /\ Of(quote.report, quote.signature.report) /\ Of(quote.report, identity.report)
      /\ quote.signature.report <= identity.report /\ quote.signature.calls <= identity.calls
      /\ quote.since.report <= identity.report
  BY <1>1, <1>2 DEF Signed, Naming
<1>7. InputsMatch' /\ CollectionTyped'
  BY <1>1, <1>2, <1>3, <1>4, <1>5, <1>6 DEF InputsMatch, CollectionTyped, Of
<1> HIDE DEF entry
<1> QED BY <1>1, <1>2, <1>3, <1>5, <1>6, <1>7
        DEF ContextsMatch, Reading, SinceFiles, Signed, Naming, Of,
            CollectionContextCurrent, Collection!CollectionContextCurrent

\* The context of an identity is made of its report and a snapshot no older.
LEMMA ContextCurrent ==
    ASSUME CollectionInv, Collection!Context, amid' = amid PROVE CollectionInv'
<1> USE DEF CollectionInv
<1> DEFINE made == IF prepared[quote.identity] # Collection!Missing THEN prepared[quote.identity]
                   ELSE [report |-> quote.report, calls |-> files.calls]
<1>1. /\ quote.at = "context" /\ files' = files /\ inputs' = inputs
      /\ prepared' = [prepared EXCEPT ![quote.identity] = made]
      /\ quote' = [quote EXCEPT !.at = "returned", !.made = made]
  BY DEF Collection!Context
<1>2. made \in Collection!Artifacts
  BY QuoteFields, ArtifactFields DEF CollectionTyped
<1>3. Of(made.report, quote.identity.report) /\ quote.identity.calls <= made.calls
  BY <1>1, QuoteFields DEF Naming, ContextsMatch, Of
<1>4. quote.since.report <= quote.identity.report /\ quote.since.calls <= made.calls
  <2>1. /\ quote.since.report <= quote.identity.report
        /\ quote.since.calls <= quote.identity.calls
    BY <1>1 DEF Naming
  <2> HIDE DEF made
  <2> QED BY <1>2, <1>3, <2>1, QuoteFields, ArtifactFields
<1> HIDE DEF made
<1>5. /\ quote' \in Collection!QuoteCalls /\ quote'.at = "returned" /\ quote'.since = quote.since
      /\ quote'.made = made /\ quote'.identity = quote.identity
  BY <1>1, <1>2 DEF CollectionTyped, Collection!QuoteCalls, Collection!Quiet
<1>6. CollectionContextCurrent'
  BY <1>2, <1>3, <1>4, <1>5, QuoteFields, ArtifactFields
     DEF CollectionContextCurrent, Collection!CollectionContextCurrent, Of
<1>7. ContextsMatch' /\ CollectionTyped'
  BY <1>1, <1>2, <1>3, <1>5 DEF ContextsMatch, CollectionTyped, Of
<1> QED BY <1>1, <1>5, <1>6, <1>7 DEF InputsMatch, Reading, SinceFiles, Signed, Naming, Of

\* An eviction takes an entry and puts none.
LEMMA EvictCurrent ==
    ASSUME CollectionInv, Collection!Evict, amid' = amid PROVE CollectionInv'
<1> USE DEF CollectionInv, Of
<1>1. files' = files /\ quote' = quote
  BY DEF Collection!Evict
<1>2. CASE inputs' = None /\ UNCHANGED prepared
  BY <1>1, <1>2 DEF CollectionTyped, InputsMatch, ContextsMatch, Reading, SinceFiles, Signed,
                    Naming, CollectionContextCurrent, Collection!CollectionContextCurrent
<1>3. ASSUME UNCHANGED inputs, NEW i \in Collection!Artifacts,
             prepared' = [prepared EXCEPT ![i] = Collection!Missing]
      PROVE  CollectionInv'
  <2>1. CollectionTyped' /\ ContextsMatch'
    BY <1>1, <1>3, ArtifactFields DEF CollectionTyped, ContextsMatch
  <2> QED BY <1>1, <1>3, <2>1
          DEF InputsMatch, Reading, SinceFiles, Signed, Naming,
              CollectionContextCurrent, Collection!CollectionContextCurrent
<1> QED BY <1>2, <1>3 DEF Collection!Evict

\* The snapshot may grow at any time: what is in hand is of it or of an older one.
LEMMA ExtensionCurrent ==
    ASSUME CollectionInv, Collection!SnapshotExtended, amid' = amid PROVE CollectionInv'
<1> USE DEF CollectionInv
<1>1. /\ files.calls < MaxCalls /\ files' = [files EXCEPT !.calls = files.calls + 1]
      /\ inputs' = inputs /\ prepared' = prepared /\ quote' = quote
  BY DEF Collection!SnapshotExtended
<1>2. files.calls \in 0 .. MaxCalls /\ MaxCalls \in Nat
  BY QuoteFields, CollectionAssumption DEF Collection!CollectionQuotesAssumption
<1>3. files' \in Collection!Artifacts /\ files'.report = files.report /\ files'.calls = files.calls + 1
  BY <1>1, <1>2 DEF CollectionTyped, Collection!Artifacts
<1>4. \A n \in Nat : n <= files.calls => n <= files'.calls
  BY <1>2, <1>3
<1>5. InputsMatch'
  <2>1. inputs # None => inputs.identity.calls \in Nat
    BY ArtifactFields DEF CollectionTyped, Collection!Inputs
  <2> QED BY <1>1, <1>4, <2>1 DEF InputsMatch, Of
<1>6. Reading' /\ SinceFiles'
  BY <1>1, <1>3, <1>4, QuoteFields, ArtifactFields DEF Reading, SinceFiles, Of
<1>7. Signed' /\ Naming'
  BY <1>1, <1>3, <1>4, QuoteFields, ArtifactFields DEF Signed, Naming, Of
<1> QED BY <1>1, <1>3, <1>5, <1>6, <1>7
        DEF CollectionTyped, ContextsMatch, CollectionContextCurrent, Of,
            Collection!CollectionContextCurrent

\* A report is replaced by a later one: it came amid, or nothing is in hand that
\* has no identity.
LEMMA CollectedCurrent ==
    ASSUME CollectionInv, Collection!Collected PROVE CollectionInv'
<1> USE DEF CollectionInv
<1>1. /\ files.report < MaxReport /\ files' = [files EXCEPT !.report = files.report + 1]
      /\ inputs' = inputs /\ prepared' = prepared /\ quote' = quote
      /\ quote.at \in {"read", "sign", "signCalls", "identify"} => files.report + 1 \in amid'
  BY DEF Collection!Collected
<1>2. files.report \in 0 .. MaxReport /\ MaxReport \in Nat
  BY QuoteFields, CollectionAssumption DEF Collection!CollectionQuotesAssumption
<1>3. files' \in Collection!Artifacts /\ files'.calls = files.calls /\ files'.report = files.report + 1
  BY <1>1, <1>2 DEF CollectionTyped, Collection!Artifacts
<1>4. amid \subseteq amid'
  BY DEF Collection!Collected
<1>5. \A n \in Nat : n <= files.report => n <= files'.report
  BY <1>2, <1>3
<1>6. SinceFiles' /\ Reading'
  BY <1>1, <1>3, <1>5, QuoteFields, ArtifactFields DEF SinceFiles, Reading, Of
<1>7. Signed' /\ Naming' /\ InputsMatch' /\ ContextsMatch'
  <2>1. Signed'
    BY <1>1, <1>3, <1>4, <1>5, QuoteFields, ArtifactFields DEF Signed, Of
  <2>2. Naming'
    BY <1>1, <1>3, <1>4 DEF Naming, Of
  <2>3. InputsMatch'
    BY <1>1, <1>3, <1>4 DEF InputsMatch, Of
  <2>4. ContextsMatch'
    BY <1>1, <1>4 DEF ContextsMatch, Of
  <2> QED BY <2>1, <2>2, <2>3, <2>4
<1>8. CollectionContextCurrent'
  BY <1>1, <1>4 DEF CollectionContextCurrent, Collection!CollectionContextCurrent
<1> QED BY <1>1, <1>3, <1>6, <1>7, <1>8 DEF CollectionTyped

\* At first there is nothing.
LEMMA InitCurrent == ASSUME Collection!Init PROVE CollectionInv
<1>1. CollectionTyped
  BY ArtifactFields, CollectionAssumption
     DEF CollectionTyped, Collection!Init, Collection!IdleQuote, Collection!QuoteCalls,
         Collection!Quiet, Collection!CollectionQuotesAssumption
<1>2. files = Collection!Missing /\ inputs = None /\ quote.at = "idle" /\ quote.since = files
  BY DEF Collection!Init, Collection!IdleQuote
<1>3. SinceFiles
  BY <1>1, <1>2, QuoteFields DEF SinceFiles
<1> QED BY <1>1, <1>2, <1>3
        DEF Collection!Init, CollectionInv, InputsMatch, ContextsMatch, Reading, Signed, Naming,
            CollectionContextCurrent, Collection!CollectionContextCurrent

\* The context of a collected block has the identity of artifacts no older than
\* those in place when it was asked for, and is made of the report of that identity
\* unless it came while an earlier one was in hand (CollectionContextCurrent),
\* through three caches, for any number of editions and however the block is
\* collected again meanwhile: prepared_collection_context.
THEOREM ContextsAreCurrent == QuotesSpec => []CollectionContextCurrent
<1>1. QuotesInit => CollectionInv
  BY InitCurrent DEF QuotesInit
<1>2. ASSUME CollectionInv, [QuotesNext]_<<bridgeVars, collected, way>>
      PROVE  CollectionInv'
  <2>1. CASE Collection!Next
    BY <1>2, <2>1, CallCurrent, StatReportCurrent, ReadReportCurrent, SignCurrent,
       SignCallsCurrent, IdentifyCurrent, IdentifyCallsCurrent, ContextCurrent, EvictCurrent,
       ExtensionCurrent, CollectedCurrent
       DEF Collection!Next, Collection!QuoteStep
  <2>2. CASE UNCHANGED collected
    BY <1>2, <2>2
       DEF collected, CollectionInv, CollectionTyped, InputsMatch, ContextsMatch, Reading,
           SinceFiles, Signed, Naming, Of, CollectionContextCurrent,
           Collection!CollectionContextCurrent
  <2> QED BY <1>2, <2>1, <2>2 DEF QuotesNext
<1>3. CollectionInv => CollectionContextCurrent
  BY DEF CollectionInv
<1> QED BY <1>1, <1>2, <1>3, PTL DEF QuotesSpec

\* The bridge of the composed system takes no step the bridge alone does not, so
\* what it returns is as fresh and what it filed stands: quote.
THEOREM BridgeAlone == QuotesSpec => Spec /\ []AnswersAreFresh /\ AnswersStand
<1>1. QuotesInit => Init
  BY DEF QuotesInit
<1>2. [QuotesNext]_<<bridgeVars, collected, way>> => [Next]_bridgeVars
  BY DEF QuotesNext
<1>3. QuotesSpec => Spec
  BY <1>1, <1>2, PTL DEF QuotesSpec, Spec
<1> QED BY <1>3, ReportsAreFresh, AnswersStay, PTL
=============================================================================
