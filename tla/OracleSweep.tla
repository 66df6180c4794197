------------------------------ MODULE OracleSweep ------------------------------
(***************************************************************************)
(* recent_oracle_check.py and five_crash_oracle_check.py: for every target  *)
(* time of a window the last block of that time is searched for by its      *)
(* header; the oracles are read at each block by a pool of threads; a row   *)
(* sets the readings beside the last minute candle that was complete then.  *)
(*                                                                          *)
(* The chain does not change while a window is resolved.  A time is a small *)
(* number and a minute has Minute units; what interpolation guesses is any  *)
(* block the clamp lets through; the files of a run are one step.           *)
(***************************************************************************)
EXTENDS Integers

CONSTANTS Latest,          \* the newest block
          Time,          \* Time[b]: timestamp in the header of b
          Points, Step,  \* of a window: targets, and the time between two
          Windows,       \* last targets of the selected windows
          BracketStep, Ahead,   \* 20 and 100 blocks
          Minute,        \* of a candle
          Feeds          \* what a Chainlink feed may answer

SweepAssumption ==
    /\ Latest \in Nat \ {0} /\ Time \in [1 .. Latest -> Nat]
    /\ \A a, b \in 1 .. Latest : a < b => Time[a] < Time[b]
    /\ {Points, Step, BracketStep, Ahead, Minute} \subseteq Nat \ {0}
    /\ Windows \subseteq Nat
    /\ \A last \in Windows : Points * Step <= last
    /\ Feeds \subseteq {"reverted", "garbled", "nonpositive", "unset", "ok"}

VARIABLES script,      \* "recent", from the newest block back, or "crash"
          last,        \* the last target
          at,          \* where it is
          i,           \* the target that is searched for
          low, high,   \* between these blocks
          pins,        \* the blocks found
          answers,     \* of the oracles, by target
          rows         \* published

sweepVars == <<script, last, at, i, low, high, pins, answers, rows>>

Points1 == 1 .. Points
Target(k) == last - (Points - k) * Step
Unasked == <<>>
Failure == <<"error">>
Answers == (Feeds \X Feeds) \cup {Unasked, Failure}
Statuses == {"call_reverted", "decoding_error", "non_positive_answer", "missing_history", "ok"}
Rows == [block : 1 .. Latest, status : Statuses, candle : Nat]

TypeOK ==
    /\ script \in {"recent", "crash"} /\ last \in Nat
    /\ at \in {"idle", "bracket", "search", "query", "done", "lost", "raised"}
    /\ i \in 1 .. Points + 1 /\ low \in 1 .. Latest /\ high \in Nat
    /\ pins \in [Points1 -> 0 .. Latest]
    /\ answers \in [Points1 -> Answers]
    /\ rows = <<>> \/ rows \in [Points1 -> Rows]

Init ==
    /\ script = "recent" /\ last = 0 /\ at = "idle" /\ i = 1 /\ low = 1 /\ high = 1
    /\ pins = [k \in Points1 |-> 0] /\ answers = [k \in Points1 |-> Unasked] /\ rows = <<>>
-----------------------------------------------------------------------------
\* resolve_145_target_blocks: the newest block is the last of the targets; the
\* bracket of the first is a guess.
BeginRecent ==
    /\ at = "idle" /\ Points * Step <= Time[Latest]
    /\ script' = "recent" /\ last' = Time[Latest]
    /\ low' \in 1 .. Latest /\ high' = Latest
    /\ pins' = [pins EXCEPT ![Points] = Latest]
    /\ at' = IF Points = 1 THEN "query" ELSE "bracket"
    /\ UNCHANGED <<i, answers, rows>>

\* run_crash_window, _estimate_bracket: a guess, from two known blocks.
BeginCrash(window) ==
    /\ at = "idle"
    /\ script' = "crash" /\ last' = window
    /\ low' \in 1 .. Latest /\ high' \in low' .. low' + 2 * Ahead
    /\ at' = "bracket"
    /\ UNCHANGED <<i, pins, answers, rows>>

\* find_block_for_target: down until the target is not before low ...
LowerLow ==
    /\ at = "bracket" /\ Time[low] > Target(i)
    /\ IF low > BracketStep THEN low' = low - BracketStep /\ UNCHANGED at
                            ELSE at' = "raised" /\ UNCHANGED low
    /\ UNCHANGED <<script, last, i, high, pins, answers, rows>>

\* ... up until it is before high, which has to be there ...
RaiseHigh ==
    /\ at = "bracket" /\ Time[low] <= Target(i)
    /\ \/ high > Latest /\ at' = "raised" /\ UNCHANGED high
       \/ /\ high <= Latest /\ Time[high] <= Target(i)
          /\ high' = high + BracketStep /\ UNCHANGED at
    /\ UNCHANGED <<script, last, i, low, pins, answers, rows>>

Bracketed ==
    /\ at = "bracket" /\ Time[low] <= Target(i) /\ high <= Latest /\ Time[high] > Target(i)
    /\ at' = "search"
    /\ UNCHANGED <<script, last, i, low, high, pins, answers, rows>>

\* Mutant: the next block may come at the target's time.
HitsEarly(b) == Time[b] <= Target(i) /\ Target(i) <= Time[b + 1]

Hits(b) == Time[b] <= Target(i) /\ Target(i) < Time[b + 1]

\* The search for the next target starts at this block; the last one of
\* "recent" is the newest block itself.
Found(b) ==
    /\ pins' = [pins EXCEPT ![i] = b]
    /\ i' = i + 1 /\ low' = b
    /\ high' = IF script = "recent" THEN Latest ELSE b + Ahead
    /\ at' = IF i = Points \/ (script = "recent" /\ i = Points - 1) THEN "query" ELSE "bracket"
    /\ UNCHANGED <<script, last, answers, rows>>

\* max(low + 1, min(high - 1, guess))
Clamped(g) == g = low + 1 \/ g \in low + 1 .. high - 1

Narrowed(lo, hi) ==
    /\ low' = lo /\ high' = hi
    /\ at' = IF lo > hi THEN "lost" ELSE "search"
    /\ UNCHANGED <<script, last, i, pins, answers, rows>>

\* ... and between the two.
Look ==
    /\ at = "search"
    /\ IF Hits(low) THEN Found(low)
       ELSE \E g \in low + 1 .. Latest :
               /\ Clamped(g)
               /\ IF Hits(g) THEN Found(g)
                  ELSE IF Time[g] <= Target(i) THEN Narrowed(g + 1, high)
                  ELSE Narrowed(low, g - 1)
-----------------------------------------------------------------------------
\* worker_task, worker_query: one multicall for the block, in any order.
Query(k) ==
    /\ at = "query" /\ answers[k] = Unasked
    /\ \E answer \in Answers \ {Unasked} : answers' = [answers EXCEPT ![k] = answer]
    /\ UNCHANGED <<script, last, at, i, low, high, pins, rows>>

Asked == \A k \in Points1 : answers[k] # Unasked

\* executor.map raises the first error once the others are through.
QueryFails ==
    /\ at = "query" /\ Asked /\ \E k \in Points1 : answers[k] = Failure
    /\ at' = "raised"
    /\ UNCHANGED <<script, last, i, low, high, pins, answers, rows>>

\* decode_chainlink_pair, in the order of its checks.
Decoded(feeds) ==
    IF "reverted" \in feeds THEN "call_reverted"
    ELSE IF "garbled" \in feeds THEN "decoding_error"
    ELSE IF "nonpositive" \in feeds THEN "non_positive_answer"
    ELSE IF "unset" \in feeds THEN "missing_history" ELSE "ok"

\* extract_standardized_minute_candles: the minute before the window to the one
\* that closes with it; the second a minute closes in is cut off.
Open(c) == Target(1) - 2 * Minute + 1 + (c - 1) * Minute
Close(c) == Open(c) + Minute - 1
Candles == {c \in 1 .. last + 2 : Open(c) <= last - Minute + 1}

LastOf(s) == IF s = {} THEN 0 ELSE CHOOSE c \in s : \A d \in s : d <= c

\* Mutant: a candle is complete at its closing time.
CandleByClose(time) == LastOf({c \in Candles : Close(c) <= time})

\* match_binance_candle: bisect_right over the completion times.
Candle(time) == LastOf({c \in Candles : Open(c) + Minute <= time})

\* run_crash_window and main: rows in the order of the targets, and the files.
Publish ==
    /\ at = "query" /\ Asked /\ \A k \in Points1 : answers[k] # Failure
    /\ rows' = [k \in Points1 |->
                  [block |-> pins[k], status |-> Decoded({answers[k][1], answers[k][2]}),
                   candle |-> IF script = "crash" THEN Candle(Time[pins[k]]) ELSE 0]]
    /\ at' = "done"
    /\ UNCHANGED <<script, last, i, low, high, pins, answers>>

SweepStep ==
    \/ LowerLow \/ RaiseHigh \/ Bracketed \/ Look \/ QueryFails \/ Publish
    \/ \E k \in Points1 : Query(k)

Next == SweepStep \/ BeginRecent \/ \E window \in Windows : BeginCrash(window)
Fairness == WF_sweepVars(SweepStep)
Spec == Init /\ [][Next]_sweepVars /\ Fairness
-----------------------------------------------------------------------------
\* The block of a target is the newest whose time has come (the docstring of
\* find_block_for_target), wherever the search began and whatever it guessed,
\* with slots missed.
PinsExact ==
    \A k \in Points1 : pins[k] # 0 =>
        \A b \in 1 .. Latest : Time[b] <= Target(k) <=> b <= pins[k]

\* Once the target is between low and high it is found ("Could not find block
\* for target timestamp" is never raised).
NeverLost == at # "lost"

\* A row's candle is the last minute that was over at its block, and the minutes
\* kept for a window have one for every block less than a minute before its
\* target ("never future minute", five_crash_oracle_check.py:227; "matching
\* succeeds for all 145 targets", select_binance_crashes.py:366).
CandlesMatched ==
    (at = "done" /\ script = "crash") => \A k \in Points1 :
        LET time == Time[rows[k].block]
            c == rows[k].candle
        IN /\ c # 0 => Open(c) + Minute <= time /\ time < Open(c) + 2 * Minute
           /\ Target(k) - time < Minute => c # 0
=============================================================================
