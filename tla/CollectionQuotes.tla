-------------------------- MODULE CollectionQuotes --------------------------
(***************************************************************************)
(* prepared_collection_context (collection_quotes.py): the quote context   *)
(* of a collected block, through three caches, while the block may be      *)
(* collected again (collect_block, collection.py) by another process.      *)
(*                                                                         *)
(* The report of an edition names its inventory archive by content, so the *)
(* two stand for one file here; the header never changes.  A file's stat   *)
(* is told by its edition: a rewrite changes mtime or size.  Files are     *)
(* looked at one after the other, the report before the calls.             *)
(***************************************************************************)
EXTENDS Naturals

CONSTANTS MaxReport, MaxCalls,   \* bounds: editions of the two files
          None

CollectionQuotesAssumption ==
    {MaxReport, MaxCalls} \subseteq Nat \ {0}

VARIABLES files,      \* edition of the report and of the snapshot's calls.json.gz
          inputs,     \* the block's entry of _COLLECTION_INPUTS
          contexts,   \* _CONTEXTS: what the context of each identity is made of
          quote,      \* the call
          amid        \* history: reports put in place while the call had an
                      \* earlier one in hand that it had not identified yet

collectionVars == <<files, inputs, contexts, quote, amid>>

Artifacts == [report : 0 .. MaxReport, calls : 0 .. MaxCalls]
Missing == [report |-> 0, calls |-> 0]
Inputs == [signature : Artifacts, report : 0 .. MaxReport, identity : Artifacts]
Quiet == {"idle", "returned", "raised"}
QuoteCalls == [at : Quiet \cup {"stat", "read", "sign", "signCalls", "identify",
                                  "identifyCalls", "context"},
               since : Artifacts,         \* history: the files when it was called
               stat : 0 .. MaxReport, report : 0 .. MaxReport,
               signature : Artifacts, identity : Artifacts, made : Artifacts]
IdleQuote == [at |-> "idle", since |-> Missing, stat |-> 0, report |-> 0,
              signature |-> Missing, identity |-> Missing, made |-> Missing]

TypeOK ==
    /\ files \in Artifacts
    /\ inputs \in Inputs \cup {None}
    /\ contexts \in [Artifacts -> Artifacts]
    /\ quote \in QuoteCalls
    /\ amid \subseteq 0 .. MaxReport

Init ==
    /\ files = Missing /\ inputs = None /\ quote = IdleQuote
    /\ contexts = [i \in Artifacts |-> Missing]
    /\ amid = {}
-----------------------------------------------------------------------------
Call ==
    /\ quote.at \in Quiet
    /\ quote' = [IdleQuote EXCEPT !.at = "stat", !.since = files]
    /\ UNCHANGED <<files, inputs, contexts>>

\* collection_report_path, and the stat of what it finds.
StatReport ==
    /\ quote.at = "stat"
    /\ quote' = IF files.report = 0 THEN [quote EXCEPT !.at = "raised"]
                ELSE [quote EXCEPT !.at = "read", !.stat = files.report]
    /\ UNCHANGED <<files, inputs, contexts>>

\* Mutant: a report that has been read is not read again.
ReadReportOnce ==
    /\ quote.at = "read"
    /\ quote' = [quote EXCEPT !.at = "sign",
                    !.report = IF inputs # None THEN inputs.report ELSE files.report]
    /\ UNCHANGED <<files, inputs, contexts>>

ReadReport ==
    /\ quote.at = "read"
    /\ quote' = [quote EXCEPT !.at = "sign",
                    !.report = IF inputs # None /\ inputs.signature.report = quote.stat
                               THEN inputs.report ELSE files.report]
    /\ UNCHANGED <<files, inputs, contexts>>

\* The signature of all files, ...
Sign ==
    /\ quote.at = "sign"
    /\ quote' = [quote EXCEPT !.at = "signCalls", !.signature.report = files.report]
    /\ UNCHANGED <<files, inputs, contexts>>

\* ... and the cached entry if it has the same.
SignCalls ==
    /\ quote.at = "signCalls"
    /\ LET signature == [quote.signature EXCEPT !.calls = files.calls] IN
       quote' = IF inputs # None /\ inputs.signature = signature
                THEN [quote EXCEPT !.at = "context", !.signature = signature,
                                   !.report = inputs.report, !.identity = inputs.identity]
                ELSE [quote EXCEPT !.at = "identify", !.signature = signature]
    /\ UNCHANGED <<files, inputs, contexts>>

\* The digests of all files, as they are by now, under the signature of before.
Identify ==
    /\ quote.at = "identify"
    /\ quote' = [quote EXCEPT !.at = "identifyCalls", !.identity.report = files.report]
    /\ UNCHANGED <<files, inputs, contexts>>

IdentifyCalls ==
    /\ quote.at = "identifyCalls"
    /\ LET identity == [quote.identity EXCEPT !.calls = files.calls] IN
       /\ inputs' = [signature |-> quote.signature, report |-> quote.report,
                      identity |-> identity]
       /\ quote' = [quote EXCEPT !.at = "context", !.identity = identity]
    /\ UNCHANGED <<files, contexts>>

\* The context of this identity, or one built from the report in hand and the
\* snapshot as it is now.
Context ==
    /\ quote.at = "context"
    /\ LET made == IF contexts[quote.identity] # Missing THEN contexts[quote.identity]
                   ELSE [report |-> quote.report, calls |-> files.calls] IN
       /\ contexts' = [contexts EXCEPT ![quote.identity] = made]
       /\ quote' = [quote EXCEPT !.at = "returned", !.made = made]
    /\ UNCHANGED <<files, inputs>>

\* Quotes of other blocks push entries out of caches of eight.
Evict ==
    /\ quote.at \in Quiet
    /\ \/ inputs' = None /\ UNCHANGED contexts
       \/ /\ \E i \in Artifacts : contexts' = [contexts EXCEPT ![i] = Missing]
          /\ UNCHANGED inputs
    /\ UNCHANGED <<files, quote>>

\* collect_block extends the snapshot first and replaces the report last.
SnapshotExtended ==
    /\ files.calls < MaxCalls
    /\ files' = [files EXCEPT !.calls = @ + 1]
    /\ UNCHANGED <<inputs, contexts, quote>>

\* Nothing keeps it from doing so while a context is prepared.
Collected ==
    /\ files.report < MaxReport /\ files.calls > 0
    /\ files' = [files EXCEPT !.report = @ + 1]
    /\ amid' = amid \cup (IF quote.at \in {"read", "sign", "signCalls", "identify"}
                          THEN {files.report + 1} ELSE {})
    /\ UNCHANGED <<inputs, contexts, quote>>

QuoteStep == StatReport \/ ReadReport \/ Sign \/ SignCalls \/ Identify \/ IdentifyCalls \/ Context
Next ==
    \/ (Call \/ QuoteStep \/ Evict \/ SnapshotExtended) /\ UNCHANGED amid
    \/ Collected
Spec == Init /\ [][Next]_collectionVars
-----------------------------------------------------------------------------
\* A context that is returned has the identity of a report, and is made of a
\* snapshot, no older than those in place when it was asked for, and it is made of
\* the report of its identity, through all three caches (_collection_inputs,
\* prepared_collection_context).  With one exception: a report that was put in
\* place while some call had an earlier one in hand, after its stat and before its
\* digest.  Of that one the context may be the earlier report's, then and in every
\* later call (ChangedEvidenceSeen).
CollectionContextCurrent ==
    quote.at = "returned" =>
        /\ quote.identity.report >= quote.since.report
        /\ quote.made.calls >= quote.since.calls
        /\ quote.identity.report \notin amid => quote.made.report = quote.identity.report

\* "Changed evidence cannot silently reuse an old result"
\* (docs/reports/phase8-offline-model-sweep.md:21): a context that is returned is
\* made of a report no older than the one in place when it was asked for.
ChangedEvidenceSeen ==
    quote.at = "returned" => quote.made.report >= quote.since.report
=============================================================================
