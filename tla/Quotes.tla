-------------------------------- MODULE Quotes --------------------------------
(***************************************************************************)
(* The two ways a quote context is come by: from the inventories, for the  *)
(* command and the web bridge (QuoteBridge), and from a collected block,   *)
(* for the studies (CollectionQuotes).  A process uses one of them.        *)
(***************************************************************************)
EXTENDS QuoteBridge

CONSTANTS MaxReport, MaxCalls

VARIABLES files, inputs, prepared, quote, amid, way

Collection == INSTANCE CollectionQuotes WITH contexts <- prepared

ASSUME CollectionAssumption == Collection!CollectionQuotesAssumption

collected == <<files, inputs, prepared, quote, amid>>

QuotesInit == Init /\ Collection!Init /\ way \in {"inventories", "collection"}

QuotesNext ==
    \/ way = "inventories" /\ Next /\ UNCHANGED <<collected, way>>
    \/ way = "collection" /\ Collection!Next /\ UNCHANGED <<bridgeVars, way>>

QuotesSpec == QuotesInit /\ [][QuotesNext]_<<bridgeVars, collected, way>> /\ Fairness

\* A context of a collected block is made of artifacts no older than those in
\* place when it was asked for (_collection_inputs, prepared_collection_context),
\* but for reports that were replaced while a context was prepared.
CollectionContextCurrent == Collection!CollectionContextCurrent
=============================================================================
