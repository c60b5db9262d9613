-------------------------- MODULE Reconciliations --------------------------
(***************************************************************************)
(* Comparing an approved invoice with approved receiving notes             *)
(* (app/services/reconciliation_application_service.py) while the versions *)
(* it reads go on changing.  Each version is read in a transaction of its  *)
(* own; the comparison runs on the copies; the reconciliation, with its    *)
(* case if it needs one, is one transaction.  Of the result the model      *)
(* keeps which versions were compared.                                     *)
(***************************************************************************)
EXTENDS DocumentReview

CONSTANTS
    Comparers,      \* comparisons that may be under way at a time
    MaxReconciliations      \* bound: reconciliations

VARIABLES
    comparing,      \* the comparisons under way
    reconciliations \* reconciliations with the versions they are of

vars == <<reviewVars, comparing, reconciliations>>

Init ==
    /\ ReviewInit
    /\ comparing = [p \in Comparers |-> Null]
    /\ reconciliations = {}

IsUsable(v, type) == Usable(v) /\ versions[v].type = type

(* The invoice is read first.  The client names versions that exist, since *)
(* their keys are made when they are committed; one that is not a note is  *)
(* refused when it is read.  since is history: the rows there were.        *)
CompareInvoice(p, v, wanted) ==
    /\ comparing[p] = Null
    /\ wanted # {} /\ \A w \in wanted : versions[w].type = "receive_note"
    /\ IsUsable(v, "invoice")
    /\ comparing' = [comparing EXCEPT ![p] =
                        [invoice |-> v, wanted |-> wanted, read |-> {}, since |-> Len(versions)]]
    /\ UNCHANGED <<reviewVars, reconciliations>>

\* A version the client named that is not usable ends the request.
CompareNote(p, v) ==
    /\ comparing[p] # Null /\ v \in comparing[p].wanted
    /\ IsUsable(v, "receive_note")
    /\ comparing' = [comparing EXCEPT ![p].wanted = @ \ {v}, ![p].read = @ \cup {v}]
    /\ UNCHANGED <<reviewVars, reconciliations>>

SaveReconciliation(p) ==
    /\ comparing[p] # Null /\ comparing[p].wanted = {}
    /\ Cardinality(reconciliations) < MaxReconciliations
    /\ reconciliations' = reconciliations \cup
          {[invoice |-> comparing[p].invoice, notes |-> comparing[p].read,
            since |-> comparing[p].since, until |-> Len(versions)]}
    /\ comparing' = [comparing EXCEPT ![p] = Null]
    /\ UNCHANGED reviewVars

CompareDropped(p) ==
    /\ comparing[p] # Null
    /\ comparing' = [comparing EXCEPT ![p] = Null]
    /\ UNCHANGED <<reviewVars, reconciliations>>

Next ==
    \/ ReviewNext /\ UNCHANGED <<comparing, reconciliations>>
    \/ \E p \in Comparers :
          \/ \E v \in DOMAIN versions, wanted \in SUBSET DOMAIN versions : CompareInvoice(p, v, wanted)
          \/ \E v \in DOMAIN versions : CompareNote(p, v)
          \/ SaveReconciliation(p) \/ CompareDropped(p)

Spec == Init /\ [][Next]_vars
=============================================================================
