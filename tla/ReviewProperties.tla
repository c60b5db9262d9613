-------------------------- MODULE ReviewProperties --------------------------
(***************************************************************************)
(* What the versions of documents, and the reconciliations made of them,   *)
(* guarantee whatever the interleaving of requests and imports.            *)
(***************************************************************************)
EXTENDS Reconciliations

ReviewRequest == [stage : {"checked", "written"}, action : {"review_started", "document_edited",
                      "document_reclassified", "approved", "rejected"},
                  task : Tasks, version : Nat, type : Types, body : Bodies]
Comparison == [invoice : Nat, wanted : SUBSET Nat, read : SUBSET Nat, since : Nat]

ASSUME NullIsNoRecord == Null \notin ReviewRequest \cup Comparison

(* Rows have the shape that the table and DocumentVersion check; a version *)
(* number is given once to a document.                                     *)
TypeOK ==
    /\ versions \in Seq(UploadRow \cup UpstreamRow)
    /\ audit \subseteq AuditRow
    /\ request \in [Requests -> ReviewRequest \cup {Null}]
    /\ unaudited \subseteq DOMAIN versions /\ alone \subseteq Tasks
    /\ comparing \in [Comparers -> Comparison \cup {Null}]
    /\ \A v, w \in DOMAIN versions :
          versions[v].of = versions[w].of /\ versions[v].number = versions[w].number => v = w

Decided(v) == versions[v].of \in Tasks /\ versions[v].status # "draft"

(* The audit trail tells the decision on a version and never another one;  *)
(* a version has its row unless its request is about to write it, or       *)
(* failed between the two transactions.                                    *)
AuditTellsTheDecision ==
    /\ \A a \in audit : a.action \in {"approved", "rejected"} => versions[a.version].status = a.action
    /\ \A v \in DOMAIN versions : Decided(v) =>
          \/ [version |-> v, action |-> versions[v].status] \in audit
          \/ v \in unaudited
          \/ \E q \in Requests : request[q] # Null /\ request[q].stage = "written"
                                 /\ request[q].version = v /\ request[q].action = versions[v].status

(* As long as no two requests on a document overlap, its history is a      *)
(* line: every version was made of the one before, none was made of a      *)
(* decided one, and only the newest may be approved ("single reviewer      *)
(* pilot", create_version; "no forked history", _require_editable_latest). *)
LinearWithoutOverlap ==
    \A t \in alone : \A v \in Of(t) :
        /\ versions[v].from = 0 <=> versions[v].number = 1
        /\ versions[v].from # 0 =>
              /\ versions[v].from \in Of(t)
              /\ versions[versions[v].from].number + 1 = versions[v].number
        /\ versions[v].status = "approved" => v = Newest(t)

(* The versions offered for reconciliation are exactly those that a        *)
(* reconciliation accepts: the listing and the check are two queries.      *)
OfferedIsAccepted == ListedForReconciliation = {v \in DOMAIN versions : Usable(v)}

(* A receiving record only moves on: whatever order its versions arrive    *)
(* in, how often, or with which supplier, a later row has a larger number  *)
(* and the supplier of the first.                                          *)
ReceivingOnlyMovesOn ==
    \A v, w \in DOMAIN versions :
        versions[v].of \in Records /\ versions[w].of = versions[v].of /\ v < w =>
            versions[v].number < versions[w].number /\ versions[v].supplier = versions[w].supplier

\* With the first k rows of the table, v was a version to reconcile.
WasUsable(v, k) ==
    /\ v =< k /\ versions[v].status = "approved"
    /\ versions[v].of \in Records =>
          versions[v].active /\ \A w \in (v + 1)..k : versions[w].of # versions[v].of

(* Every version a reconciliation is of was usable at some moment while    *)
(* it was being made, though each was read in a transaction of its own;    *)
(* and no document is counted twice, unless it is an upload whose review   *)
(* requests overlapped.                                                    *)
ReconciledWhileUsable ==
    \A r \in reconciliations :
        /\ \A v \in r.notes \cup {r.invoice} : \E k \in r.since..r.until : WasUsable(v, k)
        /\ versions[r.invoice].type = "invoice"
        /\ \A v, w \in r.notes : versions[v].type = "receive_note"
              /\ versions[v].of = versions[w].of => v = w \/ versions[v].of \in Tasks \ alone
=============================================================================
