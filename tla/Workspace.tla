----------------------------- MODULE Workspace -----------------------------
(***************************************************************************)
(* The reconciliation workspace of one (tenant, store) scope:              *)
(* app/infra/postgres_workspace_repository.py with the users' commands of  *)
(* app/services/workspace_service.py and the worker's tick of              *)
(* app/workers/workspace_worker.py.                                        *)
(*                                                                         *)
(* Every repository write runs in one transaction under the scope's        *)
(* advisory lock, so each is one action.  What happens outside the lock is *)
(* split: a user reads a document and sends a command later, perhaps more  *)
(* than once (OpenDocument, then a command); the worker lists its inputs   *)
(* in two reads, computes, and saves each preview later; a rejected stale  *)
(* confirmation is marked by a second transaction (MarkStale).             *)
(*                                                                         *)
(* Outside this module: the extraction runs and the upstream receiving     *)
(* versions the workspace reads (StoreDraft, DecideRun, ImportVersion).    *)
(*                                                                         *)
(* Counters are abstracted to what the code compares: all the touches a    *)
(* transaction makes on one document are one revision step, and all its    *)
(* invalidations one step of the scope generation.  The audit action rows, *)
(* notes and timestamps are left out: no guard reads them.                 *)
(*                                                                         *)
(* A definition marked MUTANT is not part of the specification: it is the  *)
(* definition after it with a plausible bug, which must break a property.  *)
(***************************************************************************)
EXTENDS WorkspaceComparison, Sequences

CONSTANTS
    Invoices,       \* uploaded invoices, one name per intended document
    UploadNotes,    \* uploaded receiving records
    UpstreamNotes,  \* receiving identities of the TapTouch integration
    Uploaded,       \* the uploads already taken in when the behaviour starts
    LegacyUsed,     \* upstream identities used by a legacy reconciliation
    Keys,           \* idempotency keys of user requests
    FileOf,         \* the file an upload carries: its type and SHA-256
    Extracted,      \* payloads an extraction of an upload may yield
    Corrections,    \* payloads a reviewer may type for an upload
    Imported,       \* versions [payload, voided] upstream may send for an identity
    Null,
    Failures,       \* bound: how extraction runs may fail, {"failed", "cancelled"}
    Offered,        \* bound: the commands the clients of an instance send
    MaxVersion,     \* bound: upstream versions per identity
    MaxRuns,        \* bound: extraction runs per upload
    MaxOverwrites,  \* bound: late writes of expired extraction workers
    MaxFaults,      \* bound: projection faults inside a synchronisation
    MaxCrashes      \* bound: crashes of the workspace worker

Uploads == Invoices \cup UploadNotes
Notes   == UploadNotes \cup UpstreamNotes
Docs    == Invoices \cup Notes

ASSUME DocumentKinds ==
    /\ Invoices \cap UploadNotes = {}
    /\ Uploads \cap UpstreamNotes = {}
    /\ LegacyUsed \subseteq UpstreamNotes
    /\ Uploaded \subseteq Uploads
    /\ Failures \subseteq {"failed", "cancelled"}

ASSUME NullIsNoDocument == Null \notin Docs

VARIABLES
    \* document rows, every kind
    rev, proc, err, cur,
    \* document rows, the fields of an invoice
    review, selected, origin, match, preview, stale, confirmation, sourceChanged,
    \* rows of the other workspace tables
    generation, claims, previews, confirmations, served,
    \* what the workspace reads from the other components
    run, upstream,
    \* clients and the worker process
    session, marking, worker, faults

docVars     == <<rev, proc, err, cur>>
invoiceVars == <<review, selected, origin, match, preview, stale, confirmation, sourceChanged>>
tableVars   == <<generation, claims, previews, confirmations, served>>
sourceVars  == <<run, upstream>>
actorVars   == <<session, marking, worker, faults>>
vars        == <<docVars, invoiceVars, tableVars, sourceVars, actorVars>>

NoRun     == [no |-> 0, status |-> "none", draft |-> Null]
QueuedRun(no) == [no |-> no, status |-> "active", draft |-> Null]
NoVersion == [version |-> 0, voided |-> FALSE, payload |-> Null]
Idle      == [stage |-> "idle", inputs |-> {}]

Init ==
    /\ rev = [d \in Docs |-> IF d \in Uploaded THEN 1 ELSE 0]
    /\ proc = [d \in Docs |-> IF d \in Uploaded THEN "processing" ELSE "absent"]
    /\ err = [d \in Docs |-> "none"]
    /\ cur = [d \in Docs |-> Null]
    /\ review = [i \in Invoices |-> "open"]
    /\ selected = [i \in Invoices |-> {}]
    /\ origin = [i \in Invoices |-> "none"]
    /\ match = [i \in Invoices |-> "waiting_counterpart"]
    /\ preview = [i \in Invoices |-> Null]
    /\ stale = [i \in Invoices |-> TRUE]
    /\ confirmation = [i \in Invoices |-> 0]
    /\ sourceChanged = [i \in Invoices |-> FALSE]
    /\ generation = 0
    /\ claims = {}
    /\ previews = {}
    /\ confirmations = <<>>
    /\ served = {}
    /\ run = [d \in Uploads |-> IF d \in Uploaded THEN QueuedRun(1) ELSE NoRun]
    /\ upstream = [n \in UpstreamNotes |-> NoVersion]
    /\ session = [k \in Keys |-> Null]
    /\ marking = {}
    /\ worker = Idle
    /\ faults = [sync |-> 0, crash |-> 0, overwrite |-> 0]

-----------------------------------------------------------------------------
(* Reading the rows.                                                       *)

Present(d) == proc[d] # "absent"
ReadyNotes == {n \in Notes : proc[n] = "ready"}
Used       == {c.note : c \in claims} \cup {n \in LegacyUsed : Present(n)}

\* The revision an evidence hash is taken from: an edit keeps that of the
\* revision it corrects.
Revision(seq, kind, source, payload, base) ==
    [seq |-> seq, kind |-> kind, source |-> source, payload |-> payload, base |-> base]

FirstSeqMissing(d) == IF cur[d] = Null THEN Null ELSE cur[d].seq + 1  \* MUTANT
NextSeq(d) == IF cur[d] = Null THEN 1 ELSE cur[d].seq + 1

(* The snapshot a preview is computed from.                                *)
InputOf(i) ==
    [id     |-> i,
     invoice|-> cur[i],
     notes  |-> [n \in ReadyNotes |-> cur[n]],
     used   |-> Used,
     gen    |-> generation,
     rev    |-> rev[i],
     manual |-> IF origin[i] = "manual" THEN {selected[i]} ELSE {}]

Payloads(revisions) == [n \in DOMAIN revisions |-> revisions[n].payload]
Restricted(f, S)    == [n \in DOMAIN f \cap S |-> f[n]]

(* A manual selection is never discarded, even when a source is gone.      *)
ProposalOf(input) ==
    IF input.manual # {}
    THEN [selected |-> CHOOSE S \in input.manual : TRUE, status |-> "selected"]
    ELSE SelectCandidates(input.invoice.payload, Payloads(input.notes), input.used)

(* What identifies a preview: its inputs, the selection and its origin,    *)
(* and the scope generation (the result is not part of it).                *)
DigestOf(input, ids) ==
    [invoice |-> input.id, revision |-> input.invoice,
     notes   |-> Restricted(input.notes, ids), ids |-> ids,
     manual  |-> input.manual # {}, gen |-> input.gen]

SameInvoiceElsewhere(input) ==
    LET mine == input.invoice.payload
    IN  \E j \in Invoices \ {input.id} :
            /\ proc[j] # "voided" /\ cur[j] # Null
            /\ cur[j].payload.number = mine.number
            /\ SupplierStatus(mine.supplier, cur[j].payload.supplier) = "equal"

ComparisonOf(input, ids) ==
    Compare(input.invoice.payload, Payloads(Restricted(input.notes, ids)))

(* The comparison completed by the checks against the other rows.          *)
Completed(compared, input, ids) ==
    LET code(condition, name) == IF condition THEN {name} ELSE {}
        blocks == compared.blocks
            \cup code(~(ids \subseteq DOMAIN input.notes), "SOURCE_VOIDED")
            \cup code(ids \cap input.used # {}, "RECEIVING_IN_USE")
            \cup code(input.invoice.payload.number = "", "VALIDATION_BLOCKED")
            \cup code(SameInvoiceElsewhere(input), "DUPLICATE_INVOICE")
    IN  [compared EXCEPT !.blocks = blocks,
                         !.outcome = IF blocks # {} THEN "blocked" ELSE @]

ResultOf(input, ids) == Completed(ComparisonOf(input, ids), input, ids)

-----------------------------------------------------------------------------
(* Effects shared by the transactions.                                     *)

Touch(touched) == rev' = [d \in Docs |-> IF d \in touched THEN rev[d] + 1 ELSE rev[d]]

SameGeneration == generation        \* MUTANT: forgets the scope
NextGeneration == generation + 1

\* The invoices whose preview an invalidation makes stale.
EditedOnly == {i \in Invoices : cur'[i] # cur[i]}        \* MUTANT: only what was edited
Live == {i \in Invoices : review'[i] # "completed" /\ proc'[i] \notin {"absent", "voided"}}

\* The completed invoices it flags.
FlaggedByInvoice(sources, flags) ==     \* MUTANT: forgets the receiving records
    {i \in sources \cap Invoices : review'[i] = "completed" /\ ~flags[i]}
Flagged(sources, flags) ==
    {i \in Invoices : /\ review'[i] = "completed" /\ ~flags[i]
                      /\ sources \cap ({i} \cup selected[i]) # {}}

(* Invalidation: a new scope generation; every invoice still under review  *)
(* needs a new preview; a completed one is flagged when one of the sources *)
(* that changed is the invoice itself or a receiving record it confirmed.  *)
(* Reads review' and proc'.  touched are the documents the operation       *)
(* itself changes, stale0 and flags0 the flags it has already set.         *)
Invalidate(sources, touched, stale0, flags0) ==
    LET flagged == Flagged(sources, flags0)
    IN  /\ generation' = NextGeneration
        /\ stale' = [i \in Invoices |-> stale0[i] \/ i \in Live]
        /\ sourceChanged' = [i \in Invoices |-> flags0[i] \/ i \in flagged]
        /\ Touch(touched \cup Live \cup flagged)

-----------------------------------------------------------------------------
(* Uploading a file: intake creates the document and queues its first run, *)
(* or answers with the document that already holds the same file.          *)
Intake(k, d) ==
    /\ "upload" \in Offered
    /\ k \notin served /\ session[k] = Null
    /\ served' = served \cup {k}
    /\ \/ /\ \E e \in Uploads : /\ Present(e) /\ proc[e] # "voided"
                                /\ FileOf[e] = FileOf[d]
          /\ UNCHANGED <<docVars, invoiceVars, generation, run>>
       \/ /\ ~Present(d)
          /\ \A e \in Uploads :
                Present(e) /\ FileOf[e] = FileOf[d] => proc[e] = "voided"
          /\ proc' = [proc EXCEPT ![d] = "processing"]
          /\ run' = [run EXCEPT ![d] = QueuedRun(1)]
          /\ UNCHANGED <<err, cur, review, selected, origin, match, preview, confirmation>>
          /\ Invalidate({d}, {d}, stale, sourceChanged)
    /\ UNCHANGED <<claims, previews, confirmations, upstream, actorVars>>

-----------------------------------------------------------------------------
(* A client reads a document; the command it sends later carries the       *)
(* revision (and, for a confirmation, the preview) it was shown.  No       *)
(* command is accepted for an upstream document.                           *)
OpenDocument(k, d) ==
    /\ Present(d) /\ session[k] = Null /\ k \notin served
    /\ session' = [session EXCEPT ![k] =
          [doc |-> d, rev |-> rev[d], shown |-> cur[d],
           preview |-> IF d \in Invoices THEN preview[d] ELSE Null]]
    /\ UNCHANGED <<docVars, invoiceVars, tableVars, sourceVars, marking, worker, faults>>

AnyRevision(k, d) == TRUE       \* MUTANT: a command that ignores the revision
AtRevision(k, d)  == session[k].rev = rev[d]

(* The preamble of _mutate: a key already served is answered from the      *)
(* cache, a document that has moved on is a revision conflict.  served is  *)
(* the table of cached responses, written in the same transaction.         *)
Command(k, d, operation) ==
    /\ operation \in Offered
    /\ session[k] # Null /\ session[k].doc = d
    /\ k \notin served
    /\ AtRevision(k, d)
    /\ served' = served \cup {k}

\* A correction stacks on the extraction that its author corrected.
Rebased(d, payload) ==      \* MUTANT
    Revision(NextSeq(d), "manual", cur[d].source, payload, payload)
Correction(d, payload) ==
    Revision(NextSeq(d), "manual", cur[d].source, payload, cur[d].base)

EditDocument(k, d, payload) ==
    /\ Command(k, d, "edit")
    /\ d \in Uploads /\ proc[d] = "ready" /\ d \notin Used
    /\ d \in Invoices => review[d] # "completed"
    /\ cur' = [cur EXCEPT ![d] = Correction(d, payload)]
    /\ err' = [err EXCEPT ![d] = "none"]
    /\ UNCHANGED <<proc, review, selected, origin, match, preview, confirmation>>
    /\ Invalidate({d}, {d}, stale, sourceChanged)
    /\ UNCHANGED <<claims, previews, confirmations, sourceVars, actorVars>>

UnderReview(i)  == proc[i] = "ready" /\ review[i] # "completed"

SelectNotes(k, i, ids) ==
    /\ Command(k, i, "select")
    /\ UnderReview(i)
    /\ \A n \in ids :
          /\ proc[n] = "ready" /\ n \notin Used
          /\ SupplierStatus(cur[i].payload.supplier, cur[n].payload.supplier) = "equal"
          /\ cur[i].payload.currency = cur[n].payload.currency
    /\ selected' = [selected EXCEPT ![i] = ids]
    /\ origin' = [origin EXCEPT ![i] = IF ids = {} THEN "none" ELSE "manual"]
    /\ stale' = [stale EXCEPT ![i] = TRUE]
    /\ preview' = [preview EXCEPT ![i] = Null]
    /\ Touch({i})
    /\ UNCHANGED <<proc, err, cur, review, match, confirmation, sourceChanged, generation,
                   claims, previews, confirmations, sourceVars, actorVars>>

Investigate(k, i) ==
    /\ Command(k, i, "investigate")
    /\ UnderReview(i)
    /\ review' = [review EXCEPT ![i] = "investigating"]
    /\ Touch({i})
    /\ UNCHANGED <<proc, err, cur, selected, origin, match, preview, stale, confirmation,
                   sourceChanged, generation, claims, previews, confirmations,
                   sourceVars, actorVars>>
-----------------------------------------------------------------------------
(* Confirmation.                                                           *)

DraftReady(d) == run[d].status = "ready" /\ run[d].draft # Null

\* The document shows what its latest run extracted, possibly corrected.
Projected(d) ==
    /\ DraftReady(d) /\ cur[d] # Null
    /\ cur[d].source = run[d].no /\ cur[d].base = run[d].draft

SourcesCurrent(docs) ==
    /\ \A n \in UpstreamNotes : upstream[n].version > 0 =>
          IF Present(n) THEN cur[n] # Null /\ cur[n].source = upstream[n].version
                        ELSE upstream[n].voided
    /\ \A d \in Uploads :
          Present(d) /\ proc[d] # "voided" /\ DraftReady(d) => Projected(d)
    /\ \A d \in docs :
          /\ proc[d] = "ready" /\ cur[d] # Null /\ err[d] # "SOURCE_REVIEW_REQUIRED"
          /\ d \in Uploads => DraftReady(d) /\ run[d].no = cur[d].source

(* The three groups of checks that answer PREVIEW_STALE, in their order.   *)
PreviewMovedOn(k, i) ==
    \/ stale[i] \/ preview[i] = Null
    \/ preview[i] # session[k].preview
    \/ preview[i].digest.gen # generation

SourcesNotRead(i) == FALSE      \* MUTANT: trusts the last synchronisation
SourcesMovedOn(i) == ~SourcesCurrent({i} \cup selected[i])

PreviewNoLongerHolds(i) ==
    LET input == InputOf(i)
    IN  \/ ProposalOf(input).selected # selected[i]
        \/ DigestOf(input, selected[i]) # preview[i].digest
        \/ ResultOf(input, selected[i]) # preview[i].result

Unresolved(i) == ProposalOf(InputOf(i)).selected = {}

(* No check answers PREVIEW_STALE.                                         *)
StillAsShown(k, i) ==
    /\ ~PreviewMovedOn(k, i)
    /\ ~SourcesMovedOn(i)
    /\ Unresolved(i) \/ ~PreviewNoLongerHolds(i)

\* Common to both outcomes below: the checks that precede them in _confirm.
ConfirmAttempt(k, i) ==
    /\ session[k] # Null /\ session[k].doc = i /\ k \notin served
    /\ AtRevision(k, i)
    /\ UnderReview(i)
    /\ selected[i] \cap Used = {}

(* The primary key of the claims table is the receiving document: the      *)
(* insertion of a second row for one would abort the transaction.          *)
ClaimInsertable(i) == \A n \in selected[i] : \A c \in claims : c.note # n

Confirm(k, i) ==
    /\ ConfirmAttempt(k, i)
    /\ Command(k, i, "confirm")
    /\ StillAsShown(k, i)
    /\ ~Unresolved(i)
    /\ preview[i].result.outcome # "blocked"
    /\ ClaimInsertable(i)
    /\ confirmations' = Append(confirmations, [invoice |-> i, preview |-> preview[i]])
    /\ claims' = claims \cup
          {[note |-> n, invoice |-> i, by |-> Len(confirmations) + 1] : n \in selected[i]}
    /\ review' = [review EXCEPT ![i] = "completed"]
    /\ confirmation' = [confirmation EXCEPT ![i] = Len(confirmations) + 1]
    /\ UNCHANGED <<proc, err, cur, selected, origin, match, preview>>
    /\ Invalidate({}, {i}, stale, [sourceChanged EXCEPT ![i] = FALSE])
    /\ UNCHANGED <<previews, sourceVars, actorVars>>

(* A confirmation refused as stale: its transaction rolls back, and the    *)
(* handler goes on to a second one that requests a new preview.            *)
ConfirmRefusedStale(k, i) ==
    /\ ConfirmAttempt(k, i)
    /\ ~StillAsShown(k, i)
    /\ i \notin marking
    /\ marking' = marking \cup {i}
    /\ UNCHANGED <<docVars, invoiceVars, tableVars, sourceVars, session, worker, faults>>

MarkStale(i) ==
    /\ i \in marking
    /\ marking' = marking \ {i}
    /\ stale' = [stale EXCEPT ![i] = stale[i] \/ review[i] # "completed"]
    /\ UNCHANGED <<docVars, review, selected, origin, match, preview, confirmation,
                   sourceChanged, tableVars, sourceVars, session, worker, faults>>

ClaimsKept(i)    == claims      \* MUTANT: reopening gives nothing back
ClaimsWithout(i) == {c \in claims : c.invoice # i}

Reopen(k, i) ==
    /\ Command(k, i, "reopen")
    /\ review[i] = "completed"
    /\ claims' = ClaimsWithout(i)
    /\ confirmation' = [confirmation EXCEPT ![i] = 0]
    /\ review' = [review EXCEPT ![i] = "open"]
    /\ UNCHANGED <<proc, err, cur, selected, origin, match, preview>>
    /\ Invalidate({}, {i}, [stale EXCEPT ![i] = TRUE], [sourceChanged EXCEPT ![i] = FALSE])
    /\ UNCHANGED <<previews, confirmations, sourceVars, actorVars>>

VoidDocument(k, d) ==
    /\ Command(k, d, "void")
    /\ d \in Uploads /\ proc[d] # "voided" /\ d \notin Used
    /\ d \in Invoices => review[d] # "completed"
    /\ proc' = [proc EXCEPT ![d] = "voided"]
    /\ UNCHANGED <<err, cur, review, selected, origin, match, preview, confirmation>>
    /\ Invalidate({d}, {d}, [i \in Invoices |-> stale[i] \/ i = d], sourceChanged)
    /\ UNCHANGED <<claims, previews, confirmations, sourceVars, actorVars>>

(* A new run is queued only while nothing of the file was ever extracted.  *)
RetryExtraction(k, d) ==
    /\ Command(k, d, "retry")
    /\ d \in Uploads /\ proc[d] \in {"failed", "cancelled"}
    /\ cur[d] = Null /\ run[d].draft = Null /\ run[d].status # "active"
    /\ run[d].no < MaxRuns
    /\ run' = [run EXCEPT ![d] = QueuedRun(@.no + 1)]
    /\ proc' = [proc EXCEPT ![d] = "processing"]
    /\ err' = [err EXCEPT ![d] = "none"]
    /\ Touch({d})
    /\ UNCHANGED <<cur, invoiceVars, generation, claims, previews, confirmations,
                   upstream, actorVars>>

-----------------------------------------------------------------------------
(* The sources.                                                            *)

(* The extraction worker stores the draft of a run, once (document_drafts  *)
(* .run_id is unique), and decides the run in another transaction; its     *)
(* writes carry no fencing token, so a worker whose lease expired may also *)
(* do either to a run that is already decided (ExtractionPipeline).  Only  *)
(* the latest run of a file is kept.                                       *)
InTime(d) == run[d].status = "active"
CountOverwrite(d) ==
    /\ InTime(d) \/ faults.overwrite < MaxOverwrites
    /\ faults' = [faults EXCEPT !.overwrite = IF InTime(d) THEN @ ELSE @ + 1]

StoreDraft(d, draft) ==
    /\ run[d].no > 0 /\ run[d].draft = Null
    /\ CountOverwrite(d)
    /\ run' = [run EXCEPT ![d].draft = draft]
    /\ UNCHANGED <<docVars, invoiceVars, tableVars, upstream, session, marking, worker>>

DecideRun(d, status) ==
    /\ run[d].no > 0 /\ run[d].status # status
    /\ status = "ready" => run[d].draft # Null
    /\ CountOverwrite(d)
    /\ run' = [run EXCEPT ![d].status = status]
    /\ UNCHANGED <<docVars, invoiceVars, tableVars, upstream, session, marking, worker>>

(* The integration delivers a newer version of a receiving record.         *)
ImportVersion(n, v) ==
    /\ upstream[n].version < MaxVersion
    /\ upstream' = [upstream EXCEPT ![n] = [version |-> @.version + 1,
                                            voided |-> v.voided, payload |-> v.payload]]
    /\ UNCHANGED <<docVars, invoiceVars, tableVars, run, actorVars>>

UnflaggedUploads ==     \* MUTANT: never tries again what failed once
    {d \in Uploads : Present(d) /\ proc[d] # "voided" /\ err[d] # "SOURCE_REVIEW_REQUIRED"}
SyncedUploads == {d \in Uploads : Present(d) /\ proc[d] # "voided"}

HandCorrected(d) == cur[d] # Null /\ cur[d].kind = "manual"

(* One synchronisation projects every source that moved on, each document  *)
(* inside a savepoint: a document in `failing` keeps its old state and is   *)
(* flagged, the others go through.                                         *)
SyncSources(failing) ==
    LET moved == {n \in UpstreamNotes :
                    /\ upstream[n].version > 0
                    /\ Present(n) \/ ~upstream[n].voided
                    /\ cur[n] = Null \/ cur[n].source # upstream[n].version}
        uploads  == SyncedUploads \ failing
        pending  == {d \in uploads : ~Projected(d)}
        edited   == {d \in pending : HandCorrected(d)}
        imported == moved \ failing
        extracted == {d \in pending \ edited : DraftReady(d)}
        waiting   == (pending \ edited) \ extracted
        statusOf(d) == IF run[d].status \in {"failed", "cancelled"} THEN run[d].status
                       ELSE "processing"
        errorOf(d)  == IF run[d].status = "failed" THEN "EXTRACTION_FAILED" ELSE "none"
        settled   == {d \in waiting : proc[d] # statusOf(d) \/ err[d] # errorOf(d)}
        conflict  == {d \in edited : err[d] # "SOURCE_REVIEW_REQUIRED"}
        cleared   == {d \in uploads \ pending : err[d] # "none"}
        broken    == {d \in failing : Present(d)}
        changed   == imported \cup extracted \cup settled \cup conflict
    IN  /\ worker = Idle
        /\ failing # {} => faults.sync < MaxFaults
        /\ failing \subseteq moved \cup SyncedUploads
        /\ cur' = [d \in Docs |->
             IF d \in imported
             THEN Revision(NextSeq(d), "upstream", upstream[d].version,
                           upstream[d].payload, upstream[d].payload)
             ELSE IF d \in extracted
             THEN Revision(NextSeq(d), "extracted", run[d].no, run[d].draft, run[d].draft)
             ELSE cur[d]]
        /\ proc' = [d \in Docs |->
             IF d \in imported THEN IF upstream[d].voided THEN "voided" ELSE "ready"
             ELSE IF d \in extracted THEN "ready"
             ELSE IF d \in settled THEN statusOf(d) ELSE proc[d]]
        /\ err' = [d \in Docs |->
             IF d \in broken \cup conflict THEN "SOURCE_REVIEW_REQUIRED"
             ELSE IF d \in settled THEN errorOf(d)
             ELSE IF d \in imported \cup extracted \cup cleared THEN "none" ELSE err[d]]
        /\ UNCHANGED <<review, selected, origin, match, preview, confirmation>>
        /\ IF changed = {}
           THEN UNCHANGED <<generation, stale, sourceChanged>> /\ Touch(cleared)
           ELSE Invalidate(changed, changed \cup cleared, stale, sourceChanged)
        /\ worker' = [worker EXCEPT !.stage = "synced"]
        /\ faults' = [faults EXCEPT !.sync = IF failing = {} THEN @ ELSE @ + 1]
        /\ UNCHANGED <<claims, previews, confirmations, served, sourceVars, session, marking>>

-----------------------------------------------------------------------------
(* The rest of the worker's tick.                                          *)

FirstPreviews   == {i \in Invoices : UnderReview(i) /\ preview[i] = Null}     \* MUTANT
PendingPreviews == {i \in Invoices : UnderReview(i) /\ stale[i]}

\* The documents are read first ...
ListPending ==
    /\ worker.stage = "synced"
    /\ worker' = IF PendingPreviews = {} THEN Idle
                 ELSE [stage |-> "listed", inputs |-> {InputOf(i) : i \in PendingPreviews}]
    /\ UNCHANGED <<docVars, invoiceVars, tableVars, sourceVars, session, marking, faults>>

\* ... the scope's generation and the claims by later statements, and the
\* proposals and comparisons are computed from what was read.
ReadAndCompute ==
    /\ worker.stage = "listed"
    /\ worker' = [stage |-> "computed", inputs |->
          {[input    |-> input,
            proposal |-> ProposalOf(input),
            compared |-> ComparisonOf(input, ProposalOf(input).selected)] :
              input \in {[listed EXCEPT !.gen = generation, !.used = Used] :
                            listed \in worker.inputs}}]
    /\ UNCHANGED <<docVars, invoiceVars, tableVars, sourceVars, session, marking, faults>>

Without(work) ==
    IF worker.inputs = {work} THEN Idle ELSE [worker EXCEPT !.inputs = @ \ {work}]

AnyInput(input) == UnderReview(input.id)        \* MUTANT: saves what it computed
InputCurrent(input) ==
    /\ UnderReview(input.id)
    /\ rev[input.id] = input.rev
    /\ generation = input.gen
    /\ InputOf(input.id) = input

SavePreview(work) ==
    /\ worker.stage = "computed" /\ work \in worker.inputs
    /\ worker' = Without(work)
    /\ InputCurrent(work.input)
    /\ LET i      == work.input.id
           ids    == work.proposal.selected
           digest == DigestOf(work.input, ids)
           same   == {p \in previews : p.digest = digest}
           row    == IF same # {} THEN CHOOSE p \in same : TRUE
                     ELSE [digest |-> digest,
                           result |-> Completed(work.compared, work.input, ids)]
       IN  /\ match' = [match EXCEPT ![i] = work.proposal.status]
           /\ selected' = [selected EXCEPT ![i] = ids]
           /\ origin' = [origin EXCEPT ![i] =
                 IF @ = "manual" THEN @ ELSE IF ids = {} THEN "none" ELSE "automatic"]
           /\ preview' = [preview EXCEPT ![i] = IF ids = {} THEN Null ELSE row]
           /\ previews' = IF ids = {} THEN previews ELSE previews \cup {row}
           /\ stale' = [stale EXCEPT ![i] = FALSE]
           /\ Touch({i})
    /\ UNCHANGED <<proc, err, cur, review, confirmation, sourceChanged, generation, claims,
                   confirmations, served, sourceVars, session, marking, faults>>

\* The document or the scope moved on since the input was read.
DiscardPreview(work) ==
    /\ worker.stage = "computed" /\ work \in worker.inputs
    /\ ~InputCurrent(work.input)
    /\ worker' = Without(work)
    /\ UNCHANGED <<docVars, invoiceVars, tableVars, sourceVars, session, marking, faults>>

(* The worker process dies anywhere between two transactions; a new one    *)
(* starts with a new tick.                                                 *)
WorkerCrash ==
    /\ worker # Idle /\ faults.crash < MaxCrashes
    /\ worker' = Idle
    /\ faults' = [faults EXCEPT !.crash = @ + 1]
    /\ UNCHANGED <<docVars, invoiceVars, tableVars, sourceVars, session, marking>>

(* An API process dies after a refused confirmation, before it marks the   *)
(* document.                                                               *)
MarkLost(i) ==
    /\ i \in marking /\ faults.crash < MaxCrashes
    /\ marking' = marking \ {i}
    /\ faults' = [faults EXCEPT !.crash = @ + 1]
    /\ UNCHANGED <<docVars, invoiceVars, tableVars, sourceVars, session, worker>>

-----------------------------------------------------------------------------
Upload == \E k \in Keys, d \in Uploads : Intake(k, d)

CommandStep ==
    \/ \E k \in Keys, d \in Uploads : OpenDocument(k, d)
    \/ \E k \in Keys, d \in Uploads : \E p \in Corrections[d] : EditDocument(k, d, p)
    \/ \E k \in Keys, i \in Invoices : \E ids \in SUBSET Notes : SelectNotes(k, i, ids)
    \/ \E k \in Keys, i \in Invoices : Investigate(k, i)
    \/ \E k \in Keys, i \in Invoices : Confirm(k, i)
    \/ \E k \in Keys, i \in Invoices : ConfirmRefusedStale(k, i)
    \/ \E i \in Invoices : MarkStale(i)
    \/ \E k \in Keys, i \in Invoices : Reopen(k, i)
    \/ \E k \in Keys, d \in Uploads : VoidDocument(k, d)
    \/ \E k \in Keys, d \in Uploads : RetryExtraction(k, d)

UserStep == Upload \/ CommandStep

SourceStep ==
    \/ \E d \in Uploads : \E p \in Extracted[d] : StoreDraft(d, p)
    \/ \E d \in Uploads, s \in {"active", "ready"} \cup Failures : DecideRun(d, s)
    \/ \E n \in UpstreamNotes : \E v \in Imported[n] : ImportVersion(n, v)

WorkerTick ==
    \/ \E failing \in SUBSET Docs : SyncSources(failing)
    \/ ListPending
    \/ ReadAndCompute
    \/ \E work \in worker.inputs : SavePreview(work) \/ DiscardPreview(work)

FaultStep == WorkerCrash \/ \E i \in Invoices : MarkLost(i)

Next == UserStep \/ SourceStep \/ WorkerTick \/ FaultStep

Spec     == Init /\ [][Next]_vars
(* run_forever: every tick comes to its end and is followed by another.    *)
(* In each stage of a tick some worker step is enabled until it is taken,  *)
(* so this is weak fairness of WorkerTick, stated on the stages.           *)
KeepsTicking == []<>(worker = Idle) /\ []<>(worker # Idle)
FairSpec     == Spec /\ KeepsTicking
=============================================================================
