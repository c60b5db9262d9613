# TLA+ specifications of IVIDA Invoice Reconciliation

Invoices and delivery notes are uploaded, extracted by workers, matched with
receiving records of a till system, compared, and confirmed by people. This
directory models the parts of that program in which several processes, people or
transactions meet, and the rules their decisions follow.

All paths are relative to the repository; `app/...` is its Python package.

## 1. Inventory

Processes (`compose.yaml:59-91`): `api` serves people and the till system's
integration; `worker` runs `ExtractionWorker.run_forever`; `workspace-worker` runs
`WorkspaceWorker.run_forever`; evaluations are started by hand from the command line.
They share one PostgreSQL database, an object store, the cache directory of the
evaluations, and nothing else. None has a restart policy: a process that died stays
so until somebody starts it.

| Component | State it keeps | Operations | What makes it correct |
|---|---|---|---|
| Workspace commands (`workspace_service.py`, `postgres_workspace_repository.py`) | documents with revisions, previews, claims, confirmations, the generation of the scope, stored answers by idempotency key | intake, edit, select, investigate, confirm, reopen, void, retry | a record is used once; what is confirmed is what was shown; nothing confirmed changes unseen; no edit is lost |
| Workspace worker (`workspace_worker.py`) | nothing of its own | tick: synchronise sources, list stale previews, compute, save | a preview that is not stale is true; every stale one is renewed |
| Matching, comparison (`workspace_matching.py`, `workspace_comparison.py`) | none (pure) | `select_candidates`, `compare_workspace` | unknown values make no difference; what is proposed can be compared |
| Upload, object store (`document_upload_service.py`, `minio_storage.py`) | files | put, delete | no document without its file; a file left over has a cause |
| Extraction (`extraction_worker.py`, `postgres_extraction_run_repository.py`) | runs, leases, parse results, drafts, the task | claim, submit, poll, normalize, retry, fail, cancel | one worker per run, bounded retries, every run decided, ready only with a draft |
| TapTouch import (`postgres_taptouch_receiving_repository.py`) | versions of receiving records | import | versions only grow, an identity keeps its supplier |
| Review (`review_service.py`, `postgres_review_repository.py`) | versions of uploaded documents, their audit rows | start, edit, reclassify, approve, reject | a linear history; the audit trail tells the decisions |
| Reconciliation (`reconciliation_application_service.py`, `reconciliation_service.py`, `matching_service.py`) | reconciliations | score candidates, compare, store | only usable versions are compared; every shortage is decided by a person |
| Cases (`reconciliation_case_service.py`, `postgres_reconciliation_case_repository.py`) | case, items, audit trail | claim, reassign, resolve, submit, approve, void, return | a change is decided by the case as it is; what is shown is one revision |
| Validation (`validation_service.py`) | none (pure) | validate | a rule needs the values it is about |
| Experiments, evaluation (`app/experiments`, `app/evaluation`) | runs, promotion decisions, parse cache, feedback | run, compare, decide, collect, confirm | a run tells what happened; a recommendation is founded; a verdict stands |
| Accounts, runtime status, front end, tooling | sessions, heartbeats | | see section 8 |

How they interact: the extraction worker writes runs and drafts, the import writes
versions; the workspace reads both, in each tick (`sync_sources`), when an uploaded
file is opened, and when a confirmation checks its sources. Review makes versions of
the drafts, a reconciliation reads approved versions, and opens a case in its own
transaction. Legacy write routes (review, reconciliation, cases) answer 409
`LEGACY_READ_ONLY` while the workspace is enabled (`app/api/dependencies.py:261`), so
those components and the workspace do not run against each other; what the legacy has
used up is the constant `LegacyUsed` of `Workspace`.

What is hard, and where (PROJECT.json lists every hazard with its line):

- the worker computes previews outside any transaction, from two reads that are not
  one snapshot (`pending_previews`: documents, then generation and claims);
- people act on what they read earlier, several of them, and repeat requests;
- sources of a confirmed invoice change later: new upstream versions, late writes of
  extraction workers;
- extraction workers crash between any two transactions, and go on after their lease
  ran out, because no write compares the lease; an error of a worker fails its run also
  when the worker has released or decided it;
- a file is stored before the transaction that needs it, and deleted after one that
  turned out not to;
- a review request is three transactions, a reconciliation one for each version it
  reads, a case is read in three queries without a lock;
- an evaluation may be interrupted between any two file operations, an error of one
  document does not end it, and it pays again for the remote jobs it has lost sight of;
- the rules (validation, two matchings, two comparisons) have to agree on documents from
  which values are missing, and bring goods into two different normal forms.

## 2. Modules

| Module | What it is |
|---|---|
| `WorkspaceMatching` | `select_candidates` as operators on an invoice and a set of records |
| `WorkspaceComparison` | `compare_workspace`: groups of lines, sums, blocks |
| `Workspace` | one scope: rows, people's sessions, the worker's tick, the two sources it reads; uses the two modules above |
| `WorkspaceProperties` | its properties, and the mapping to `ReceivingClaims` |
| `ReceivingClaims` | abstract: records are taken all at once by a free invoice and given back all at once |
| `UploadStorage` | uploads with their objects, composed with the workspace |
| `ExtractionPipeline` | one file: its runs, workers, external services, crashes, leases |
| `ExtractionProperties` | its properties, the mapping to `RunLifecycle`, and two statements of the documentation |
| `RunLifecycle` | abstract: a run is queued, drafted while open, decided once unless its worker met an error after releasing it |
| `DocumentReview` | the table of versions: review requests and imports |
| `Reconciliations` | comparisons of approved versions, over `DocumentReview` |
| `ReviewProperties` | the properties of both |
| `ReconciliationCases` | cases, and the requests that read and change them |
| `CaseWorkflow` | abstract: a case without requests, revisions or transactions |
| `CaseProperties` | properties of cases, and the mapping to `CaseWorkflow` |
| `QualityGate` | measures of an experiment and the rules of promotion, as operators |
| `Experiments` | evaluation runs, the parse cache, promotion decisions; uses `QualityGate` |
| `Feedback` | collection and judgement of reviewers' edits |
| `QualityLab` | both side by side, with their properties |
| `DocumentRules` | validation, legacy matching, comparison and case making as operators; uses `WorkspaceComparison` |
| `DeliveryDocuments` | documents of one delivery that drift apart, and what the rules say of them |
| `MCWorkspace`, `MCUploads`, `MCExtraction`, `MCReview`, `MCCases`, `MCLab`, `MCRules` | small instances for TLC |
| `WorkspaceProofs`, `StorageProofs`, `ExtractionProofs`, `ReviewProofs`, `CaseProofs`, `LabProofs`, `RulesProofs` | theorems |
| `NumberLemmas` | lemmas on least members and on sums over finite sets, for the last three |

A definition marked `MUTANT` is no part of a specification: it is the definition that
follows it with a plausible bug, kept to see that a property notices the bug.

### Workspace and the code

Every write of the repository runs in one transaction under the scope's advisory
lock, so each is one action. What the code does outside the lock is split:

- *a person*: `OpenDocument` (`get_document`) stores in the session of a request what
  is shown: revision, preview, current revision of the text. A command compares it later.
  The key of a request is its idempotency key; `served` holds the keys whose answer is
  stored, and a key in it does nothing again.
- *the worker*: `SyncSources` (with a set of documents whose savepoint is rolled back),
  `ListPending` (the documents), `ReadAndCompute` (generation and claims, then the
  computation), `SavePreview` or `DiscardPreview` for each input, in any order.
  `WorkerCrash` may come after each.
- *a refused confirmation*: `ConfirmRefusedStale`, then `MarkStale` in a transaction of
  its own, or `MarkLost`.
- *the sources*: `StoreDraft` and `DecideRun` are what an extraction worker writes, also
  after its run was decided (`CountOverwrite`: there is no fencing);
  `ImportVersion` is the arrival of a newer upstream version.

| Variable | Code |
|---|---|
| `rev`, `proc`, `err`, `cur` | `revision`, `processing_status`, `error_code`, current revision of `workspace_documents` |
| `review`, `selected`, `origin`, `match`, `preview`, `stale`, `confirmation`, `sourceChanged` | the invoice's columns |
| `generation`, `claims`, `previews`, `confirmations`, `served` | scope row, claim rows, preview rows, confirmation rows, stored answers |
| `run`, `upstream` | the latest run of a file with its draft; the newest version of an upstream identity |
| `session`, `marking`, `worker` | a client's reading; requests between their two transactions; the worker's local state |

Abstractions, each with its reason:

- all touches of one document in a transaction are one step of `rev`, all invalidations
  one step of `generation`: the code compares both only for equality;
- a payload is a record of what matching and comparison read; quantities are small
  integers, an amount is a set of at most one integer, days are integers, `issues` are
  the blocking findings of the validation;
- only the latest run of a file is kept, because `_latest_run` reads no other;
- the acknowledgement and note a confirmation needs (`_confirm` 697-701) are left out:
  they restrict the wording of one request and no other state;
- action rows, timestamps, actors and labels are left out: no guard reads them;
- the cap of 100 pending previews and of 100 records per purchase order are beyond the
  instances and left out;
- `LegacyUsed` (records used by a legacy reconciliation, `_used`) is a constant, since
  the legacy writers are frozen; it is empty in the runs and arbitrary in the proofs.

### UploadStorage and the code

`WorkspaceService.upload` stores the object (`Prepare`), then runs the intake
transaction, then deletes the object if the answer shows that it is not needed.
An attempt is one call; several calls may carry one key, at the same time as well.
`IntakeCommits` is the action `Intake` of `Workspace` together with what the handler
learns: a new document keeps the object (`original`), a duplicate leaves it `unused`.
`IntakeCommitsUnheard` is a commit whose acknowledgement is lost: the handler takes it
for a failure and deletes the original of the document it has just made. The history
variables `leaked` and `misled` name the two ways in which the code cannot keep its
promise, and the properties hold except there.

### ExtractionPipeline and the code

A worker has a program counter, and a copy of the row it claimed, which the code keeps
reading after the row has changed. `pc` names the next transaction or call: `claimed`
(the check for a cancellation), `submit`, `poll`, `normalize`, the step after each, and
what follows an error (`backing_off`, `failing`, `cancelling`). An external call
(`Submit`, `Poll`, `Normalize`) returns, or raises a retryable or a terminal error, as
the constant `Troubles` allows; a poll may also answer that the job is running or failed.

Any other exception, of a call, a file or the database, reaches the outer handler of
`run_once` (`extraction_worker.py:103-114`), which fails the run. `Error` is that exit: it may be
taken wherever a worker is inside the `try`, hence before or after each effect of a stage,
and `Finish` takes it after the transaction a stage ends with. The handler does not ask
what has become of the run. An error after the write that released it (`HandedOver`: the
check for a cancellation after a submission, the update of the task after a decision)
turns a ready run into a failed one, or fails a run another worker has claimed. The
history variable `late` holds these runs. An exception inside a handler is caught by
nobody; it ends the process, which is a `Crash`.

`StoreParse` and `StoreDraft` insert a row that is unique per run: the second insert
raises, and the worker's outermost handler fails the run. `Reschedule` and `BackOff`
run `schedule_poll`, which sets the status to `parsing` from every stage. A lease is
the worker that holds it, or none: one that has expired is as good as none, since
only `claim_next` reads it. `LeaseExpires` frees the lease of a worker that is no longer
at the run, `LeaseOverrun` one whose worker still is.

Time is abstracted: `next_attempt_at` is past whenever a worker looks. This adds only
earlier claims, never a behaviour in which a run waits for ever.

### DocumentReview, Reconciliations and the code

`versions` is the table `document_versions` in the order its rows were committed, for
uploads and receiving records alike. A request of the review has three transactions:
the check (`StartReview`, `SaveEdit`, `Reclassify`, `Approve`), the write
(`CreateVersion`, `WriteApproval`) and the audit row (`AppendAction`); `Reject` writes at
once, since `review_service.py` does not check before it. `Drop` ends a request after any
of them: a conflict, a lost process. The history variable `alone` holds the documents
whose requests never overlapped, `unaudited` the versions whose request failed between
the write and its audit row.

`ImportVersion` runs under the lock of its scope and is atomic: it refuses a number that
is not newer and a supplier other than the first. A version is a body (the quantity it
states) of which some block the approval; of a receiving record also whether it is
active.

A comparison (`CompareInvoice`, `CompareNote`, `SaveReconciliation`) reads each version in
a transaction of its own. What it computes from its copies is in `DocumentRules`; here a
reconciliation is the versions it is of and, as history, the span in which it was made.

### ReconciliationCases and the code

Row, items and audit trail are three queries without a lock, so a request holds copies
that may be of different revisions: `ReadCase`, then `ReadItems` and `ReadActions`, in the
order the code has them (the detail reads row, items, trail; a change reads row, trail,
items). `Save` is the transaction of a change: the update of the row compares the
revision, and for a claim the status and assignee, then one item and one row of the trail
are written. `View` compares the revision again and `ReadAgain` repeats the reading, three
times at most. A request that is refused ends by `Drop`.

Senders are the active accounts; `Inactive` are reviewers an administrator may name as a
target (no code deactivates an account, so they are a constant). A case changes only
through a request, and requests never delete.

### Experiments, QualityGate, Feedback and the code

A runner is an evaluation process; its program counter names what it does next. `runs`
are rows whose every transition is guarded by the statuses it may leave
(`Transition`). Per document three files are shared by all processes: the metadata and
the archive of a finished parse, and the mark of a job that is not finished. Opening a file
empties it and is a step of its own, so that a death in between leaves a damaged file
(`whole`). `Lookup` and `ResumeOrSubmit` find a finished parse, resume a marked job or buy a
new one. An error of the parser, the provider or a file fails the document and the process
goes on with the next (`Failure`, `evaluation/runner.py:131`), also when the service had
accepted the job and only its answer was lost, and when the mark cannot be written
(`PutPending`); the history variable `forgotten` holds the jobs lost in these ways and by a
process that ended before its mark. An error outside the handling of a document ends the
evaluation (`EvaluationFails`), which marks its run failed. `Interrupt` is Ctrl-C, which the
runner answers by cancelling the run; `Die` is a death without an answer. `QualityGate` has the
metrics, the ranking, the slices and the decision as operators; `Decide` applies them to any
two runs.

`Feedback` splits the collection into the reading of the rows and the insertion, and a
verdict into the reading of the candidate, the replacement when it is judged already, the
loading and the writing of the row, which has no lock.

The two parts share no state. In `QualityLab` a behaviour is one of the two, so the
instance is their sum and not their product.

Left out: the identity of a dataset covers the manifest and the source documents but not
the gold files, and the evaluator reads the manifest a second time
(`app/evaluation/runner.py:65`); an edit between the two readings is outside the model, in
which the documents of a manifest (`Dataset`) are constant.

### DocumentRules, DeliveryDocuments and the code

`BlockingIssues` is `ValidationService.validate` without the warnings; `Points`, `Conflicts`
and `Recommended` are `assess_candidate`; `Merged`, `Gaps`, `Classify` and `Reconcile` are the
legacy comparison; `CaseItemsOf` is `build_case_bundle`. The average price is compared as a
fraction.

Texts are compared in two normal forms, which are not the same. The legacy
(`_match_key`, `_normalise`) keeps a-z and 0-9 only: goods written in Chinese all become one
good without a name, and full-width letters vanish. The workspace (`_normal`) applies NFKC
and keeps every letter and digit. A line therefore has two names, `match` for the
legacy and `key` for the workspace; of the headers, `Stripped` and `Normal` give the two
forms of a text, and `Payload` is what the workspace reads of a document. The instance has
goods of each sort: two in Chinese, one in two widths, one plain.

`DeliveryDocuments` starts from an exact invoice and a note of the same goods and
lets goods come with a second note (`DeliverApart`), values be missing (`Missed`) or misread
(`Misread`, also as other goods); the properties are evaluated on every pair that results. `Document` and `Item`
follow the types of `domain/documents.py`, with the ranges of numbers left open, since no
theorem needs them; `Texts`, `Originals`, `Errors`, `OtherHeaders` and
`OtherGoods` are constants, and `OriginalsAreExact` says of the invoices to start from that all their values
are known and agree, without which a difference would not be the work of a step.

## 3. Properties

**Workspace.** Invariants: `ClaimsAreTheConfirmedSelections` (no record is held twice;
the claims are exactly what the completed invoices confirmed last),
`ConfirmedSourcesUnchanged` (a completed invoice that carries no flag still has the
sources it was confirmed with), `FreshPreviewIsTrue` (computing a fresh preview again
now gives what is shown).
Step properties: `GenerationCoversInputs`, `ConfirmedAsShown`, `EditsReplaceWhatWasRead`,
`CorrectionsAreKept`, `HeldRecordsChangeVisibly`. Refinement: `ImplementsReceivingClaims`.
Liveness: `StalePreviewsAreRenewed`, `DraftsAreProjected`.

They correspond to scenarios A12 to A19, A21, A22 and A27 of `spec/07-acceptance.md`, of
which the tests run one interleaving each.

`FreshPreviewIsTrue` is the central one for the worker: the computation is compared
with the state by revision and generation alone, so each command has to advance the
right one; the invariant says that together they cover everything a preview reads.
`GenerationCoversInputs` isolates the part of the generation.

**Uploads.** Invariants: `OriginalsAreKept` (no clean-up removes the original of an
accepted document), `OrphansHaveACause` (what is left over in the store has a failed or
broken clean-up behind it, and no two documents share an object).

**Extraction.** Invariants: `ReadyRunsHaveDrafts`, `TaskReportsARealOutcome`,
`RetriesAreBounded`, `OneWorkerPerRun`. Step property: `CancelledRunsGetNoDraft`.
Refinement: `ImplementsRunLifecycle`. Liveness: `RunsAreDecided`. The lifecycle and the task
have one exception, which is what the code does: a run whose worker met an error after
releasing it (`late`) is failed whatever it was.

**Review, import, reconciliation.** Invariants: `AuditTellsTheDecision`,
`LinearWithoutOverlap` (a document whose requests never overlapped has a linear history;
with an overlap histories may fork, which the docstring of `_require_editable_latest`
leaves to the "single reviewer pilot"), `OfferedIsAccepted` (the listing and the check of a
version agree), `ReceivingOnlyMovesOn`, `ReconciledWhileUsable`.

**Cases.** Invariants: `AuditExplainsWhatIsShown` (a case and every answer is the case its
audit trail tells of), `DecisionsAreSupported`. Refinement: `ImplementsCaseWorkflow`.

**Laboratory.** Invariants: `RunsTellTheirStory`, `JobsAreNotBoughtTwice`,
`RecommendationsAreFounded`. Step property: `VerdictsStand`. Their exceptions are what the
code does not promise: a run whose process died stays queued or running for ever; a job
is bought again whose process ended before it wrote its mark, whose submission was accepted
without an answer, whose mark could not be opened, or which belongs to overlapping
evaluations; two requests that loaded a row before either wrote it overwrite each other.

**Rules.** Invariants over documents: `UnknownMakesNoDifference` (what is missing gives
nobody a line to decide on), `ShortagesAreDecided` (each reconciliation finds what is missing
among the goods as it tells them apart, and the legacy finds what the workspace does when
both tell the same goods apart), `ProposalsHoldUp`. They compare the rules with one another.
What the code's comments state beyond that does not hold of the legacy (section 7).

## 4. Runs

| Run | Instance | Question | Distinct states |
|---|---|---|---|
| `WorkspaceClaims` | two invoices, one upstream record, three requests; confirm, reopen | can two confirmations, repeated or reopened, disturb the claims or the previews? | 606 thousand |
| `WorkspaceUpstream` | an invoice, an upstream record with two versions that may be withdrawn, a late write; two requests: select, edit, confirm, reopen, void | changes of the sources, and two people, between any two steps of each other | 1.13 million |
| `WorkspaceUploads` | one file uploaded as two documents, three requests, three objects, one failure; upload, void, retry | can an original get lost, can a file be left over? | 775 thousand |
| `WorkspaceLiveness` | an invoice, an upstream record, two requests, two runs, a crash, a projection fault | are stale previews renewed, drafts shown? | 279 thousand |
| `ExtractionOrderly` | two workers, two runs, all troubles, a crash, no overrun | the pipeline as it is meant to run, with errors at every step | 4.13 million |
| `ExtractionOverruns` | two workers, one run, cancellation, a crash, an overrun, transient troubles and errors | what holds without fencing | 1.01 million |
| `ExtractionNoFencing`, `ExtractionRetries` | the smallest instance each | statements of the documentation that do not hold (section 7) | stops at the violation |
| `Review` | one upload and one receiving record, two bodies (one blocking), two requests, a comparison, three versions | overlapping and failing requests, imports in any order, reconciliations in between | 1.08 million |
| `Cases` | one case, two differences, three reviewers (one inactive), an administrator, two requests, five revisions | is a case what an atomic workflow would make it? | 2.09 million |
| `Lab` | two documents, two runs, three jobs, two faults; two administrators, two changes, three candidates | interrupted and failing evaluations, promotion, concurrent verdicts | 2.88 million |
| `Rules` | two invoices of two lines, with goods in Chinese, three steps of splitting, losing and misreading | do the rules agree? | 223 thousand |

Bounds, named in the modules: `MaxVersion`, `MaxRuns`, `MaxOverwrites`, `MaxFaults`,
`MaxCrashes`, `MaxOverruns`, `MaxPuts`, `MaxTroubles`, `MaxVersions`, `MaxNumber`,
`MaxReconciliations`, `MaxRevision`, `Typed`, `MaxJobs`, `MaxManifest`, `MaxDecisions`,
`MaxCandidates`, `MaxRequests`, `MaxSteps`, and the number of keys and requests.
Why they are enough to be of interest: two invoices and one record are the least for a
competition; three requests the least for confirm, reopen and a second confirmation,
two for an overlap of two people; two versions the least for an upstream change; two runs
the least for a re-extraction and, with one late write, for a reversal; two workers
and one crash or overrun the least for a worker that is overtaken; three objects and three
requests the least for a duplicate whose owner is then voided; three versions the least
for a fork; five revisions carry a case through its claim, two resolutions and its
submission; two faults let an evaluation be broken off and its resumption as well; three
steps let goods arrive apart, a value be missing and another be misread. `Offered` gives
each `Workspace` run the commands its question is about; together the runs offer all of
them.

Requests differ only in their name, so the runs that check no liveness are reduced by
the symmetry of `Keys`, or of the requests, extraction workers, suppliers, active
reviewers, runners and administrators. The deadlock check stays on in the `Workspace` configurations, because
the worker ticks for ever. It is off in the others, which really stop: a file whose runs
are decided, a table or a case at its bound, a laboratory out of requests, documents
after the last step.

`MCMistaken` is a variation of `WorkspaceClaims` kept for use by hand (1.02 million states,
no error): the number of the second invoice may be read as that of the first, so that the
duplicate warning comes and goes.

### Fairness

- *Workspace*: `KeepsTicking` says that ticks end and begin again. `run_forever` calls
  `tick` in a loop, catches every exception and waits three seconds
  (`workspace_worker.py:77-83`). In each stage some worker step is enabled until it is
  taken, so this is weak fairness of `WorkerTick`, stated on the stages because TLC
  checks it far faster. Nothing is assumed of people or of the sources. Crashes are
  bounded, and a crashed worker is started again.
- *Extraction*: weak fairness of each worker's `RunOnce` (its loop); of `LeaseExpires`
  (time passes); strong fairness of a poll that answers something other than "running":
  the code polls without a bound, so without this `RunsAreDecided` depends on the
  service and does not hold.
- *The rest*: none. Requests may stop at any point, and nothing takes them up again.

## 5. Proofs

`tlapm` proves every obligation of the eight modules with theorems and lemmas. They hold for all
values of the constants that satisfy the named assumptions in the modules: any number of
invoices, records, requests, workers, runs, versions, people, cases, evaluations and lines,
and any payloads and amounts.

**Claims.** `ClaimsCorrect` rests on the invariant `ClaimsInv`, of three parts.
`SelectionsTyped` says that selections contain records, and needs that the worker's
pending proposals do: a proposal computed earlier becomes a selection when it is saved.
`ConfirmationsTyped` says that a completed invoice has a confirmation of its own, which
no other invoice refers to: without it the claims of two confirmations could not be told
apart. The third part is the property. `StepsOnReviews` sorts the steps into confirm,
reopen, and those that leave the claims and the completed invoices alone.

`WorkspaceImplementsReceivingClaims` uses the same invariant: `Holder` is defined by a
choice, which `HolderInUnique` shows to have one candidate; a confirmation is then
`Take`, a reopening `Release`, every other step a stutter.

**Sources.** `ConfirmedSourcesCorrect` and `HeldRecordsCorrect` rest on `SourcesInv`,
which adds `DocumentsTyped` and the property. The key facts are `HeldRecordsAreUsed`
(a record a completed invoice selected is used, so no void or edit applies to it),
`CompletedStaysHeld` (a step that leaves an invoice completed leaves its selection
and its confirmation) and `InvalidateFlags` (an invalidation by a source flags every
completed invoice that holds it).

**Types.** `TypeCorrect` needs in addition that payloads, revisions, columns and the
worker's inputs are typed (`SourcesTyped`, `RevisionsTyped`, `ColumnsTyped`,
`WorkerTyped`), each with its own `Next` lemma.

**Freshness.** `GenerationCorrect` sorts the steps into those that
leave the rows a proposal reads alone and those that go through `Invalidate`, which
advances the generation; the synchronisation of the sources is either. `FreshPreviewCorrect`
is the one about the worker: it reads the pending previews and their inputs in two
transactions, computes in none and saves in a third. `WorkerTrue` says that it computed
what its inputs say, `PreviewsTrue` that a stored result whose digest names the present
generation is the one the rows give now. `SavePreview` reads its input anew and saves only
when it is the same; `SaveIsTrue` concludes that what is saved is true, whether the row is
new or one stored earlier under the same digest. `StepsOnPreviews` sorts the
steps into quiet ones, which leave all of this alone, and renewing ones, which mark every
invoice under review stale.
`ConfirmedAsShownCorrect`, `EditsCorrect` and `CorrectionsKept` follow from what a session
noted when it was opened: revision counters never go back and count every new revision
(`StepCounts`), so an unchanged counter means an unchanged document.

**Originals** (`StorageProofs`). Names of objects are given out once (`NamesAreFresh`), and
an attempt that may still delete its object is alone with it (`AttemptsOwnTheirObjects`),
except after a commit taken for a failure. `OriginalsKept` and `OrphansExplained` are
proved together. `UploadsKeepTheWorkspace` shows that uploads composed with the workspace
implement the workspace, so that every other theorem about it holds of the composition.

**Extraction.** `PipelineInv` types the rows, and relates each program counter to the
rows that its worker has stored: a worker about to mark a run ready has seen its draft
stored. It holds with any number of crashes and overruns, because rows of parse results
and drafts are never deleted; `PipelineTypeCorrect`, `ReadyRunsHaveDraftsCorrect` and
`CancelledRunsGetNoDraftCorrect` follow. `OneWorkerPerRunCorrect` and
`PipelineImplementsRunLifecycle` assume that leases hold and nobody cancels
(`~MayCancel /\ MaxOverruns = 0`), which is needed: `set_remote_job` and
`schedule_poll` bring a cancelled run back, and an overrun lets two workers at one
run. Errors may come at every step all the same. The invariant is `Exclusive`: a worker that
has not released its run holds its lease, and the run is claimable or `late`. A worker
whose error comes after its release maps to `Disturb`, the write of its handler to `Undo`; a
run that is not disturbed is decided once. On top of it `RetriesAreBoundedCorrect` relates what a worker
has counted to the row it will write, and `TaskReportsARealOutcomeCorrect` what it has
decided to the task it will write afterwards.

**Review.** `ReviewInv` is one invariant for all invariants of the run `Review`, because
they lean on each other. `Numbered` (a document with rows has one of maximal number)
stands in for an induction over the rows, and makes `Newest` and the next number
meaningful. `RequestsPointAtRows`, `AuditPointsAtRows` and `ReconciliationsPointAtRows` say
that what a request noted down is still a row, since rows are only added. `AloneSeesAll` is
the heart of `LinearHistories`: the only request on a document still finds what it
checked, although check and write are two transactions. `ComparisonsReadUsable` carries,
for each version a comparison has read, the moment it was usable, which
`ReconciliationsFounded` needs when the result is stored.

**Cases.** `CaseInv` is the type invariant, `CopiesAreDated` (a copy whose revision is still
that of the row is equal to the row, its items and its trail to what they were) and
`DecisionsAreSupported`. Optimistic locking is correct because of `CopiesAreDated`: when the
update finds the revision unchanged, the request has decided by the case as it is.
`CasesImplementWorkflow` maps every saving to an action of `CaseWorkflow`, everything else to
a stutter.

**Laboratory** (`LabProofs`). `LabInv` says what a process has in hand at each place: the
document is the next of its manifest, the job is one of that document and, once polled,
finished; and what the shared files name is such a job too. It holds with any number of
evaluations, since a file is only overwritten by another job of the same document.
`StoriesCorrect` follows. `BoughtOnceCorrect` adds `PaidOnce`: a job that is still known is
found through its mark or its two files, or is in the hand of the process that submitted
it; and each way of losing a job before its mark puts it among the forgotten. This needs
that the process is alone, because another one may come between the look for the files and
the submission. `VerdictsCorrect` rests on `RequestsInOrder`: of two requests
about to write one row the later to load it saw the other, and the row is `contested`.

`RecommendationsCorrect` rests on `DecisionsStand`: a decision names two rows that exist,
completed rows do not change, and a decision that recommends would be taken again of them. What
then remains is about `QualityGate` alone: `RecommendedMeans` reads from the decision which
checks it passed, `SummariesAreRates` types the measures that are added up over the documents,
so that fractions can be compared at all, and `RanksAreEarned` concludes that a ranking that
puts the baseline first found all qualities equal.

**Sums and replays.** Both rules and measures add up over finite sets, by a recursive
function that takes members away in the order of `CHOOSE`. `NumberLemmas` proves what the
proofs need of it: that the function exists, that the order does not matter (`SumWithout`),
that sums of unions and of multiples are what they should be, and that two sums agree when
they agree part by part (`SumByParts`). The prover cannot instantiate an induction theorem, so
each of these takes a smallest counterexample and refutes it; that there is one is
`WFMin`, the one theorem on well-founded relations that has no operator as a parameter. The
replay of an audit trail is treated likewise.

**Audit trail.** `CaseAuditExplains` adds to `CaseInv` the invariant `TrailsExplain`: every
case is what the replay of its trail gives, and the trail a request holds is no shorter than
the row it read first calls for and no longer than the case's. So an answer whose check of the
revision succeeds shows row, items and trail of one revision; `ReplayNext` shows that every
saving appends the row of the trail that explains it.

**Rules** (`RulesProofs`). Documents have any number of lines and any amounts, and any
number of steps is taken. `ProposalsCorrect` holds in every state whatever the documents
are: what the legacy recommends shares a good with the invoice, which its comparison then
finds on both sides, what the workspace selects shares a line that its comparison aligns,
and neither has the conflicts that a comparison would report. `ShortagesDecided` compares
sums: the legacy adds up all lines of a good, so an imbalance is a gap or a one-sided
line, either of them an item of the case; a consistent comparison of the workspace
balances each group of a good and a unit, those of one side included, and therefore every
good (`ConsistentBalances`). Both parts are about the goods in their own normal form; where
the two forms tell the same goods apart, the lines of a good are the same lines in both,
which gives the third part. `UnknownMakesNoDifferenceCorrect` has the longest argument.
`SameOrigin` says that, while no line was misread, there is one original of which the
invoice and the notes are parts: each line comes from a line of the original (`Covers`),
says nothing that does not follow from it (`Fits`), and the quantities of the lines from
one original line add up to its quantity. A value that is not found leaves less to fit
(`LessKnown`); a unit that arrives apart is a new part of the same line (`PartingCovers`).
Two documents that cover one original have the same sums in each good and each group, in
quantity, in amount and in amount at the price (`LinesAddUp`), so no rule finds a gap
(`CoversAreExact`, `CoversAreEqual`). The invariant was checked by TLC on the instance of
the run before it was proved.

Every invariant, step property and refinement of the passing runs is stated by a theorem.
Only model-checked are the liveness properties `StalePreviewsAreRenewed`, `DraftsAreProjected`
and `RunsAreDecided`, and the two statements that do not hold: liveness under fairness and
`ENABLED` are out of this prover's reach. No module here declares a RECURSIVE operator, since
the prover's arithmetic back end is lost behind one.

Assumptions on constants, all named where the constants are declared: that sets of documents and of runners
are finite (`DocumentsAreFinite`, `RunnersAreFinite`), that the
values that stand for "none" are no members (`NullIsNoRecord`, `NoWorkerIsNone`, ...), that
roles and kinds are as in the code (`Roles`, `DocumentKinds`), and that originals are documents
and exact (`DocumentsAreTyped`, `OriginalsAreExact`). TLC evaluates them in the runs.

## 6. Model and mutants

For each property of each passing run, PROJECT.json names a mutation of one definition
that the run detects: a forgotten release of claims, a generation that is not advanced,
an edit that does not compare its revision, a clean-up that deletes the object named in the
answer, a lease that is never checked, an update by the key alone, a decision whose status is
not compared, voided records that are skipped, a mark of a pending job that is not looked
for, an unknown total that counts as zero, and so on.

## 7. Where the documentation and the code disagree

Shown by a run:

1. *Fencing* (`ExtractionNoFencing`). README.md:44 and docs/architecture.md:23-24 say
   that leases and fencing keep an expired process from overwriting a result. No write of
   a run compares the worker or the lease: a slow worker overwrites the outcome of its
   successor, and a ready run becomes active or failed. (A comment in `claim_next` says
   that there is no fencing token yet.) The workspace survives this visibly, not
   silently: `HeldRecordsChangeVisibly` is checked with such a late write
   (`WorkspaceUpstream`) and proved for any number of them.
2. *Retries* (`ExtractionRetries`). `_handle_external_error` documents a bounded back-off
   for retryable errors. Every retry is scheduled as a poll: a submission that failed once
   ends as `REMOTE_JOB_MISSING`, a normalization that failed once ends as
   `EXTRACTION_INTERNAL_ERROR`, on the second insert of its parse result.

Met while modelling, described here only:

- *Unknown values.* A comment (`reconciliation_service.py:64`) and docs/architecture.md:87
  say that the unknown stays unknown and is not made a false "exact" with zero. `_aggregate`
  keeps it unknown, but `_classify` takes the difference of an unknown price or amount as
  none, so that a line whose amount is known on one side only is "exact"; the workspace calls
  it "unverified". What does hold is `UnknownMakesNoDifference`: the unknown never makes a
  difference to decide on, which says nothing of how the legacy labels such a line.
- *Goods without a name.* The docstring of `_classify` gives missing goods a status of their
  own. Since `_match_key` drops everything but a-z and 0-9, rice billed as 大米 and flour
  delivered as 面粉 are one good, "exact", and no case is opened; the workspace keeps them
  apart. Conversely a full-width spelling of a good is another good to the legacy and the
  same to the workspace. `ShortagesAreDecided` is stated of each reconciliation for the goods
  it tells apart, and joins the two only where they tell the same goods apart.
- *Errors after the release.* README.md:44 says that leases and fencing keep an expired
  process from overwriting a result. Without any expiry, an error in the update of the task
  (`extraction_worker.py:350`) reaches the handler at 103 and turns the run that was made ready
  at 338 into a failed one (`late`).
- *Restarts.* The worker is described as recoverable. A restart between storing the parse
  result (or the draft) and moving the run on (`extraction_worker.py:244` and 257, 333 and
  338) repeats the stage, whose insert now fails: the run fails although all its results
  are stored.
- *Compensation.* docs/architecture.md:84 says that the clean-up of uploads avoids
  one-sided records. After a commit whose acknowledgement was lost the clean-up removes the
  original of a document that exists (`misled` in `UploadStorage`).
- *Pending jobs.* The mark of a job is there to resume it and not to pay twice
  (`evaluation/cache.py:70`). A submission whose answer is lost, or a mark that cannot be
  opened, fails the document while the job runs; the next evaluation buys it again.
- *Starting a review* is called idempotent; two starts at the same time conflict, or make
  two versions of one draft.

## 8. Not modelled, and why

- *The two warnings of the validation, texts, confidences, reports, exports*: no decision
  reads them.
- *Listings, queue pages and details* (except that of a case): they only read.
- *The legacy queue route* (`extraction_service.py:59`): frozen while the workspace is
  enabled; it enters the queue that `ExtractionPipeline` starts from.
- *The cap of 100 pending previews* (`postgres_workspace_repository.py:296`): the instances
  have at most two invoices. An invoice whose computation raises every time stays among the
  oldest, and a hundred of them would keep the others waiting; the model's computation
  never raises.
- *Accounts, sessions, integration principals*: one transaction per operation, independent
  of the rest; roles and active accounts are constants of `ReconciliationCases`.
- *Heartbeats and runtime status*: no decision reads them.
- *Parser and normalization provider*: external; modelled as a choice of outcomes.
- *HTTP routes, configuration, migrations, command line, front end, tooling, demos*:
  translation and wiring; the front end is represented by arbitrary commands with
  arbitrary earlier readings.

## 9. Plan

Done, in this order: matching and comparison; the workspace with its properties; the
claims as an abstract specification; the extraction pipeline; their proofs; uploads;
review, import and reconciliation; cases with their abstract workflow; the laboratory;
the rules; the proofs of review and cases, of previews, originals and the laboratory, of the
audit trail, the recommendations and the rules.

Next:

1. Runs with records used by the legacy flow (`LegacyUsed`), and with an invoice whose
   computation raises.
2. The rules at the limits of score, lead and tolerance, with three records.
