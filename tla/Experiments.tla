---------------------------- MODULE Experiments ----------------------------
(***************************************************************************)
(* Persisted evaluation runs, the parse cache they share and the promotion *)
(* decisions taken from them: app/experiments/runner.py,                   *)
(* app/evaluation/runner.py, app/evaluation/cache.py,                      *)
(* app/infra/postgres_experiment_repository.py and the promotion route of  *)
(* app/api/experiment_routes.py.                                           *)
(*                                                                         *)
(* An evaluation is a command line process that may be interrupted or die  *)
(* between any two steps, and several may run at once.  What they share    *)
(* are the rows of the runs and, per source document, three files: the     *)
(* metadata and the archive of a finished parse and the mark of a pending  *)
(* remote job.  A file is opened (emptied) and written in separate steps.  *)
(***************************************************************************)
EXTENDS QualityGate

CONSTANTS
    Runners,        \* evaluation processes
    Dataset,        \* the documents of the manifest, a sequence
    Kind,           \* document type of a document
    Gold,           \* gold data of a document
    Predictions,    \* what a variant may make of a document: [document, evidence, cost]
    Thresholds,     \* of the candidate's definition
    Limits,         \* the --max-documents arguments in use
    MaxRuns,        \* bound: evaluation runs
    MaxJobs,        \* bound: remote parse jobs
    MaxManifest,    \* bound: versions of the dataset
    MaxDecisions,   \* bound: promotion decisions
    MaxFaults       \* bound: interruptions, deaths, failed jobs and errors

Docs == {Dataset[j] : j \in DOMAIN Dataset}
Variants == {"baseline", "candidate"}

ASSUME DatasetIsListedOnce == Dataset \in Seq(Docs) /\ Len(Dataset) = Cardinality(Docs)
ASSUME DocumentsAreFinite ==
    /\ IsFiniteSet(HeaderFields)
    /\ \A d \in Docs : IsFiniteSet(DOMAIN Gold[d].lines)
    /\ \A v \in Variants, d \in Docs : \A o \in Predictions[v][d] :
          IsFiniteSet(DOMAIN o.document.lines)
ASSUME RunnersAreFinite == IsFiniteSet(Runners)
ASSUME RunsAreLimited == Limits \subseteq 0 .. Len(Dataset)

VARIABLES
    runs,       \* experiment_runs: [variant, identity, limit, status, evaluations]
    jobs,       \* the parse service: [doc, state]
    metadata, archive, pending,     \* files per document: [job, whole]
    manifest,   \* the version of the dataset on disk
    decisions,  \* promotion_decisions
    runner,     \* the processes
    faults,
    abandoned,  \* history: runs whose process died
    forgotten   \* history: jobs bought by a submission that brought no mark: the process
                \* ended, the answer was lost, or the mark could not be written

labVars == <<runs, jobs, metadata, archive, pending, manifest, decisions, runner, faults,
             abandoned, forgotten>>
files   == <<metadata, archive, pending>>

NoFile    == [job |-> 0, whole |-> FALSE]
Opened(j) == [job |-> j, whole |-> FALSE]
Written(j) == [job |-> j, whole |-> TRUE]
AtRest    == [pc |-> "rest", run |-> 0, done |-> <<>>, job |-> 0]

LabInit ==
    /\ runs = <<>> /\ jobs = <<>> /\ decisions = {} /\ manifest = 1
    /\ metadata = [d \in Docs |-> NoFile]
    /\ archive = metadata /\ pending = metadata
    /\ runner = [p \in Runners |-> AtRest]
    /\ faults = 0 /\ abandoned = {} /\ forgotten = {}

Fault == faults < MaxFaults /\ faults' = faults + 1
At(p, pc)  == runner[p].pc = pc
\* The job is submitted and its mark not yet begun: nothing will find it.
Forgets(p) == forgotten' = IF At(p, "submitted") THEN forgotten \cup {runner[p].job}
                           ELSE forgotten
Goes(p, pc) == runner' = [runner EXCEPT ![p].pc = pc]
DocOf(p)   == Dataset[Len(runner[p].done) + 1]
RunOf(p)   == runs[runner[p].run]

-----------------------------------------------------------------------------
(* The rows: every transition is guarded by the statuses it may leave.     *)

InStatus(r, expected)  == runs[r].status \in expected

Transition(p, expected, status, evaluations) ==
    LET r == runner[p].run
    IN  runs' = IF InStatus(r, expected)
                THEN [runs EXCEPT ![r].status = status, ![r].evaluations = evaluations]
                ELSE runs

\* The definition names a version of the dataset that was there when it was made.
CreateRun(p, variant, limit, identity) ==
    /\ At(p, "rest") /\ Len(runs) < MaxRuns
    /\ runs' = Append(runs, [variant |-> variant, identity |-> identity, limit |-> limit,
                             status |-> "queued", evaluations |-> <<>>])
    /\ runner' = [runner EXCEPT ![p] = [AtRest EXCEPT !.pc = "created", !.run = Len(runs')]]
    /\ UNCHANGED <<jobs, files, manifest, decisions, faults, abandoned, forgotten>>

MarkRunRunning(p) ==
    /\ At(p, "created")
    /\ Transition(p, {"queued"}, "running", <<>>)
    /\ Goes(p, "running")
    /\ UNCHANGED <<jobs, files, manifest, decisions, faults, abandoned, forgotten>>

(* The manifest and the documents must be those the definition names.      *)
CheckIdentity(p) ==
    /\ At(p, "running")
    /\ Goes(p, IF manifest = RunOf(p).identity THEN "next" ELSE "failing")
    /\ UNCHANGED <<runs, jobs, files, manifest, decisions, faults, abandoned, forgotten>>

FailRun(p) ==
    /\ At(p, "failing")
    /\ Transition(p, {"queued", "running"}, "failed", <<>>)
    /\ runner' = [runner EXCEPT ![p] = AtRest]
    /\ UNCHANGED <<jobs, files, manifest, decisions, faults, abandoned, forgotten>>

(* An error outside the handling of a single document: the manifest, the   *)
(* files of the cache or the last transaction, committed or not.           *)
EvaluationFails(p) ==
    /\ runner[p].pc \in {"running", "next", "putting", "metadata_opened", "metadata_written",
                         "archive_opened", "archive_written", "returning"}
    /\ Fault
    /\ Goes(p, "failing")
    /\ UNCHANGED <<runs, jobs, files, manifest, decisions, abandoned, forgotten>>

(* Ctrl-C inside the evaluation, or when the last transaction has already  *)
(* committed.                                                              *)
Interrupt(p) ==
    /\ runner[p].pc \notin {"rest", "created", "failing", "cancelling"}
    /\ Fault
    /\ Goes(p, "cancelling")
    /\ Forgets(p)
    /\ UNCHANGED <<runs, jobs, files, manifest, decisions, abandoned>>

Cancelled(p) == Transition(p, {"queued", "running"}, "cancelled", <<>>)
CancelRun(p) ==
    /\ At(p, "cancelling")
    /\ Cancelled(p)
    /\ runner' = [runner EXCEPT ![p] = AtRest]
    /\ UNCHANGED <<jobs, files, manifest, decisions, faults, abandoned, forgotten>>

-----------------------------------------------------------------------------
(* _evaluate_one.                                                          *)

Whole(p) == Len(runner[p].done) =
    (IF RunOf(p).limit = 0 THEN Len(Dataset) ELSE RunOf(p).limit)

Evaluation(d, valid, predicted, evidence, cost, job) ==
    [doc |-> d, kind |-> Kind[d], valid |-> valid, cost |-> cost, job |-> job,
     counts |-> CompareDocuments(predicted, Gold[d], evidence)]

Evaluated(p, e) ==
    runner' = [runner EXCEPT ![p] = [@ EXCEPT !.pc = "next", !.job = 0,
                                              !.done = Append(runner[p].done, e)]]

\* A failure counts as an evaluation in which nothing was predicted.
Failure(p) == Evaluated(p, Evaluation(DocOf(p), FALSE, NoPrediction, {}, {}, 0))

OneKey(d)    == Dataset[1]      \* MUTANT: every document has the same files
SourceKey(d) == d               \* the hash of its content

(* The cache answers when both files exist, whole or not: damaged metadata *)
(* is an error outside the handling of a single document's failure.        *)
Lookup(p) ==
    /\ At(p, "next") /\ ~Whole(p)
    /\ LET d == SourceKey(DocOf(p))
       IN  IF metadata[d].job = 0 \/ archive[d].job = 0 THEN Goes(p, "missed")
           ELSE IF ~metadata[d].whole THEN Goes(p, "failing")
           ELSE runner' = [runner EXCEPT ![p].pc = "parsed", ![p].job = metadata[d].job]
    /\ UNCHANGED <<runs, jobs, files, manifest, decisions, faults, abandoned, forgotten>>

\* MUTANT: never looks for the mark.
Forgetful(d) == NoFile
MarkOf(d)    == pending[SourceKey(d)]

(* Whatever raises here is the failure of one document: a mark that cannot *)
(* be read, a submission that is refused, and one that the service accepts *)
(* although its answer is lost.                                            *)
ResumeOrSubmit(p) ==
    /\ At(p, "missed")
    /\ LET d == DocOf(p)
           Submits == jobs' = Append(jobs, [doc |-> d, state |-> "running"])
       IN  \/ /\ MarkOf(d).job # 0 /\ MarkOf(d).whole
              /\ runner' = [runner EXCEPT ![p].pc = "polling", ![p].job = MarkOf(d).job]
              /\ UNCHANGED <<jobs, faults, forgotten>>
           \/ /\ MarkOf(d).job # 0 /\ ~MarkOf(d).whole
              /\ Failure(p)
              /\ UNCHANGED <<jobs, faults, forgotten>>
           \/ /\ MarkOf(d).job = 0 /\ Len(jobs) < MaxJobs
              /\ Submits
              /\ runner' = [runner EXCEPT ![p].pc = "submitted", ![p].job = Len(jobs')]
              /\ UNCHANGED <<faults, forgotten>>
           \/ /\ MarkOf(d).job = 0 /\ Fault /\ Failure(p)
              /\ \/ UNCHANGED <<jobs, forgotten>>
                 \/ /\ Len(jobs) < MaxJobs /\ Submits
                    /\ forgotten' = forgotten \cup {Len(jobs')}
    /\ UNCHANGED <<runs, files, manifest, decisions, abandoned>>

(* A write of a file: opened in one step, filled in the next.              *)
Writes(p, before, during, after, file) ==
    LET d == SourceKey(DocOf(p))
        j == runner[p].job
    IN  \/ At(p, before) /\ Goes(p, during) /\ file' = [file EXCEPT ![d] = Opened(j)]
        \/ At(p, during) /\ Goes(p, after)  /\ file' = [file EXCEPT ![d] = Written(j)]

\* An error while the mark is written is caught too: the process goes on without it.
PutPending(p) ==
    /\ \/ /\ Writes(p, "submitted", "marking", "polling", pending)
          /\ UNCHANGED <<faults, forgotten>>
       \/ /\ At(p, "submitted") \/ At(p, "marking")
          /\ Fault /\ Failure(p) /\ Forgets(p)
          /\ UNCHANGED pending
    /\ UNCHANGED <<runs, jobs, metadata, archive, manifest, decisions, abandoned>>

(* A job that still runs is polled again; errors and running out of polls  *)
(* end the document, and the mark of its job stays.                        *)
Poll(p) ==
    /\ At(p, "polling")
    /\ \/ jobs[runner[p].job].state = "succeeded" /\ Goes(p, "putting") /\ UNCHANGED faults
       \/ jobs[runner[p].job].state = "failed" /\ Failure(p) /\ UNCHANGED faults
       \/ jobs[runner[p].job].state # "failed" /\ Fault /\ Failure(p)
    /\ UNCHANGED <<runs, jobs, files, manifest, decisions, abandoned, forgotten>>

PutMetadata(p) ==
    /\ Writes(p, "putting", "metadata_opened", "metadata_written", metadata)
    /\ UNCHANGED <<runs, jobs, archive, pending, manifest, decisions, faults, abandoned,
                   forgotten>>
PutArchive(p) ==
    /\ Writes(p, "metadata_written", "archive_opened", "archive_written", archive)
    /\ UNCHANGED <<runs, jobs, metadata, pending, manifest, decisions, faults, abandoned,
                   forgotten>>
RemovePending(p) ==
    /\ At(p, "archive_written")
    /\ pending' = [pending EXCEPT ![SourceKey(DocOf(p))] = NoFile]
    /\ Goes(p, "parsed")
    /\ UNCHANGED <<runs, jobs, metadata, archive, manifest, decisions, faults, abandoned,
                   forgotten>>

Normalize(p) ==
    /\ At(p, "parsed")
    /\ LET d == DocOf(p)
       IN  \/ /\ \E o \in Predictions[RunOf(p).variant][d] :
                    Evaluated(p, Evaluation(d, TRUE, o.document, o.evidence, o.cost,
                                            runner[p].job))
              /\ UNCHANGED faults
           \/ Fault /\ Failure(p)
    /\ UNCHANGED <<runs, jobs, files, manifest, decisions, abandoned, forgotten>>

CompleteRun(p) ==
    /\ At(p, "next") /\ Whole(p)
    /\ Transition(p, {"running"}, "completed", runner[p].done)
    /\ Goes(p, "returning")
    /\ UNCHANGED <<jobs, files, manifest, decisions, faults, abandoned, forgotten>>

Return(p) ==
    /\ At(p, "returning")
    /\ runner' = [runner EXCEPT ![p] = AtRest]
    /\ UNCHANGED <<runs, jobs, files, manifest, decisions, faults, abandoned, forgotten>>

Die(p) ==
    /\ ~At(p, "rest") /\ Fault
    /\ abandoned' = abandoned \cup {runner[p].run}
    /\ Forgets(p)
    /\ runner' = [runner EXCEPT ![p] = AtRest]
    /\ UNCHANGED <<runs, jobs, files, manifest, decisions>>

-----------------------------------------------------------------------------
(* The parse service, the operator of the dataset, and the administrator.  *)
ServiceDecides(j, state) ==
    /\ jobs[j].state = "running"
    /\ IF state = "failed" THEN Fault ELSE UNCHANGED faults
    /\ jobs' = [jobs EXCEPT ![j].state = state]
    /\ UNCHANGED <<runs, files, manifest, decisions, runner, abandoned, forgotten>>

EditManifest ==
    /\ manifest < MaxManifest
    /\ manifest' = manifest + 1
    /\ UNCHANGED <<runs, jobs, files, decisions, runner, faults, abandoned, forgotten>>

Decide(b, c) ==
    /\ Cardinality(decisions) < MaxDecisions
    /\ decisions' = decisions \cup
          {[baseline |-> b, candidate |-> c,
            outcome |-> DecidePromotion(runs[b], runs[c], runs[b].identity = runs[c].identity,
                                        Thresholds)]}
    /\ UNCHANGED <<runs, jobs, files, manifest, runner, faults, abandoned, forgotten>>

RunnerStep(p) ==
    \/ \E v \in Variants, limit \in Limits, identity \in 1 .. manifest :
          CreateRun(p, v, limit, identity)
    \/ MarkRunRunning(p) \/ CheckIdentity(p) \/ Lookup(p) \/ ResumeOrSubmit(p)
    \/ PutPending(p) \/ Poll(p) \/ PutMetadata(p) \/ PutArchive(p) \/ RemovePending(p)
    \/ Normalize(p) \/ CompleteRun(p) \/ Return(p)
    \/ EvaluationFails(p) \/ FailRun(p) \/ Interrupt(p) \/ CancelRun(p) \/ Die(p)

LabStep ==
    \/ \E p \in Runners : RunnerStep(p)
    \/ \E j \in DOMAIN jobs, s \in {"succeeded", "failed"} : ServiceDecides(j, s)
    \/ EditManifest
    \/ \E b, c \in DOMAIN runs : Decide(b, c)
=============================================================================
