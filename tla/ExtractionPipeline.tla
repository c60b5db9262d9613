------------------------- MODULE ExtractionPipeline -------------------------
(***************************************************************************)
(* The extraction of one file: its runs, and the worker processes that     *)
(* push them on (app/workers/extraction_worker.py over                     *)
(* app/infra/postgres_extraction_run_repository.py, with the cancellation  *)
(* of app/services/extraction_service.py and the queue of the workspace    *)
(* repository).                                                            *)
(*                                                                         *)
(* A worker claims a run under a lease, keeps the row it read then, and    *)
(* goes on in single transactions; each of them, and each call of the      *)
(* remote services, is one action here.  A worker may die between any two  *)
(* of them, and its lease may expire while it is still at work: no write   *)
(* checks the lease.  Any statement of a stage may raise, before its       *)
(* effect or after it, and run_once then fails the run, whatever has       *)
(* become of it.                                                           *)
(*                                                                         *)
(* Time is abstracted: next_attempt_at is past whenever a worker looks,    *)
(* and a lease may be overrun at any moment.  Model provenance, token      *)
(* counts, heartbeats and timestamps are left out.                         *)
(*                                                                         *)
(* A definition marked MUTANT is not part of the specification: it is the  *)
(* definition after it with a plausible bug, which must break a property.  *)
(***************************************************************************)
EXTENDS Naturals, FiniteSets

CONSTANTS
    Workers,
    MaxRuns,        \* bound: runs of the file
    Troubles,       \* what may go wrong outside: a subset of TroubleKinds
    MayCancel,      \* whether anybody asks for a cancellation
    MaxCrashes,     \* bound: crashes of workers
    MaxOverruns,    \* bound: leases that expire under a worker still at work
    NoWorker

TroubleKinds == {"transient", "permanent", "internal"}

ASSUME PipelineConstants ==
    /\ MaxRuns \in Nat /\ Troubles \subseteq TroubleKinds /\ MayCancel \in BOOLEAN
    /\ MaxCrashes \in Nat /\ MaxOverruns \in Nat

ASSUME NoWorkerIsNone == NoWorker \notin Workers

Runs      == 1 .. MaxRuns
Claimable == {"queued", "parsing", "normalizing"}
Decided   == {"ready_for_review", "failed", "cancelled"}

VARIABLES
    \* columns of extraction_runs
    status, lease, attempts, job, cancel, code,
    \* rows of parse_results and document_drafts; extraction_tasks.status
    parsed, drafted, task,
    \* the worker processes, and API requests between their two transactions
    worker, answering,
    \* history: the runs that met an error after their worker had released them
    late,
    crashes, overruns

runVars == <<status, lease, attempts, job, cancel, code>>
vars    == <<runVars, parsed, drafted, task, worker, answering, late, crashes, overruns>>

AtRest == [pc |-> "rest", run |-> 0, status |-> "none", job |-> FALSE, attempts |-> 0,
           code |-> "none"]

Init ==
    /\ status = [r \in Runs |-> "none"]
    /\ lease = [r \in Runs |-> NoWorker]
    /\ attempts = [r \in Runs |-> 0]
    /\ job = [r \in Runs |-> FALSE]
    /\ cancel = [r \in Runs |-> FALSE]
    /\ code = [r \in Runs |-> "none"]
    /\ parsed = {}
    /\ drafted = {}
    /\ task = "uploaded"
    /\ worker = [w \in Workers |-> AtRest]
    /\ answering = {}
    /\ late = {}
    /\ crashes = 0
    /\ overruns = 0

Set(field, r, value) == [field EXCEPT ![r] = value]

-----------------------------------------------------------------------------
(* The workspace queues the first run of an upload, and another one when a *)
(* user retries: nothing was extracted and no run is under way.            *)
Queue(r) ==
    /\ status[r] = "none" /\ \A p \in Runs : p < r => status[p] \in {"failed", "cancelled"}
    /\ drafted = {}
    /\ status' = Set(status, r, "queued")
    /\ task' = "extracting"
    /\ UNCHANGED <<lease, attempts, job, cancel, code, parsed, drafted, worker, answering,
                   late, crashes, overruns>>

(* A request to cancel: a queued run is cancelled at once, an active one   *)
(* carries the request to the worker's next check, and a cancelled one is  *)
(* answered again.                                                         *)
RequestCancel(r) ==
    /\ MayCancel
    /\ status[r] \in Claimable \cup {"cancelled"}
    /\ cancel' = [cancel EXCEPT ![r] = @ \/ status[r] # "cancelled"]
    /\ status' = [status EXCEPT ![r] = IF @ = "queued" THEN "cancelled" ELSE @]
    /\ lease' = [lease EXCEPT ![r] = IF status[r] = "queued" THEN NoWorker ELSE @]
    /\ answering' = IF status'[r] = "cancelled" THEN answering \cup {r} ELSE answering
    /\ UNCHANGED <<attempts, job, code, parsed, drafted, task, worker, late, crashes,
                   overruns>>

\* ... and in a second transaction the task.
AnswerCancelled(r) ==
    /\ r \in answering
    /\ answering' = answering \ {r}
    /\ task' = "cancelled"
    /\ UNCHANGED <<runVars, parsed, drafted, worker, late, crashes, overruns>>

-----------------------------------------------------------------------------
(* The worker.                                                             *)

At(w, pc)     == worker[w].pc = pc
GoTo(w, pc)   == worker' = [worker EXCEPT ![w].pc = pc]
Rest(w)       == worker' = [worker EXCEPT ![w] = AtRest]
Failing(w, c) == worker' = [worker EXCEPT ![w].pc = "failing", ![w].code = c]

UnchangedRows == UNCHANGED <<runVars, parsed, drafted, task>>
UnchangedRest == UNCHANGED <<answering, late, crashes, overruns>>

AnyLease(r) == TRUE     \* MUTANT: the claim does not look at the lease
Unleased(r) == lease[r] = NoWorker

(* The row that is claimed is not locked by another worker's claim, is due *)
(* and has no lease in force; the worker goes on with the row as it is.    *)
Claim(w, r) ==
    /\ At(w, "rest")
    /\ status[r] \in Claimable /\ Unleased(r)
    /\ lease' = Set(lease, r, w)
    /\ worker' = [worker EXCEPT ![w] =
         [pc |-> "claimed", run |-> r, status |-> status[r], job |-> job[r],
          attempts |-> attempts[r], code |-> "none"]]
    /\ UNCHANGED <<status, attempts, job, cancel, code, parsed, drafted, task>>
    /\ UnchangedRest

StageSkipped(claimed) == IF claimed = "queued" THEN "submit" ELSE "normalise"  \* MUTANT
StageOf(claimed) == CASE claimed = "queued"      -> "submit"
                      [] claimed = "parsing"     -> "poll"
                      [] claimed = "normalizing" -> "normalize"

\* MUTANT: goes on without looking.
CheckNothing(w, from, onward) ==
    At(w, from) /\ GoTo(w, onward) /\ UnchangedRows /\ UnchangedRest

\* The check for a cancellation at a stage boundary: go on or cancel.
CheckCancel(w, from, onward) ==
    /\ At(w, from)
    /\ GoTo(w, IF cancel[worker[w].run] THEN "cancelling" ELSE onward)
    /\ UnchangedRows /\ UnchangedRest

CheckClaimed(w) == CheckCancel(w, "claimed", StageOf(worker[w].status))

OnceMore(w) == worker[w].attempts <= 3      \* MUTANT
MayRetry(w) == worker[w].attempts < 3

(* A call of a remote service may raise an ExternalServiceError, retryable *)
(* or not.                                                                 *)
Raises(w) ==
    \/ "transient" \in Troubles /\ MayRetry(w) /\ GoTo(w, "backing_off")
    \/ "transient" \in Troubles /\ ~MayRetry(w) /\ Failing(w, "SERVICE")
    \/ "permanent" \in Troubles /\ Failing(w, "SERVICE")

\* Failing a run by one of the two handlers, whose own errors end the process.
HandlerCodes == {"SERVICE", "INTERNAL"}
InTry(w) ==
    /\ worker[w].pc \notin {"rest", "backing_off", "failing_late"}
    /\ worker[w].code \notin HandlerCodes

\* The worker has written what releases its run.
HandedOver == {"job_stored", "task_ready_for_review", "task_failed", "task_cancelled"}

FailingLate(w) ==
    /\ worker' = [worker EXCEPT ![w].pc = "failing_late", ![w].code = "INTERNAL"]
    /\ late' = late \cup {worker[w].run}

(* Any other exception (storage, schema, the database, a task that is      *)
(* gone) before or after any effect of a stage: run_once fails the run,    *)
(* also one that its worker has already released or decided.               *)
Error(w) ==
    /\ "internal" \in Troubles /\ InTry(w)
    /\ IF worker[w].pc \in HandedOver THEN FailingLate(w)
       ELSE Failing(w, "INTERNAL") /\ UNCHANGED late
    /\ UnchangedRows /\ UNCHANGED <<answering, crashes, overruns>>

\* The stage ends with a transaction, or with an error after its commit.
Finish(w) ==
    \/ Rest(w) /\ UNCHANGED late
    \/ "internal" \in Troubles /\ InTry(w) /\ FailingLate(w)

Submit(w) ==
    /\ At(w, "submit")
    /\ GoTo(w, "submitted") \/ Raises(w)
    /\ UnchangedRows /\ UnchangedRest

StoreJob(w) ==
    /\ At(w, "submitted")
    /\ LET r == worker[w].run
       IN  /\ status' = Set(status, r, "parsing")
           /\ job' = Set(job, r, TRUE)
           /\ attempts' = Set(attempts, r, 0)
           /\ lease' = Set(lease, r, NoWorker)
    /\ GoTo(w, "job_stored")
    /\ UNCHANGED <<cancel, code, parsed, drafted, task>> /\ UnchangedRest

CheckSubmitted(w) ==
    /\ At(w, "job_stored")
    /\ IF cancel[worker[w].run] THEN GoTo(w, "cancelling") ELSE Rest(w)
    /\ UnchangedRows /\ UnchangedRest

JobMissing(w) ==
    /\ At(w, "poll") /\ ~worker[w].job
    /\ Failing(w, "REMOTE_JOB_MISSING")
    /\ UnchangedRows /\ UnchangedRest

\* What the remote service says of the job.
PollAnswers == {"still_running", "parse_failed", "parse_done"}

Poll(w) ==
    /\ At(w, "poll") /\ worker[w].job
    /\ \/ GoTo(w, "still_running") \/ GoTo(w, "parse_done")
       \/ "permanent" \in Troubles /\ GoTo(w, "parse_failed")
       \/ Raises(w)
    /\ UnchangedRows /\ UnchangedRest

CheckPolled(w) ==
    /\ worker[w].pc \in PollAnswers
    /\ IF cancel[worker[w].run] THEN GoTo(w, "cancelling")
       ELSE CASE At(w, "still_running") -> GoTo(w, "rescheduling")
              [] At(w, "parse_failed")  -> Failing(w, "PARSE_FAILED")
              [] At(w, "parse_done")    -> GoTo(w, "parsed")
    /\ UnchangedRows /\ UnchangedRest

Reschedule(w) ==
    /\ At(w, "rescheduling")
    /\ status' = Set(status, worker[w].run, "parsing")
    /\ lease' = Set(lease, worker[w].run, NoWorker)
    /\ Finish(w)
    /\ UNCHANGED <<attempts, job, cancel, code, parsed, drafted, task, answering,
                   crashes, overruns>>

(* parse_results.run_id is unique: a second result is refused.             *)
StoreParse(w) ==
    /\ At(w, "parsed")
    /\ \/ /\ worker[w].run \notin parsed
          /\ parsed' = parsed \cup {worker[w].run}
          /\ GoTo(w, "parse_stored")
       \/ /\ worker[w].run \in parsed
          /\ Failing(w, "INTERNAL")
          /\ UNCHANGED parsed
    /\ UNCHANGED <<runVars, drafted, task>> /\ UnchangedRest

SetNormalizing(w) ==
    /\ At(w, "parse_stored")
    /\ status' = Set(status, worker[w].run, "normalizing")
    /\ lease' = Set(lease, worker[w].run, NoWorker)
    /\ Finish(w)
    /\ UNCHANGED <<attempts, job, cancel, code, parsed, drafted, task, answering,
                   crashes, overruns>>

Normalize(w) ==
    /\ At(w, "normalize")
    /\ IF worker[w].run \in parsed THEN GoTo(w, "normalized") \/ Raises(w)
                                   ELSE Failing(w, "PARSE_RESULT_MISSING")
    /\ UnchangedRows /\ UnchangedRest

DraftSkipped(w)    == CheckCancel(w, "normalized", "draft_stored")      \* MUTANT
CheckNormalized(w) == CheckCancel(w, "normalized", "drafting")

(* document_drafts.run_id is unique as well.                               *)
StoreDraft(w) ==
    /\ At(w, "drafting")
    /\ \/ /\ worker[w].run \notin drafted
          /\ drafted' = drafted \cup {worker[w].run}
          /\ GoTo(w, "draft_stored")
       \/ /\ worker[w].run \in drafted
          /\ Failing(w, "INTERNAL")
          /\ UNCHANGED drafted
    /\ UNCHANGED <<runVars, parsed, task>> /\ UnchangedRest

MarkReady(w) ==
    /\ At(w, "draft_stored")
    /\ status' = Set(status, worker[w].run, "ready_for_review")
    /\ code' = Set(code, worker[w].run, "none")
    /\ lease' = Set(lease, worker[w].run, NoWorker)
    /\ GoTo(w, "task_ready_for_review")
    /\ UNCHANGED <<attempts, job, cancel, parsed, drafted, task>> /\ UnchangedRest

(* A retryable error: the run goes back to polling, whatever its stage.    *)
BackOff(w) ==
    /\ At(w, "backing_off")
    /\ status' = Set(status, worker[w].run, "parsing")
    /\ attempts' = [attempts EXCEPT ![worker[w].run] = @ + 1]
    /\ lease' = Set(lease, worker[w].run, NoWorker)
    /\ Rest(w)
    /\ UNCHANGED <<job, cancel, code, parsed, drafted, task>> /\ UnchangedRest

(* The failure is written without a look at the run.                       *)
Fail(w) ==
    /\ worker[w].pc \in {"failing", "failing_late"}
    /\ status' = Set(status, worker[w].run, "failed")
    /\ code' = Set(code, worker[w].run, worker[w].code)
    /\ lease' = Set(lease, worker[w].run, NoWorker)
    /\ GoTo(w, "task_failed")
    /\ UNCHANGED <<attempts, job, cancel, parsed, drafted, task>> /\ UnchangedRest

MarkCancelled(w) ==
    /\ At(w, "cancelling")
    /\ IF status[worker[w].run] # "cancelled"
       THEN /\ status' = Set(status, worker[w].run, "cancelled")
            /\ lease' = Set(lease, worker[w].run, NoWorker)
       ELSE UNCHANGED <<status, lease>>
    /\ GoTo(w, "task_cancelled")
    /\ UNCHANGED <<attempts, job, cancel, code, parsed, drafted, task>> /\ UnchangedRest

\* What the worker reports of the run it decided.
FailuresAreCancelled(pc) ==     \* MUTANT
    IF pc = "task_ready_for_review" THEN "ready_for_review" ELSE "cancelled"
Reported(pc) == CASE pc = "task_ready_for_review" -> "ready_for_review"
                  [] pc = "task_failed"           -> "failed"
                  [] pc = "task_cancelled"        -> "cancelled"

\* The last transaction of a worker that decided its run.
UpdateTask(w) ==
    /\ worker[w].pc \in {"task_ready_for_review", "task_failed", "task_cancelled"}
    /\ task' = Reported(worker[w].pc)
    /\ Finish(w)
    /\ UNCHANGED <<runVars, parsed, drafted, answering, crashes, overruns>>

-----------------------------------------------------------------------------
(* Faults.                                                                 *)

Crash(w) ==
    /\ ~At(w, "rest") /\ crashes < MaxCrashes
    /\ crashes' = crashes + 1
    /\ Rest(w)
    /\ UnchangedRows /\ UNCHANGED <<answering, late, overruns>>

LeasesStay(r) == FALSE      \* MUTANT: the lease of a dead worker stands
\* The holder of the lease is no longer at work on the run.
Abandoned(r) == lease[r] # NoWorker /\ worker[lease[r]].run # r

(* A lease that has expired is as good as none: only claim_next reads it.  *)
LeaseExpires(r) ==
    /\ Abandoned(r)
    /\ lease' = Set(lease, r, NoWorker)
    /\ UNCHANGED <<status, attempts, job, cancel, code, parsed, drafted, task, worker>>
    /\ UnchangedRest

LeaseOverrun(r) ==
    /\ lease[r] # NoWorker /\ ~Abandoned(r) /\ overruns < MaxOverruns
    /\ overruns' = overruns + 1
    /\ lease' = Set(lease, r, NoWorker)
    /\ UNCHANGED <<status, attempts, job, cancel, code, parsed, drafted, task, worker,
                   answering, late, crashes>>

-----------------------------------------------------------------------------
Step(w) ==
    \/ CheckClaimed(w) \/ Submit(w) \/ StoreJob(w) \/ CheckSubmitted(w)
    \/ JobMissing(w) \/ Poll(w) \/ CheckPolled(w) \/ Reschedule(w)
    \/ StoreParse(w) \/ SetNormalizing(w)
    \/ Normalize(w) \/ CheckNormalized(w) \/ StoreDraft(w) \/ MarkReady(w)
    \/ BackOff(w) \/ Fail(w) \/ MarkCancelled(w) \/ UpdateTask(w) \/ Error(w)

RunOnce(w) == (\E r \in Runs : Claim(w, r)) \/ Step(w)

Next ==
    \/ \E r \in Runs : Queue(r) \/ RequestCancel(r) \/ AnswerCancelled(r)
    \/ \E w \in Workers : RunOnce(w) \/ Crash(w)
    \/ \E r \in Runs : LeaseExpires(r) \/ LeaseOverrun(r)

Spec == Init /\ [][Next]_vars

(* Every worker goes on (run_forever), an abandoned lease expires, and the *)
(* remote service does not answer "running" for ever.                      *)
FairSpec ==
    /\ Spec
    /\ \A w \in Workers : WF_vars(RunOnce(w))
    /\ \A r \in Runs : WF_vars(LeaseExpires(r))
    /\ \A w \in Workers : SF_vars(Poll(w) /\ worker'[w].pc # "still_running")
=============================================================================
