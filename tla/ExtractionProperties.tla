------------------------ MODULE ExtractionProperties ------------------------
(***************************************************************************)
(* What the extraction of a file promises, and what it does not keep.      *)
(***************************************************************************)
EXTENDS ExtractionPipeline

PCs == {"rest", "claimed", "submit", "poll", "normalize", "cancelling", "backing_off",
        "failing", "failing_late", "submitted", "job_stored", "still_running", "parse_failed",
        "parse_done", "rescheduling", "parsed", "parse_stored", "normalized", "drafting",
        "draft_stored", "task_ready_for_review", "task_failed", "task_cancelled"}
Statuses == {"none"} \cup Claimable \cup Decided
Codes == {"none", "SERVICE", "INTERNAL", "REMOTE_JOB_MISSING", "PARSE_RESULT_MISSING",
          "PARSE_FAILED"}

Works == [pc : PCs, run : {0} \cup Runs, status : Statuses, job : BOOLEAN,
          attempts : Nat, code : Codes]

(* Types of the rows and of the workers' local state.                      *)
TypeOK ==
    /\ status \in [Runs -> Statuses]
    /\ lease \in [Runs -> Workers \cup {NoWorker}]
    /\ attempts \in [Runs -> Nat]
    /\ job \in [Runs -> BOOLEAN] /\ cancel \in [Runs -> BOOLEAN]
    /\ code \in [Runs -> Codes]
    /\ parsed \subseteq Runs /\ drafted \subseteq Runs /\ answering \subseteq Runs
    /\ late \subseteq Runs
    /\ task \in {"uploaded", "extracting"} \cup Decided
    /\ worker \in [Workers -> Works]
    /\ crashes \in Nat /\ overruns \in Nat

(* A run that is ready for review has its draft, and a drafted run its     *)
(* parse result, whatever workers crashed, overran their leases or were    *)
(* overtaken by others: this is all the workspace relies on.               *)
ReadyRunsHaveDrafts ==
    /\ \A r \in Runs : status[r] = "ready_for_review" => r \in drafted
    /\ drafted \subseteq parsed

(* The task never reports an outcome that no run of the file has: it is    *)
(* written after the run, in a transaction of its own.  The exception is a *)
(* run whose worker met an error after it had released it (run_once fails  *)
(* it then, whatever others have made of it).                              *)
TaskReportsARealOutcome ==
    task \in Decided => \E r \in Runs : status[r] = task \/ r \in late

(* While leases hold, no run backs off more than three times in a stage.   *)
RetriesAreBounded == \A r \in Runs : attempts[r] <= 3

(* While leases hold, at most one worker is between its claim of a run and *)
(* the write that releases it.                                             *)
Released == HandedOver \cup {"failing_late", "rest"}
OneWorkerPerRun ==
    \A v, w \in Workers :
        v # w /\ worker[v].run = worker[w].run /\ worker[v].run # 0 =>
            worker[v].pc \in Released \/ worker[w].pc \in Released

(* A cancellation that was asked for before the last check keeps the run   *)
(* from ever having a draft: once it is recorded and nobody is past that   *)
(* check, no draft is stored and nobody passes the check.                  *)
PastCheck(r) == \E w \in Workers : worker[w].run = r /\ worker[w].pc = "drafting"
CancelledRunsGetNoDraft ==
    [][\A r \in Runs : cancel[r] /\ r \notin drafted /\ ~PastCheck(r) =>
            r \notin drafted' /\ ~PastCheck(r)']_vars

(* Every run is decided, again and again if a late worker reopened it: no  *)
(* crash, overrun, cancellation or trouble outside leaves it for ever.     *)
RunsAreDecided == \A r \in Runs : [](status[r] # "none" => <>(status[r] \in Decided))

(* Without cancellations and overruns the pipeline is the lifecycle that   *)
(* the workspace is written for: a run is decided once, unless its worker  *)
(* met an error after it had released the run.                             *)
OutcomeOf(s) == CASE s \in Claimable          -> "active"
                  [] s = "ready_for_review"   -> "ready"
                  [] OTHER                    -> s
Lifecycle == INSTANCE RunLifecycle WITH
    outcome <- [r \in Runs |-> OutcomeOf(status[r])], stored <- drafted,
    disturbed <- late
ImplementsRunLifecycle == Lifecycle!Spec

-----------------------------------------------------------------------------
(* Statements of the documentation that the code does not keep.            *)

(* README.md and docs/architecture.md: leases and fencing keep an expired  *)
(* process from overwriting a newer result, so a run that is ready for     *)
(* review stays so (nobody cancels).                                       *)
ExpiredWorkersOverwriteNothing ==
    [][\A r \in Runs : status[r] = "ready_for_review" => status'[r] = "ready_for_review"]_vars

(* _handle_external_error: errors marked retryable are retried a bounded   *)
(* number of times; a run that met no other trouble only fails with the    *)
(* error of the service, after its attempts are used up.                   *)
RetryableErrorsAreRetried ==
    \A r \in Runs : status[r] = "failed" => code[r] = "SERVICE"
=============================================================================
