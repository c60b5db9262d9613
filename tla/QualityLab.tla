----------------------------- MODULE QualityLab -----------------------------
(***************************************************************************)
(* The evaluation laboratory: experiments and feedback side by side, and   *)
(* what the two promise.                                                   *)
(***************************************************************************)
EXTENDS Experiments, Feedback

Init == LabInit /\ FeedbackInit

\* The two parts share no state, so that a behaviour need not mix them.
Next == \/ /\ reviewed = {} /\ requests = 0
           /\ LabStep /\ UNCHANGED feedbackVars
        \/ /\ runs = <<>> /\ manifest = 1
           /\ FeedbackStep /\ UNCHANGED labVars
Spec == Init /\ [][Next]_<<labVars, feedbackVars>>

-----------------------------------------------------------------------------
(* A completed run reports each of its documents once, in the order of the *)
(* manifest and with the failed ones among them, and what it reports for a *)
(* document comes from a finished job of that very document; a run that is *)
(* not decided has a process at work on it, or one that died               *)
(* (ExtractionEvaluationRunner.run, ExperimentRunner.run).                 *)
Reported(r) == IF r.limit = 0 THEN Len(Dataset) ELSE r.limit
RunsTellTheirStory ==
    \A r \in DOMAIN runs :
        IF runs[r].status = "completed"
        THEN /\ Len(runs[r].evaluations) = Reported(runs[r])
             /\ \A j \in DOMAIN runs[r].evaluations :
                   LET e == runs[r].evaluations[j]
                   IN  /\ e.doc = Dataset[j]
                       /\ e.valid => jobs[e.job] = [doc |-> e.doc, state |-> "succeeded"]
        ELSE runs[r].status \in {"queued", "running"} =>
                r \in abandoned \/ \E p \in Runners : runner[p].run = r

(* A remote job is paid for once as far as a mark can tell: evaluations    *)
(* that run one after the other resume the job of a document whatever      *)
(* interrupted them once its mark is begun.  Three ways lose a job before  *)
(* that, and it is bought again: the process ends, the answer of an        *)
(* accepted submission is lost, or the mark cannot be opened; the last two *)
(* count as the failure of one document while the process goes on          *)
(* (get_pending, put_pending, submit, _evaluate_one).  Overlapping         *)
(* evaluations may pay twice.                                              *)
JobsAreNotBoughtTwice ==
    Cardinality(Runners) = 1 =>
        \A d \in Docs : Cardinality({j \in DOMAIN jobs \ forgotten : jobs[j].doc = d}) <= 1

(* A recommendation stays founded: its runs are completed and stay as they *)
(* were, deciding again gives the same outcome, every document was read if *)
(* the floor is the default of one, and the candidate is no worse in any   *)
(* measure; nor does the ranking by cost and quality prefer the baseline,  *)
(* unless all qualities are equal (decide_promotion, rank_variants).       *)
RecommendationsAreFounded ==
    \A x \in decisions : x.outcome = "recommended" =>
        LET b == runs[x.baseline]
            c == runs[x.candidate]
            old == Summarize(b.evaluations)
            new == Summarize(c.evaluations)
        IN  /\ b.status = "completed" /\ c.status = "completed"
            /\ b.identity = c.identity
            /\ DecidePromotion(b, c, TRUE, Thresholds) = "recommended"
            /\ Thresholds.validFloor = <<1, 1>> =>
                  \A j \in DOMAIN c.evaluations : c.evaluations[j].valid
            /\ \A m \in {"accuracy", "lineF1", "evidence"} : AtLeast(new[m], old[m])
            /\ \A limit \in Thresholds.costLimit :
                  RanksBefore(old, new, limit) =>
                      \A m \in {"accuracy", "lineF1", "evidence"} : AtLeast(old[m], new[m])

(* A verdict is only ever overwritten when two requests had loaded the row *)
(* before either wrote it; a change is collected once; replacements follow *)
(* a verdict; and only confirmed errors of the model get into the gold     *)
(* data (confirm, confirm_feedback, collect_for_version).                  *)
CollectedOnce(rows) ==
    \A j, l \in DOMAIN rows :
        rows[j].supersedes = 0 /\ rows[l].supersedes = 0 /\ rows[j].change = rows[l].change
            => j = l
VerdictsStand ==
    [][/\ \A j \in DOMAIN candidates :
             candidates'[j] # candidates[j] /\ Judged(j) => j \in contested
       /\ CollectedOnce(candidates')
       /\ \A j \in DOMAIN candidates' :
             LET row == candidates'[j]
             IN  /\ row.gold => row.verdict = "model_error"
                 /\ row.supersedes # 0 => candidates'[row.supersedes].verdict # "none"
      ]_feedbackVars
=============================================================================
