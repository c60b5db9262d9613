-------------------------- MODULE ExtractionProofs --------------------------
(***************************************************************************)
(* Proofs about the extraction pipeline, for any number of workers, runs,  *)
(* crashes and overrun leases.                                             *)
(***************************************************************************)
EXTENDS ExtractionProperties, TLAPS

\* The rows.
RowsOK ==
    /\ status \in [Runs -> Statuses]
    /\ lease \in [Runs -> Workers \cup {NoWorker}]
    /\ attempts \in [Runs -> Nat]
    /\ job \in [Runs -> BOOLEAN] /\ cancel \in [Runs -> BOOLEAN]
    /\ code \in [Runs -> Codes]
    /\ parsed \subseteq Runs /\ drafted \subseteq Runs /\ answering \subseteq Runs
    /\ late \subseteq Runs
    /\ task \in {"uploaded", "extracting"} \cup Decided
    /\ crashes \in Nat /\ overruns \in Nat
    /\ ReadyRunsHaveDrafts

(* The workers: one at work has a run, which it was given in a claimable   *)
(* state; past its normalisation it found a parse result; about to mark    *)
(* the run ready it stored the draft.                                      *)
WorkersOK ==
    /\ worker \in [Workers -> Works]
    /\ \A w \in Workers :
          /\ worker[w].pc # "rest" => worker[w].run \in Runs
          /\ worker[w].pc = "claimed" => worker[w].status \in Claimable
          /\ worker[w].pc \in {"normalized", "drafting"} => worker[w].run \in parsed
          /\ worker[w].pc = "draft_stored" => worker[w].run \in drafted

PipelineInv == RowsOK /\ WorkersOK

\* What the moves of a worker make of its local state.
LEMMA WorkerMoves ==
    ASSUME worker \in [Workers -> Works], NEW w \in Workers
    PROVE  /\ \A pc \in PCs : GoTo(w, pc) =>
                 /\ worker' \in [Workers -> Works]
                 /\ worker'[w].pc = pc /\ worker'[w].run = worker[w].run
                 /\ worker'[w].status = worker[w].status
           /\ \A c \in Codes : Failing(w, c) =>
                 /\ worker' \in [Workers -> Works]
                 /\ worker'[w].pc = "failing" /\ worker'[w].run = worker[w].run
                 /\ worker'[w].status = worker[w].status
           /\ FailingLate(w) =>
                 /\ worker' \in [Workers -> Works]
                 /\ worker'[w].pc = "failing_late" /\ worker'[w].run = worker[w].run
           /\ Rest(w) => worker' \in [Workers -> Works] /\ worker'[w].pc = "rest"
           /\ (\E pc : GoTo(w, pc)) \/ (\E c : Failing(w, c)) \/ FailingLate(w) \/ Rest(w) =>
                 \A v \in Workers \ {w} : worker'[v] = worker[v]
  <1>. DEFINE x == worker[w]
  <1>0. x \in Works
    OBVIOUS
  <1>. HIDE DEF x
  <1>1. ASSUME NEW pc \in PCs
        PROVE  LET y == [x EXCEPT !.pc = pc]
               IN  y \in Works /\ y.pc = pc /\ y.run = x.run /\ y.status = x.status
    BY <1>0 DEF Works
  <1>2. ASSUME NEW c \in Codes, NEW pc \in {"failing", "failing_late"}
        PROVE  LET y == [[x EXCEPT !.pc = pc] EXCEPT !.code = c]
               IN  y \in Works /\ y.pc = pc /\ y.run = x.run /\ y.status = x.status
    BY <1>0 DEF Works, PCs
  <1>3. AtRest \in Works /\ AtRest.pc = "rest"
    BY DEF AtRest, Works, PCs, Statuses, Codes
  <1>4. ASSUME NEW pc, GoTo(w, pc)
        PROVE  worker' = [worker EXCEPT ![w] = [x EXCEPT !.pc = pc]]
    BY <1>4 DEF GoTo, x
  <1>5. ASSUME NEW c, Failing(w, c)
        PROVE  worker' = [worker EXCEPT ![w] = [[x EXCEPT !.pc = "failing"] EXCEPT !.code = c]]
    BY <1>5 DEF Failing, x
  <1>6. Rest(w) => worker' = [worker EXCEPT ![w] = AtRest]
    BY DEF Rest
  <1>7. \A y : /\ [worker EXCEPT ![w] = y][w] = y
              /\ \A v \in Workers \ {w} : [worker EXCEPT ![w] = y][v] = worker[v]
              /\ y \in Works => [worker EXCEPT ![w] = y] \in [Workers -> Works]
    OBVIOUS
  <1>8. ASSUME NEW pc \in PCs, GoTo(w, pc)
        PROVE  /\ worker' \in [Workers -> Works]
               /\ worker'[w].pc = pc /\ worker'[w].run = worker[w].run
               /\ worker'[w].status = worker[w].status
    <2>. DEFINE y == [x EXCEPT !.pc = pc]
    <2>1. worker' = [worker EXCEPT ![w] = y]
      BY <1>4, <1>8
    <2>2. y \in Works /\ y.pc = pc /\ y.run = worker[w].run /\ y.status = worker[w].status
      BY <1>1 DEF x
    <2>. HIDE DEF y
    <2>. QED BY <2>1, <2>2, <1>7
  <1>9. ASSUME NEW c \in Codes, Failing(w, c)
        PROVE  /\ worker' \in [Workers -> Works]
               /\ worker'[w].pc = "failing" /\ worker'[w].run = worker[w].run
               /\ worker'[w].status = worker[w].status
    <2>. DEFINE y == [[x EXCEPT !.pc = "failing"] EXCEPT !.code = c]
    <2>1. worker' = [worker EXCEPT ![w] = y]
      BY <1>5, <1>9
    <2>2. /\ y \in Works /\ y.pc = "failing" /\ y.run = worker[w].run
          /\ y.status = worker[w].status
      BY <1>2 DEF x
    <2>. HIDE DEF y
    <2>. QED BY <2>1, <2>2, <1>7
  <1>12. ASSUME FailingLate(w)
         PROVE  /\ worker' \in [Workers -> Works]
                /\ worker'[w].pc = "failing_late" /\ worker'[w].run = worker[w].run
                /\ \A v \in Workers \ {w} : worker'[v] = worker[v]
    <2>. DEFINE y == [[x EXCEPT !.pc = "failing_late"] EXCEPT !.code = "INTERNAL"]
    <2>1. worker' = [worker EXCEPT ![w] = y]
      BY <1>12 DEF FailingLate, x
    <2>2. y \in Works /\ y.pc = "failing_late" /\ y.run = worker[w].run
      BY <1>2 DEF x, Codes
    <2>. HIDE DEF y
    <2>. QED BY <2>1, <2>2, <1>7
  <1>10. Rest(w) => worker' \in [Workers -> Works] /\ worker'[w].pc = "rest"
    BY <1>3, <1>6, <1>7
  <1>11. (\E pc : GoTo(w, pc)) \/ (\E c : Failing(w, c)) \/ FailingLate(w) \/ Rest(w) =>
            \A v \in Workers \ {w} : worker'[v] = worker[v]
    BY <1>4, <1>5, <1>6, <1>7, <1>12
  <1>. QED BY <1>8, <1>9, <1>10, <1>11, <1>12

LEMMA PipelineInit == Init => PipelineInv
  <1>. SUFFICES ASSUME Init PROVE PipelineInv
    OBVIOUS
  <1>1. AtRest \in Works /\ AtRest.pc = "rest"
    BY DEF AtRest, Works, PCs, Statuses, Codes
  <1>2. WorkersOK
    BY <1>1 DEF Init, WorkersOK
  <1>3. RowsOK
    BY DEF Init, RowsOK, ReadyRunsHaveDrafts, Statuses, Codes
  <1>. QED BY <1>2, <1>3 DEF PipelineInv

\* The moves keep what is known of the workers, if the rows only gain.
LEMMA MovesKeep ==
    ASSUME WorkersOK, NEW w \in Workers, worker[w].pc # "rest",
           parsed \subseteq parsed', drafted \subseteq drafted'
    PROVE  /\ \A pc \in PCs \ {"claimed", "normalized", "drafting", "draft_stored"} :
                 GoTo(w, pc) => WorkersOK'
           /\ GoTo(w, "normalized") \/ GoTo(w, "drafting") =>
                 (worker[w].run \in parsed' => WorkersOK')
           /\ GoTo(w, "draft_stored") => (worker[w].run \in drafted' => WorkersOK')
           /\ \A c \in Codes : Failing(w, c) => WorkersOK'
           /\ FailingLate(w) \/ Rest(w) => WorkersOK'
  <1>. USE DEF WorkersOK
  <1>0. {"normalized", "drafting", "draft_stored"} \subseteq PCs
    BY DEF PCs
  <1>1. ASSUME NEW pc \in PCs, GoTo(w, pc), pc # "claimed",
               pc \in {"normalized", "drafting"} => worker[w].run \in parsed',
               pc = "draft_stored" => worker[w].run \in drafted'
        PROVE  WorkersOK'
    <2>1. /\ worker' \in [Workers -> Works]
          /\ worker'[w].pc = pc /\ worker'[w].run = worker[w].run
      BY <1>1, WorkerMoves
    <2>2. \A v \in Workers \ {w} : worker'[v] = worker[v]
      BY <1>1, WorkerMoves
    <2>3. ASSUME NEW v \in Workers
          PROVE  /\ worker'[v].pc # "rest" => worker'[v].run \in Runs
                 /\ worker'[v].pc = "claimed" => worker'[v].status \in Claimable
                 /\ worker'[v].pc \in {"normalized", "drafting"} => worker'[v].run \in parsed'
                 /\ worker'[v].pc = "draft_stored" => worker'[v].run \in drafted'
      <3>1. CASE v = w
        BY <1>1, <2>1, <3>1
      <3>2. CASE v # w
        BY <2>2, <3>2
      <3>. QED BY <3>1, <3>2
    <2>. QED BY <2>1, <2>3
  <1>2. ASSUME NEW c \in Codes, Failing(w, c) PROVE WorkersOK'
    BY <1>2, WorkerMoves
  <1>3. ASSUME FailingLate(w) \/ Rest(w) PROVE WorkersOK'
    BY <1>3, WorkerMoves
  <1>. QED BY <1>0, <1>1, <1>2, <1>3

LEMMA RaisesKeeps ==
    ASSUME WorkersOK, NEW w \in Workers, worker[w].pc # "rest", Raises(w),
           UNCHANGED <<parsed, drafted>>
    PROVE  WorkersOK'
  BY MovesKeep DEF Raises, PCs, Codes

LEMMA StepKeepsWorkers ==
    ASSUME WorkersOK, NEW w \in Workers, Step(w)
    PROVE  WorkersOK'
  <1>. USE DEF At, UnchangedRows
  <1>1. CASE CheckClaimed(w)
    <2>1. StageOf(worker[w].status) \in {"submit", "poll", "normalize"}
      BY <1>1 DEF CheckClaimed, CheckCancel, WorkersOK, StageOf, Claimable
    <2>. QED BY <1>1, <2>1, MovesKeep DEF CheckClaimed, CheckCancel, PCs
  <1>2. CASE Submit(w)
    BY <1>2, MovesKeep, RaisesKeeps DEF Submit, PCs
  <1>3. CASE StoreJob(w)
    BY <1>3, MovesKeep DEF StoreJob, PCs
  <1>4. CASE CheckSubmitted(w)
    BY <1>4, MovesKeep DEF CheckSubmitted, PCs
  <1>5. CASE JobMissing(w)
    BY <1>5, MovesKeep DEF JobMissing, Codes
  <1>6. CASE Poll(w)
    BY <1>6, MovesKeep, RaisesKeeps DEF Poll, PCs
  <1>7. CASE CheckPolled(w)
    BY <1>7, MovesKeep DEF CheckPolled, PollAnswers, PCs, Codes
  <1>8. CASE Reschedule(w)
    BY <1>8, MovesKeep DEF Reschedule, Finish
  <1>9. CASE StoreParse(w)
    BY <1>9, MovesKeep DEF StoreParse, PCs, Codes
  <1>10. CASE SetNormalizing(w)
    BY <1>10, MovesKeep DEF SetNormalizing, Finish
  <1>11. CASE Normalize(w)
    BY <1>11, MovesKeep, RaisesKeeps DEF Normalize, Codes
  <1>12. CASE CheckNormalized(w)
    <2>1. worker[w].run \in parsed /\ worker[w].pc = "normalized"
      BY <1>12 DEF CheckNormalized, CheckCancel, WorkersOK
    <2>. QED BY <1>12, <2>1, MovesKeep DEF CheckNormalized, CheckCancel, PCs
  <1>13. CASE StoreDraft(w)
    BY <1>13, MovesKeep DEF StoreDraft, Codes
  <1>14. CASE MarkReady(w)
    BY <1>14, MovesKeep DEF MarkReady, PCs
  <1>15. CASE BackOff(w)
    BY <1>15, MovesKeep DEF BackOff
  <1>16. CASE Fail(w)
    BY <1>16, MovesKeep DEF Fail, PCs
  <1>17. CASE MarkCancelled(w)
    BY <1>17, MovesKeep DEF MarkCancelled, PCs
  <1>18. CASE UpdateTask(w)
    BY <1>18, MovesKeep DEF UpdateTask, Finish, Decided
  <1>19. CASE Error(w)
    BY <1>19, MovesKeep DEF Error, InTry, Codes
  <1>. QED BY <1>1, <1>2, <1>3, <1>4, <1>5, <1>6, <1>7, <1>8, <1>9, <1>10, <1>11,
              <1>12, <1>13, <1>14, <1>15, <1>16, <1>17, <1>18, <1>19 DEF Step

\* What a step adds to the runs with a late error.
LEMMA StepOnLate ==
    ASSUME WorkersOK, NEW w \in Workers, Step(w)
    PROVE  \/ UNCHANGED late
           \/ /\ FailingLate(w) /\ worker[w].run \in Runs
              /\ worker[w].pc \in HandedOver \cup {"rescheduling", "parse_stored"}
  <1>. USE DEF WorkersOK, At, UnchangedRest
  <1>1. CASE \/ CheckClaimed(w) \/ Submit(w) \/ CheckSubmitted(w) \/ JobMissing(w) \/ Poll(w)
             \/ CheckPolled(w) \/ Normalize(w) \/ CheckNormalized(w)
    BY <1>1 DEF CheckClaimed, CheckCancel, Submit, CheckSubmitted, JobMissing, Poll,
               CheckPolled, Normalize, CheckNormalized
  <1>2. CASE \/ StoreJob(w) \/ StoreParse(w) \/ StoreDraft(w) \/ MarkReady(w) \/ BackOff(w)
             \/ Fail(w) \/ MarkCancelled(w)
    BY <1>2 DEF StoreJob, StoreParse, StoreDraft, MarkReady, BackOff, Fail, MarkCancelled
  <1>3. CASE Reschedule(w) \/ SetNormalizing(w)
    BY <1>3 DEF Reschedule, SetNormalizing, Finish
  <1>4. CASE UpdateTask(w)
    BY <1>4 DEF UpdateTask, Finish, HandedOver
  <1>5. CASE Error(w)
    BY <1>5 DEF Error, InTry
  <1>. QED BY <1>1, <1>2, <1>3, <1>4, <1>5 DEF Step

LEMMA StepKeepsRows ==
    ASSUME RowsOK, WorkersOK, NEW w \in Workers, Step(w)
    PROVE  RowsOK'
  <1>. USE DEF RowsOK, ReadyRunsHaveDrafts, At, UnchangedRows, UnchangedRest, Set
  <1>0. late' \subseteq Runs
    BY StepOnLate DEF FailingLate
  <1>. USE <1>0
  <1>1. CASE \/ CheckClaimed(w) \/ Submit(w) \/ CheckSubmitted(w) \/ JobMissing(w) \/ Poll(w)
             \/ CheckPolled(w) \/ Normalize(w) \/ CheckNormalized(w) \/ Error(w)
    BY <1>1 DEF CheckClaimed, CheckCancel, Submit, CheckSubmitted, JobMissing, Poll,
               CheckPolled, Normalize, CheckNormalized, Error, runVars
  <1>2. CASE StoreJob(w)
    BY <1>2 DEF StoreJob, Statuses, Claimable
  <1>3. CASE Reschedule(w) \/ SetNormalizing(w)
    BY <1>3 DEF Reschedule, SetNormalizing, Statuses, Claimable
  <1>4. CASE StoreParse(w)
    BY <1>4 DEF StoreParse, runVars, WorkersOK
  <1>5. CASE StoreDraft(w)
    BY <1>5 DEF StoreDraft, runVars, WorkersOK
  <1>6. CASE MarkReady(w)
    <2>1. worker[w].run \in drafted /\ UNCHANGED <<parsed, drafted>>
          /\ status' = [status EXCEPT ![worker[w].run] = "ready_for_review"]
      BY <1>6 DEF MarkReady, WorkersOK
    <2>2. ReadyRunsHaveDrafts'
      BY <2>1
    <2>3. status' \in [Runs -> Statuses]
      BY <2>1 DEF Statuses, Decided
    <2>4. lease' \in [Runs -> Workers \cup {NoWorker}] /\ code' \in [Runs -> Codes]
      BY <1>6 DEF MarkReady, Codes
    <2>5. UNCHANGED <<attempts, job, cancel, parsed, drafted, task, answering, crashes, overruns>>
      BY <1>6 DEF MarkReady
    <2>. QED BY <2>2, <2>3, <2>4, <2>5
  <1>7. CASE BackOff(w)
    <2>. DEFINE r == worker[w].run
    <2>1. /\ status' = [status EXCEPT ![r] = "parsing"]
          /\ attempts' = [attempts EXCEPT ![r] = @ + 1]
          /\ lease' = [lease EXCEPT ![r] = NoWorker]
      BY <1>7 DEF BackOff
    <2>2. UNCHANGED <<job, cancel, code, parsed, drafted, task, answering, crashes, overruns>>
      BY <1>7 DEF BackOff
    <2>. HIDE DEF r
    <2>3. status' \in [Runs -> Statuses] /\ ReadyRunsHaveDrafts'
      BY <2>1, <2>2 DEF Statuses, Claimable
    <2>4. attempts' \in [Runs -> Nat]
      <3>1. \A q \in Runs : attempts'[q] = IF q = r THEN attempts[q] + 1 ELSE attempts[q]
        BY <2>1
      <3>2. \A q \in Runs : attempts'[q] \in Nat
        BY <3>1
      <3>3. attempts' = [q \in Runs |-> attempts'[q]]
        BY <2>1
      <3>. QED BY <3>2, <3>3
    <2>5. lease' \in [Runs -> Workers \cup {NoWorker}]
      BY <2>1
    <2>. QED BY <2>2, <2>3, <2>4, <2>5
  <1>8. CASE Fail(w)
    <2>1. worker[w].code \in Codes
      BY DEF WorkersOK, Works
    <2>. QED BY <1>8, <2>1 DEF Fail, Statuses, Decided
  <1>9. CASE MarkCancelled(w)
    BY <1>9 DEF MarkCancelled, Statuses, Decided
  <1>10. CASE UpdateTask(w)
    BY <1>10 DEF UpdateTask, Reported, Decided, runVars
  <1>. QED BY <1>1, <1>2, <1>3, <1>4, <1>5, <1>6, <1>7, <1>8, <1>9, <1>10 DEF Step

LEMMA PipelineNext == PipelineInv /\ [Next]_vars => PipelineInv'
  <1>. SUFFICES ASSUME PipelineInv, [Next]_vars PROVE PipelineInv'
    OBVIOUS
  <1>. USE DEF PipelineInv
  <1>1. ASSUME NEW r \in Runs, Queue(r) \/ RequestCancel(r) \/ AnswerCancelled(r)
                              \/ LeaseExpires(r) \/ LeaseOverrun(r)
        PROVE  PipelineInv'
    <2>1. WorkersOK'
      BY <1>1 DEF Queue, RequestCancel, AnswerCancelled, LeaseExpires, LeaseOverrun, WorkersOK
    <2>2. RowsOK'
      <3>. USE DEF RowsOK, ReadyRunsHaveDrafts, Set, Statuses, Claimable, Decided
      <3>1. CASE Queue(r)
        BY <3>1 DEF Queue
      <3>2. CASE RequestCancel(r)
        BY <3>2 DEF RequestCancel
      <3>3. CASE AnswerCancelled(r)
        BY <3>3 DEF AnswerCancelled, runVars
      <3>4. CASE LeaseExpires(r) \/ LeaseOverrun(r)
        BY <3>4 DEF LeaseExpires, LeaseOverrun, UnchangedRest
      <3>. QED BY <1>1, <3>1, <3>2, <3>3, <3>4
    <2>. QED BY <2>1, <2>2
  <1>2. ASSUME NEW w \in Workers, NEW r \in Runs, Claim(w, r) PROVE PipelineInv'
    <2>. DEFINE x == [pc |-> "claimed", run |-> r, status |-> status[r], job |-> job[r],
                      attempts |-> attempts[r], code |-> "none"]
    <2>1. x \in Works
      BY DEF RowsOK, Works, PCs, Codes
    <2>2. WorkersOK'
      <3>1. worker' = [worker EXCEPT ![w] = x] /\ UNCHANGED <<parsed, drafted>>
        BY <1>2 DEF Claim
      <3>2. x.pc = "claimed" /\ x.run \in Runs /\ x.status \in Claimable
        BY <1>2 DEF Claim
      <3>. HIDE DEF x
      <3>. QED BY <2>1, <3>1, <3>2 DEF WorkersOK
    <2>3. RowsOK'
      BY <1>2 DEF Claim, UnchangedRest, RowsOK, ReadyRunsHaveDrafts, Set
    <2>. QED BY <2>2, <2>3
  <1>3. ASSUME NEW w \in Workers, Crash(w) PROVE PipelineInv'
    <2>1. WorkersOK'
      BY <1>3, MovesKeep DEF Crash, At, UnchangedRows
    <2>2. RowsOK'
      BY <1>3 DEF Crash, UnchangedRows, runVars, RowsOK, ReadyRunsHaveDrafts
    <2>. QED BY <2>1, <2>2
  <1>4. ASSUME NEW w \in Workers, Step(w) PROVE PipelineInv'
    BY <1>4, StepKeepsWorkers, StepKeepsRows
  <1>5. CASE UNCHANGED vars
    BY <1>5 DEF vars, runVars, RowsOK, WorkersOK, ReadyRunsHaveDrafts
  <1>. QED BY <1>1, <1>2, <1>3, <1>4, <1>5 DEF Next, RunOnce

LEMMA PipelineInvariant == Spec => []PipelineInv
  BY PipelineInit, PipelineNext, PTL DEF Spec

(* Rows and workers keep their types.                                      *)
THEOREM PipelineTypeCorrect == Spec => []TypeOK
  <1>1. PipelineInv => TypeOK
    BY DEF PipelineInv, RowsOK, WorkersOK, TypeOK
  <1>. QED BY <1>1, PipelineInvariant, PTL

(* A run that is ready for review has its draft, and a draft its parse     *)
(* result, whatever crashes and however late a worker writes.              *)
THEOREM ReadyRunsHaveDraftsCorrect == Spec => []ReadyRunsHaveDrafts
  <1>1. PipelineInv => ReadyRunsHaveDrafts
    BY DEF PipelineInv, RowsOK
  <1>. QED BY <1>1, PipelineInvariant, PTL

\* Only the check after the normalisation leads a worker to "drafting".
LEMMA DraftingNeedsTheCheck ==
    ASSUME WorkersOK, NEW w \in Workers, Step(w), worker'[w].pc = "drafting"
    PROVE  CheckNormalized(w) /\ worker'[w].run = worker[w].run /\ ~cancel[worker[w].run]
  <1>. USE WorkerMoves DEF WorkersOK
  <1>1. ~Rest(w) /\ ~FailingLate(w)
    OBVIOUS
  <1>2. \A c \in Codes : ~Failing(w, c)
    OBVIOUS
  <1>3. \A pc \in PCs \ {"drafting"} : ~GoTo(w, pc)
    OBVIOUS
  <1>4. ~Raises(w)
    BY <1>2, <1>3 DEF Raises, PCs, Codes
  <1>5. ~(\/ Submit(w) \/ StoreJob(w) \/ CheckSubmitted(w) \/ JobMissing(w) \/ Poll(w)
          \/ CheckPolled(w) \/ Reschedule(w) \/ StoreParse(w) \/ SetNormalizing(w)
          \/ Normalize(w))
    BY <1>1, <1>2, <1>3, <1>4
       DEF Submit, StoreJob, CheckSubmitted, JobMissing, Poll, CheckPolled, PollAnswers, At,
           Reschedule, StoreParse, SetNormalizing, Normalize, Finish, PCs, Codes
  <1>6. ~(StoreDraft(w) \/ MarkReady(w) \/ BackOff(w) \/ Fail(w) \/ MarkCancelled(w)
          \/ UpdateTask(w) \/ Error(w))
    BY <1>1, <1>2, <1>3
       DEF StoreDraft, MarkReady, BackOff, Fail, MarkCancelled, UpdateTask, Error, Finish, PCs,
           Codes
  <1>7. ~CheckClaimed(w)
    <2>1. ASSUME CheckClaimed(w) PROVE FALSE
      <3>1. StageOf(worker[w].status) \in {"submit", "poll", "normalize"}
        BY <2>1 DEF CheckClaimed, CheckCancel, At, StageOf, Claimable
      <3>. QED BY <2>1, <3>1, <1>3 DEF CheckClaimed, CheckCancel, PCs
    <2>. QED BY <2>1
  <1>8. CheckNormalized(w)
    BY <1>5, <1>6, <1>7 DEF Step
  <1>9. GoTo(w, "drafting") /\ ~cancel[worker[w].run]
    BY <1>8, <1>3 DEF CheckNormalized, CheckCancel, PCs
  <1>. QED BY <1>8, <1>9 DEF PCs

\* A step moves its own worker, in one of the four ways, and no other.
LEMMA StepMovesOne ==
    ASSUME worker \in [Workers -> Works], NEW w \in Workers, Step(w)
    PROVE  \A v \in Workers \ {w} : worker'[v] = worker[v]
  <1>. DEFINE Moves ==
         (\E pc : GoTo(w, pc)) \/ (\E c : Failing(w, c)) \/ FailingLate(w) \/ Rest(w)
  <1>1. Raises(w) => Moves
    BY DEF Raises
  <1>2. \A from, onward : CheckCancel(w, from, onward) => Moves
    BY DEF CheckCancel
  <1>3. CheckClaimed(w) \/ CheckNormalized(w) => Moves
    BY <1>2 DEF CheckClaimed, CheckNormalized
  <1>4. \/ Submit(w) \/ StoreJob(w) \/ CheckSubmitted(w) \/ JobMissing(w) \/ Poll(w)
        \/ CheckPolled(w) \/ Reschedule(w) \/ StoreParse(w) \/ SetNormalizing(w) \/ Normalize(w)
        => Moves
    <2>1. Submit(w) \/ Poll(w) \/ Normalize(w) => Moves
      BY <1>1 DEF Submit, Poll, Normalize
    <2>2. StoreJob(w) \/ CheckSubmitted(w) \/ JobMissing(w) \/ Reschedule(w) => Moves
      BY DEF StoreJob, CheckSubmitted, JobMissing, Reschedule, Finish
    <2>3. CheckPolled(w) => Moves
      BY DEF CheckPolled, PollAnswers, At
    <2>4. StoreParse(w) \/ SetNormalizing(w) => Moves
      BY DEF StoreParse, SetNormalizing, Finish
    <2>. QED BY <2>1, <2>2, <2>3, <2>4
  <1>5. \/ StoreDraft(w) \/ MarkReady(w) \/ BackOff(w) \/ Fail(w) \/ MarkCancelled(w)
        \/ UpdateTask(w) \/ Error(w)
        => Moves
    BY DEF StoreDraft, MarkReady, BackOff, Fail, MarkCancelled, UpdateTask, Error, Finish
  <1>6. Moves
    BY <1>3, <1>4, <1>5 DEF Step
  <1>. QED BY <1>6, WorkerMoves

(* Once a cancellation is recorded and nobody is past the last check, the  *)
(* run never gets a draft, and nobody passes that check any more.          *)
THEOREM CancelledRunsGetNoDraftCorrect == Spec => CancelledRunsGetNoDraft
  <1>1. ASSUME PipelineInv, [Next]_vars, NEW r \in Runs,
               cancel[r], r \notin drafted, ~PastCheck(r)
        PROVE  r \notin drafted' /\ ~PastCheck(r)'
    <2>. USE <1>1 DEF PipelineInv
    <2>1. ASSUME NEW p \in Runs, \/ Queue(p) \/ RequestCancel(p) \/ AnswerCancelled(p)
                                 \/ LeaseExpires(p) \/ LeaseOverrun(p)
          PROVE  r \notin drafted' /\ ~PastCheck(r)'
      BY <2>1 DEF Queue, RequestCancel, AnswerCancelled, LeaseExpires, LeaseOverrun, PastCheck
    <2>2. ASSUME NEW w \in Workers, NEW p \in Runs, Claim(w, p)
          PROVE  r \notin drafted' /\ ~PastCheck(r)'
      <3>1. worker'[w].pc = "claimed" /\ \A v \in Workers \ {w} : worker'[v] = worker[v]
        BY <2>2 DEF Claim, WorkersOK
      <3>. QED BY <2>2, <3>1 DEF Claim, PastCheck
    <2>3. ASSUME NEW w \in Workers, Crash(w) PROVE r \notin drafted' /\ ~PastCheck(r)'
      <3>1. worker'[w].pc = "rest" /\ \A v \in Workers \ {w} : worker'[v] = worker[v]
        BY <2>3, WorkerMoves DEF Crash, WorkersOK
      <3>. QED BY <2>3, <3>1 DEF Crash, UnchangedRows, PastCheck
    <2>4. ASSUME NEW w \in Workers, Step(w) PROVE r \notin drafted' /\ ~PastCheck(r)'
      <3>1. \A v \in Workers \ {w} : worker'[v] = worker[v]
        BY <2>4, StepMovesOne DEF WorkersOK
      <3>2. ~PastCheck(r)'
        BY <2>4, <3>1, DraftingNeedsTheCheck DEF PastCheck
      <3>3. CASE StoreDraft(w)
        BY <3>2, <3>3 DEF StoreDraft, At, PastCheck
      <3>4. CASE ~StoreDraft(w)
        BY <2>4, <3>2, <3>4
           DEF Step, CheckClaimed, CheckCancel, Submit, StoreJob, CheckSubmitted, JobMissing,
               Poll, CheckPolled, Reschedule, StoreParse, SetNormalizing, Normalize,
               CheckNormalized, MarkReady, BackOff, Fail, MarkCancelled, UpdateTask,
               Error, UnchangedRows
      <3>. QED BY <3>2, <3>3, <3>4
    <2>5. CASE UNCHANGED vars
      BY <2>5 DEF vars, PastCheck
    <2>. QED BY <2>1, <2>2, <2>3, <2>4, <2>5 DEF Next, RunOnce
  <1>2. ASSUME PipelineInv, [Next]_vars
        PROVE  [\A r \in Runs : cancel[r] /\ r \notin drafted /\ ~PastCheck(r) =>
                    r \notin drafted' /\ ~PastCheck(r)']_vars
    BY <1>1, <1>2
  <1>. QED BY <1>2, PipelineInvariant, PTL DEF Spec, CancelledRunsGetNoDraft

-----------------------------------------------------------------------------
(* While leases hold and nobody cancels.                                   *)

(* A worker that has not written the release of its run holds the lease,   *)
(* and the run is still to be decided; or the run was failed under it by a *)
(* late error of another one.  This is what makes the exclusion inductive: *)
(* a claim needs a free lease and a claimable run, and a lease of a        *)
(* claimable run only becomes free by its holder's write or once the       *)
(* holder is gone.                                                         *)
Exclusive ==
    /\ \A r \in Runs : ~cancel[r]
    /\ \A w \in Workers : worker[w].pc \notin Released =>
          \/ lease[worker[w].run] = w /\ status[worker[w].run] \in Claimable
          \/ worker[w].run \in late /\ status[worker[w].run] = "failed"
    /\ OneWorkerPerRun
    /\ \A w \in Workers :
          /\ worker[w].pc # "rest" => status[worker[w].run] # "none"
          /\ worker[w].pc = "failing_late" => worker[w].run \in late

\* A worker's step keeps the run's row, or writes it and releases the run, or
\* fails a run that was released before.
Keeps(w) ==
    /\ UNCHANGED <<lease, status>>
    /\ worker'[w].pc \notin Released =>
          worker[w].pc \notin Released /\ worker'[w].run = worker[w].run
Releases(w, s) ==
    /\ worker[w].pc \notin Released /\ worker'[w].pc \in Released
    /\ lease' = [lease EXCEPT ![worker[w].run] = NoWorker]
    /\ status' = [status EXCEPT ![worker[w].run] = s]
FailsLate(w) ==
    /\ worker[w].pc = "failing_late" /\ worker'[w].pc \in Released \ {"failing_late"}
    /\ lease' = [lease EXCEPT ![worker[w].run] = NoWorker]
    /\ status' = [status EXCEPT ![worker[w].run] = "failed"]

LEMMA ReleasedNames ==
    Released = {"job_stored", "task_ready_for_review", "task_failed", "task_cancelled",
                "failing_late", "rest"}
  BY DEF Released, HandedOver

LEMMA StepKeepsOrReleases ==
    ASSUME WorkersOK, \A r \in Runs : ~cancel[r], NEW w \in Workers, Step(w)
    PROVE  /\ UNCHANGED <<cancel, answering, crashes, overruns>>
           /\ \/ Keeps(w)
              \/ \E s \in Claimable : Releases(w, s) /\ UNCHANGED drafted
              \/ \E s \in {"failed", "cancelled"} :
                    Releases(w, s) /\ UNCHANGED <<drafted, late>>
              \/ Releases(w, "ready_for_review") /\ UNCHANGED <<drafted, late>> /\ MarkReady(w)
              \/ FailsLate(w) /\ UNCHANGED <<drafted, late>>
  <1>. USE WorkerMoves, ReleasedNames DEF WorkersOK, At, Set, UnchangedRest, UnchangedRows, runVars
  <1>. DEFINE Goal == /\ UNCHANGED <<cancel, answering, crashes, overruns>>
                      /\ \/ Keeps(w)
                         \/ \E s \in Claimable : Releases(w, s) /\ UNCHANGED drafted
                         \/ \E s \in {"failed", "cancelled"} :
                               Releases(w, s) /\ UNCHANGED <<drafted, late>>
                         \/ Releases(w, "ready_for_review") /\ UNCHANGED <<drafted, late>> /\ MarkReady(w)
                         \/ FailsLate(w) /\ UNCHANGED <<drafted, late>>
             <1>1. ASSUME worker[w].pc \notin Released, Raises(w), UNCHANGED <<lease, status>>
        PROVE  Keeps(w)
    BY <1>1 DEF Raises, Keeps, PCs, Codes
  <1>2. ASSUME NEW from \in PCs \ Released, NEW onward \in PCs, CheckCancel(w, from, onward)
        PROVE  Goal
    BY <1>2 DEF CheckCancel, Keeps, PCs
  <1>3. CASE CheckClaimed(w)
    <2>1. StageOf(worker[w].status) \in {"submit", "poll", "normalize"}
      BY <1>3 DEF CheckClaimed, CheckCancel, StageOf, Claimable
    <2>. QED BY <1>2, <1>3, <2>1 DEF CheckClaimed, PCs
  <1>4. CASE CheckNormalized(w)
    BY <1>2, <1>4 DEF CheckNormalized, PCs
  <1>5. CASE Submit(w) \/ JobMissing(w) \/ Poll(w) \/ Normalize(w)
    BY <1>1, <1>5 DEF Submit, JobMissing, Poll, Normalize, Keeps, PCs, Codes
  <1>6. CASE CheckPolled(w)
    BY <1>6 DEF CheckPolled, PollAnswers, Keeps, PCs, Codes
  <1>7. CASE CheckSubmitted(w)
    <2>1. Rest(w)
      BY <1>7 DEF CheckSubmitted
    <2>. QED BY <1>7, <2>1 DEF CheckSubmitted, Keeps
  <1>8. CASE StoreParse(w) \/ StoreDraft(w)
    BY <1>8 DEF StoreParse, StoreDraft, Keeps, PCs, Codes
  <1>9. CASE UpdateTask(w)
    BY <1>9 DEF UpdateTask, Finish, Keeps
  <1>10. CASE StoreJob(w)
    <2>1. Releases(w, "parsing") /\ UNCHANGED drafted
      BY <1>10 DEF StoreJob, Releases, PCs
    <2>. QED BY <1>10, <2>1 DEF StoreJob, Claimable
  <1>11. CASE Reschedule(w)
    <2>1. Releases(w, "parsing") /\ UNCHANGED drafted
      BY <1>11 DEF Reschedule, Finish, Releases
    <2>. QED BY <1>11, <2>1 DEF Reschedule, Claimable
  <1>12. CASE SetNormalizing(w)
    <2>1. Releases(w, "normalizing") /\ UNCHANGED drafted
      BY <1>12 DEF SetNormalizing, Finish, Releases
    <2>. QED BY <1>12, <2>1 DEF SetNormalizing, Claimable
  <1>13. CASE MarkReady(w)
    <2>1. Releases(w, "ready_for_review") /\ UNCHANGED <<drafted, late>>
      BY <1>13 DEF MarkReady, Releases, PCs
    <2>. QED BY <1>13, <2>1 DEF MarkReady
  <1>14. CASE BackOff(w)
    <2>1. Releases(w, "parsing") /\ UNCHANGED drafted
      BY <1>14 DEF BackOff, Releases
    <2>. QED BY <1>14, <2>1 DEF BackOff, Claimable
  <1>15. CASE Fail(w)
    <2>1. CASE worker[w].pc = "failing"
      <3>1. Releases(w, "failed") /\ UNCHANGED <<drafted, late>>
        BY <1>15, <2>1 DEF Fail, Releases, PCs
      <3>. QED BY <1>15, <3>1 DEF Fail
    <2>2. CASE worker[w].pc = "failing_late"
      <3>1. FailsLate(w) /\ UNCHANGED <<drafted, late>>
        BY <1>15, <2>2 DEF Fail, FailsLate, PCs
      <3>. QED BY <1>15, <3>1 DEF Fail
    <2>. QED BY <1>15, <2>1, <2>2 DEF Fail
  <1>17. CASE Error(w)
    <2>1. /\ UNCHANGED <<runVars, parsed, drafted, task, answering, crashes, overruns>>
          /\ \/ worker[w].pc \in HandedOver /\ FailingLate(w)
             \/ worker[w].pc \notin Released /\ Failing(w, "INTERNAL")
      BY <1>17 DEF Error, InTry, Released
    <2>. QED BY <2>1 DEF Keeps, Codes, HandedOver
  <1>16. CASE MarkCancelled(w)
    <2>1. GoTo(w, "task_cancelled") /\ UNCHANGED <<cancel, drafted, late>>
      BY <1>16 DEF MarkCancelled
    <2>2. worker'[w].pc \in Released /\ worker[w].pc \notin Released
      BY <1>16, <2>1 DEF MarkCancelled, PCs
    <2>3. CASE status[worker[w].run] # "cancelled"
      <3>1. Releases(w, "cancelled")
        BY <1>16, <2>2, <2>3 DEF MarkCancelled, Releases
      <3>. QED BY <1>16, <2>1, <3>1 DEF MarkCancelled
    <2>4. CASE status[worker[w].run] = "cancelled"
      <3>1. Keeps(w)
        BY <1>16, <2>2, <2>4 DEF MarkCancelled, Keeps
      <3>. QED BY <1>16, <3>1 DEF MarkCancelled
    <2>. QED BY <2>3, <2>4
  <1>. QED BY <1>3, <1>4, <1>5, <1>6, <1>7, <1>8, <1>9, <1>10, <1>11, <1>12, <1>13, <1>14,
              <1>15, <1>16, <1>17 DEF Step

\* The worker a step leaves is at work on the same run; and where late errors come from.
LEMMA StepMoves ==
    ASSUME WorkersOK, NEW w \in Workers, Step(w)
    PROVE  /\ worker[w].pc # "rest"
           /\ worker'[w].pc # "rest" => worker'[w].run = worker[w].run
           /\ worker'[w].pc = "failing_late" => FailingLate(w)
  <1>. USE WorkerMoves DEF WorkersOK, At
  <1>. DEFINE M == \/ \E pc \in PCs \ {"rest", "failing_late"} : GoTo(w, pc)
                   \/ \E c \in Codes : Failing(w, c)
                   \/ FailingLate(w) \/ Rest(w)
  <1>1. Raises(w) => M
    BY DEF Raises, PCs, Codes
  <1>2. \A from : \A onward \in PCs \ {"rest", "failing_late"} : CheckCancel(w, from, onward) => M
    BY DEF CheckCancel, PCs
  <1>3. CASE CheckClaimed(w) \/ CheckNormalized(w)
    <2>1. CheckClaimed(w) => StageOf(worker[w].status) \in {"submit", "poll", "normalize"}
      BY DEF CheckClaimed, CheckCancel, StageOf, Claimable
    <2>2. M
      BY <1>2, <1>3, <2>1 DEF CheckClaimed, CheckNormalized, PCs
    <2>. QED BY <1>3, <2>2 DEF CheckClaimed, CheckNormalized, CheckCancel
  <1>4. CASE Submit(w) \/ JobMissing(w) \/ Poll(w) \/ Normalize(w)
    <2>1. M
      BY <1>1, <1>4 DEF Submit, JobMissing, Poll, Normalize, PCs, Codes
    <2>. QED BY <1>4, <2>1 DEF Submit, JobMissing, Poll, Normalize
  <1>5. CASE StoreJob(w) \/ CheckSubmitted(w) \/ StoreParse(w) \/ StoreDraft(w)
    <2>1. M
      BY <1>5 DEF StoreJob, CheckSubmitted, StoreParse, StoreDraft, PCs, Codes
    <2>. QED BY <1>5, <2>1 DEF StoreJob, CheckSubmitted, StoreParse, StoreDraft
  <1>6. CASE CheckPolled(w)
    <2>1. M
      BY <1>6 DEF CheckPolled, PollAnswers, PCs, Codes
    <2>. QED BY <1>6, <2>1 DEF CheckPolled, PollAnswers
  <1>7. CASE Reschedule(w) \/ SetNormalizing(w) \/ UpdateTask(w) \/ BackOff(w)
    <2>1. M
      BY <1>7 DEF Reschedule, SetNormalizing, UpdateTask, BackOff, Finish
    <2>. QED BY <1>7, <2>1 DEF Reschedule, SetNormalizing, UpdateTask, BackOff
  <1>8. CASE MarkReady(w) \/ Fail(w) \/ MarkCancelled(w)
    <2>1. M
      BY <1>8 DEF MarkReady, Fail, MarkCancelled, PCs
    <2>. QED BY <1>8, <2>1 DEF MarkReady, Fail, MarkCancelled
  <1>9. CASE Error(w)
    <2>1. M
      BY <1>9 DEF Error, Codes
    <2>. QED BY <1>9, <2>1 DEF Error, InTry
  <1>. QED BY <1>3, <1>4, <1>5, <1>6, <1>7, <1>8, <1>9 DEF Step

LEMMA ExclusiveNext ==
    ASSUME ~MayCancel, MaxOverruns = 0, PipelineInv, Exclusive, [Next]_vars
    PROVE  Exclusive'
  <1>. USE DEF PipelineInv
  <1>0. \A w \in Workers : worker[w].pc # "rest" => worker[w].run \in Runs
    BY DEF WorkersOK
  <1>1. ASSUME NEW r \in Runs, Queue(r) \/ AnswerCancelled(r) PROVE Exclusive'
    <2>1. CASE Queue(r)
      <3>1. /\ status[r] = "none" /\ UNCHANGED <<lease, cancel, worker, late>>
            /\ \A q \in Runs : status'[q] = IF q = r THEN "queued" ELSE status[q]
        BY <2>1 DEF Queue, Set, RowsOK
      <3>. QED BY <1>0, <3>1, ReleasedNames DEF Exclusive, OneWorkerPerRun, Claimable
    <2>2. CASE AnswerCancelled(r)
      BY <2>2 DEF AnswerCancelled, runVars, Exclusive, OneWorkerPerRun
    <2>. QED BY <1>1, <2>1, <2>2
  <1>2. ASSUME NEW r \in Runs PROVE ~RequestCancel(r) /\ ~LeaseOverrun(r)
    BY DEF RequestCancel, LeaseOverrun, RowsOK
  <1>3. ASSUME NEW r \in Runs, LeaseExpires(r) PROVE Exclusive'
    <2>1. /\ UNCHANGED <<status, cancel, worker, late>>
          /\ \A q \in Runs : lease'[q] = IF q = r THEN NoWorker ELSE lease[q]
          /\ worker[lease[r]].run # r
      BY <1>3 DEF LeaseExpires, Abandoned, UnchangedRest, Set, RowsOK
    <2>. QED BY <1>0, <2>1, ReleasedNames DEF Exclusive, OneWorkerPerRun
  <1>4. ASSUME NEW w \in Workers, NEW r \in Runs, Claim(w, r) PROVE Exclusive'
    <2>1. \A v \in Workers : worker[v].pc \notin Released => worker[v].run # r
      BY <1>4, NoWorkerIsNone DEF Claim, Unleased, Exclusive, Claimable
    <2>2. /\ worker'[w].pc = "claimed" /\ worker'[w].run = r
          /\ \A v \in Workers \ {w} : worker'[v] = worker[v]
      BY <1>4 DEF Claim, WorkersOK
    <2>3. /\ status[r] \in Claimable /\ UNCHANGED <<status, cancel, late>>
          /\ \A q \in Runs : lease'[q] = IF q = r THEN w ELSE lease[q]
      BY <1>4 DEF Claim, Set, RowsOK, UnchangedRest
    <2>4. \A v \in Workers : worker'[v].pc \notin Released =>
             \/ lease'[worker'[v].run] = v /\ status'[worker'[v].run] \in Claimable
             \/ worker'[v].run \in late' /\ status'[worker'[v].run] = "failed"
      <3>1. ASSUME NEW v \in Workers \ {w}, worker[v].pc \notin Released
            PROVE  /\ worker[v].run \in Runs \ {r}
                   /\ \/ lease[worker[v].run] = v /\ status[worker[v].run] \in Claimable
                      \/ worker[v].run \in late /\ status[worker[v].run] = "failed"
        BY <1>0, <2>1, <3>1, ReleasedNames DEF Exclusive
      <3>. QED BY <2>2, <2>3, <3>1
    <2>5. OneWorkerPerRun'
      BY <2>1, <2>2 DEF Exclusive, OneWorkerPerRun
    <2>6. status[r] # "none"
      BY <2>3 DEF Claimable
    <2>. QED BY <2>2, <2>3, <2>4, <2>5, <2>6 DEF Exclusive
  <1>5. ASSUME NEW w \in Workers, Crash(w) PROVE Exclusive'
    <2>1. worker'[w].pc = "rest" /\ \A v \in Workers \ {w} : worker'[v] = worker[v]
      BY <1>5, WorkerMoves DEF Crash, WorkersOK
    <2>2. UNCHANGED <<status, lease, cancel, late>>
      BY <1>5 DEF Crash, UnchangedRows, runVars
    <2>. QED BY <2>1, <2>2, ReleasedNames DEF Exclusive, OneWorkerPerRun
  <1>6. ASSUME NEW w \in Workers, Step(w) PROVE Exclusive'
    <2>. DEFINE r == worker[w].run
    <2>0. /\ r \in Runs
          /\ worker'[w].pc # "rest" => worker'[w].run = r
          /\ worker'[w].pc = "failing_late" => FailingLate(w)
      BY <1>0, <1>6, StepMoves
    <2>1. UNCHANGED cancel /\ \A v \in Workers \ {w} : worker'[v] = worker[v]
      BY <1>6, StepKeepsOrReleases, StepMovesOne DEF WorkersOK, Exclusive
    <2>2. late \subseteq late' /\ (worker'[w].pc = "failing_late" => r \in late')
      BY <1>6, <2>0, StepOnLate DEF FailingLate
    <2>. DEFINE Row ==
           /\ \A q \in Runs : q # r => lease'[q] = lease[q] /\ status'[q] = status[q]
           /\ status[r] # "none" => status'[r] # "none"
           /\ worker'[w].pc \notin Released =>
                 /\ worker[w].pc \notin Released
                 /\ lease'[r] = lease[r] /\ status'[r] = status[r]
           /\ \/ lease'[r] = lease[r] /\ status'[r] = status[r]
              \/ worker[w].pc \notin Released
              \/ r \in late' /\ status'[r] = "failed"
    <2>3. Row
      <3>1. CASE Keeps(w)
        BY <3>1 DEF Keeps
      <3>2. ASSUME NEW s \in Claimable \cup {"failed", "cancelled", "ready_for_review"},
                   Releases(w, s)
            PROVE  Row
        BY <2>0, <3>2 DEF Releases, RowsOK, Claimable
      <3>3. CASE FailsLate(w)
        BY <2>0, <2>2, <3>3 DEF FailsLate, RowsOK, Exclusive
      <3>4. \A q \in Runs : ~cancel[q]
        BY DEF Exclusive
      <3>. HIDE DEF Row, r
      <3>. QED BY <1>6, <3>1, <3>2, <3>3, <3>4, StepKeepsOrReleases
    <2>4. ASSUME NEW v \in Workers, worker'[v].pc \notin Released
          PROVE  /\ worker[v].pc \notin Released /\ worker'[v].run = worker[v].run
                 /\ \/ lease'[worker[v].run] = v /\ status'[worker[v].run] \in Claimable
                    \/ worker[v].run \in late' /\ status'[worker[v].run] = "failed"
      <3>1. worker[v].pc \notin Released /\ worker'[v].run = worker[v].run
        BY <2>0, <2>1, <2>3, <2>4, ReleasedNames
      <3>2. /\ worker[v].run \in Runs
            /\ \/ lease[worker[v].run] = v /\ status[worker[v].run] \in Claimable
               \/ worker[v].run \in late /\ status[worker[v].run] = "failed"
        BY <1>0, <3>1, ReleasedNames DEF Exclusive
      <3>3. CASE v = w
        <4>1. lease'[r] = lease[r] /\ status'[r] = status[r] /\ worker[v].run = r
          BY <2>3, <2>4, <3>3
        <4>. HIDE DEF r, Row
        <4>. QED BY <2>2, <3>1, <3>2, <4>1
      <3>4. CASE v # w /\ worker[v].run = r
        <4>1. worker[w].pc \in Released
          BY <2>0, <3>1, <3>4 DEF Exclusive, OneWorkerPerRun, Runs
        <4>. QED BY <2>2, <2>3, <3>1, <3>2, <3>4, <4>1
      <3>5. CASE worker[v].run # r
        BY <2>2, <2>3, <3>1, <3>2, <3>5
      <3>. QED BY <3>1, <3>3, <3>4, <3>5
    <2>5. OneWorkerPerRun'
      <3>1. ASSUME NEW u \in Workers, NEW v \in Workers, u # v, worker'[u].pc \notin Released,
                   worker'[v].pc \notin Released
            PROVE  worker'[u].run # worker'[v].run
        <4>1. /\ worker[u].pc \notin Released /\ worker'[u].run = worker[u].run
              /\ worker[v].pc \notin Released /\ worker'[v].run = worker[v].run
          BY <2>4, <3>1
        <4>2. worker[u].run \in Runs
          BY <1>0, <4>1, ReleasedNames
        <4>. QED BY <3>1, <4>1, <4>2 DEF Exclusive, OneWorkerPerRun, Runs
      <3>. QED BY <3>1 DEF OneWorkerPerRun
    <2>6. ASSUME NEW v \in Workers
          PROVE  /\ worker'[v].pc # "rest" => status'[worker'[v].run] # "none"
                 /\ worker'[v].pc = "failing_late" => worker'[v].run \in late'
      <3>1. CASE v = w
        BY <1>6, <2>0, <2>2, <2>3, <3>1, StepMoves DEF Exclusive
      <3>2. CASE v # w
        BY <1>0, <2>1, <2>2, <2>3, <3>2 DEF Exclusive
      <3>. QED BY <3>1, <3>2
    <2>7. \A q \in Runs : ~cancel'[q]
      BY <2>1 DEF Exclusive
    <2>8. \A v \in Workers : worker'[v].pc \notin Released =>
             \/ lease'[worker'[v].run] = v /\ status'[worker'[v].run] \in Claimable
             \/ worker'[v].run \in late' /\ status'[worker'[v].run] = "failed"
      BY <2>4
    <2>. QED BY <2>5, <2>6, <2>7, <2>8 DEF Exclusive
  <1>7. CASE UNCHANGED vars
    BY <1>7 DEF vars, runVars, Exclusive, OneWorkerPerRun
  <1>. QED BY <1>1, <1>2, <1>3, <1>4, <1>5, <1>6, <1>7 DEF Next, RunOnce

LEMMA ExclusiveInvariant == ~MayCancel /\ MaxOverruns = 0 => (Spec => []Exclusive)
  <1>1. Init => Exclusive
    BY ReleasedNames DEF Init, Exclusive, OneWorkerPerRun, AtRest
  <1>2. ASSUME ~MayCancel, MaxOverruns = 0 PROVE Spec => []Exclusive
    <2>1. PipelineInv /\ Exclusive /\ [Next]_vars => Exclusive'
      BY <1>2, ExclusiveNext
    <2>. QED BY <1>1, <2>1, PipelineInvariant, PTL DEF Spec
  <1>. QED BY <1>2

(* While leases hold and nobody cancels, at most one worker is between its *)
(* claim of a run and the write that releases it, whatever crashes and     *)
(* errors there are.                                                       *)
THEOREM OneWorkerPerRunCorrect ==
    ~MayCancel /\ MaxOverruns = 0 => (Spec => []OneWorkerPerRun)
  <1>1. PipelineInv /\ Exclusive => OneWorkerPerRun
    BY DEF Exclusive
  <1>. QED BY <1>1, PipelineInvariant, ExclusiveInvariant, PTL

LEMMA Outcomes ==
    /\ \A s \in Claimable : OutcomeOf(s) = "active"
    /\ OutcomeOf("ready_for_review") = "ready"
    /\ OutcomeOf("failed") = "failed" /\ OutcomeOf("cancelled") = "cancelled"
    /\ OutcomeOf("none") = "none"
  BY DEF OutcomeOf, Claimable

(* Under the same conditions the pipeline implements the lifecycle.        *)
THEOREM PipelineImplementsRunLifecycle ==
    ~MayCancel /\ MaxOverruns = 0 => (Spec => ImplementsRunLifecycle)
  <1>. DEFINE Outcome == [r \in Runs |-> OutcomeOf(status[r])]
  <1>. DEFINE Seen == <<Outcome, drafted, late>>
  <1>1. Init => Lifecycle!Init
    BY DEF Init, Lifecycle!Init, OutcomeOf, Claimable
  <1>2. ASSUME ~MayCancel, MaxOverruns = 0, PipelineInv, Exclusive, [Next]_vars
        PROVE  [Lifecycle!Next]_Seen
    <2>. USE <1>2 DEF PipelineInv
    <2>1. ASSUME NEW r \in Runs, Queue(r) PROVE Lifecycle!Queue(r)
      BY <2>1 DEF Queue, Set, Lifecycle!Queue, OutcomeOf, Claimable, RowsOK
    <2>2. ASSUME NEW r \in Runs, AnswerCancelled(r) \/ LeaseExpires(r)
          PROVE  UNCHANGED Seen
      BY <2>2 DEF AnswerCancelled, LeaseExpires, UnchangedRest, runVars
    <2>3. ASSUME NEW r \in Runs PROVE ~RequestCancel(r) /\ ~LeaseOverrun(r)
      BY DEF RequestCancel, LeaseOverrun, RowsOK
    <2>4. ASSUME NEW w \in Workers, (\E r \in Runs : Claim(w, r)) \/ Crash(w)
          PROVE  UNCHANGED Seen
      BY <2>4 DEF Claim, Crash, UnchangedRows, UnchangedRest, runVars
    <2>5. ASSUME NEW w \in Workers, Step(w) PROVE [Lifecycle!Next]_Seen
      <3>. DEFINE r == worker[w].run
      <3>0. /\ r \in Runs /\ status[r] # "none"
            /\ Outcome[r] = OutcomeOf(status[r]) /\ Outcome[r] # "none"
        <4>1. r \in Runs /\ status[r] # "none"
          BY <2>5, StepMoves DEF WorkersOK, Exclusive
        <4>2. \A s \in Statuses : s # "none" => OutcomeOf(s) # "none"
          BY DEF OutcomeOf, Statuses, Claimable, Decided
        <4>. QED BY <4>1, <4>2 DEF RowsOK
      <3>1. worker[w].pc \notin Released => Lifecycle!Open(r)
        BY <3>0, Outcomes DEF Exclusive, Lifecycle!Open
      <3>2. CASE StoreDraft(w)
        <4>1. UNCHANGED <<status, late>> /\ worker[w].pc \notin Released
          BY <3>2, ReleasedNames DEF StoreDraft, At, runVars, UnchangedRest
        <4>2. CASE UNCHANGED drafted
          BY <4>1, <4>2
        <4>3. CASE r \notin drafted /\ drafted' = drafted \cup {r}
          <5>1. Lifecycle!StoreDraft(r)
            BY <3>1, <4>1, <4>3 DEF Lifecycle!StoreDraft
          <5>. QED BY <3>0, <5>1 DEF Lifecycle!Next
        <4>. QED BY <3>2, <4>2, <4>3 DEF StoreDraft
      <3>3. CASE Keeps(w) /\ ~StoreDraft(w)
        <4>1. UNCHANGED drafted
          BY <2>5, <3>3
             DEF Step, CheckClaimed, CheckCancel, Submit, StoreJob, CheckSubmitted, JobMissing,
                 Poll, CheckPolled, Reschedule, StoreParse, SetNormalizing, Normalize,
                 CheckNormalized, MarkReady, BackOff, Fail, MarkCancelled, UpdateTask,
                 Error, UnchangedRows
        <4>2. UNCHANGED Outcome
          BY <3>3 DEF Keeps
        <4>3. CASE UNCHANGED late
          BY <4>1, <4>2, <4>3
        <4>4. CASE FailingLate(w)
          <5>1. Lifecycle!Disturb(r)
            BY <3>0, <4>1, <4>2, <4>4 DEF FailingLate, Lifecycle!Disturb
          <5>. QED BY <3>0, <5>1 DEF Lifecycle!Next
        <4>. QED BY <2>5, <4>3, <4>4, StepOnLate
      <3>4. ASSUME NEW s \in Claimable \cup Decided, Releases(w, s)
            PROVE  /\ Outcome' = [Outcome EXCEPT ![r] = OutcomeOf(s)]
                   /\ worker[w].pc \notin Released
        <4>1. \A q \in Runs : status'[q] = IF q = r THEN s ELSE status[q]
          BY <3>4 DEF Releases, RowsOK
        <4>. QED BY <3>0, <3>4, <4>1 DEF Releases
      <3>5. ASSUME NEW s \in Claimable, Releases(w, s), UNCHANGED drafted
            PROVE  [Lifecycle!Next]_Seen
        <4>1. Outcome' = [Outcome EXCEPT ![r] = "active"] /\ Lifecycle!Open(r)
          BY <3>1, <3>4, <3>5, Outcomes
        <4>2. CASE Outcome[r] = "active"
          <5>1. UNCHANGED Outcome
            BY <3>0, <4>1, <4>2
          <5>2. CASE UNCHANGED late
            BY <3>5, <5>1, <5>2
          <5>3. CASE FailingLate(w)
            <6>1. Lifecycle!Disturb(r)
              BY <3>0, <3>5, <5>1, <5>3 DEF FailingLate, Lifecycle!Disturb
            <6>. QED BY <3>0, <6>1 DEF Lifecycle!Next
          <5>. QED BY <2>5, <5>2, <5>3, StepOnLate
        <4>3. CASE Outcome[r] = "failed" /\ r \in late
          <5>1. UNCHANGED late
            <6>1. CASE FailingLate(w)
              <7>1. late' = late \cup {r}
                BY <6>1 DEF FailingLate
              <7>. QED BY <4>3, <7>1
            <6>. QED BY <2>5, <6>1, StepOnLate
          <5>2. Lifecycle!GoOn(r)
            BY <3>5, <4>1, <4>3, <5>1 DEF Lifecycle!GoOn
          <5>. QED BY <3>0, <5>2 DEF Lifecycle!Next
        <4>. QED BY <4>1, <4>2, <4>3 DEF Lifecycle!Open
      <3>6. ASSUME NEW s \in Decided, Releases(w, s), UNCHANGED <<drafted, late>>,
                   s = "ready_for_review" => r \in drafted
            PROVE  [Lifecycle!Next]_Seen
        <4>1. /\ OutcomeOf(s) \in {"ready", "failed", "cancelled"}
              /\ OutcomeOf(s) = "ready" => r \in drafted
          BY <3>6, Outcomes DEF Decided
        <4>2. Lifecycle!Decide(r, OutcomeOf(s))
          BY <3>1, <3>4, <3>6, <4>1 DEF Lifecycle!Decide
        <4>. QED BY <3>0, <4>1, <4>2 DEF Lifecycle!Next
      <3>7. CASE FailsLate(w) /\ UNCHANGED <<drafted, late>>
        <4>1. \A q \in Runs : status'[q] = IF q = r THEN "failed" ELSE status[q]
          BY <3>7 DEF FailsLate, RowsOK
        <4>2. Outcome' = [Outcome EXCEPT ![r] = "failed"]
          BY <3>0, <4>1, Outcomes
        <4>3. r \in late
          BY <3>7 DEF FailsLate, Exclusive
        <4>4. Lifecycle!Undo(r)
          BY <3>0, <3>7, <4>2, <4>3 DEF Lifecycle!Undo
        <4>. QED BY <3>0, <4>4 DEF Lifecycle!Next
      <3>8. MarkReady(w) => r \in drafted
        BY DEF MarkReady, At, WorkersOK
      <3>9. CASE \E s \in {"failed", "cancelled"} : Releases(w, s) /\ UNCHANGED <<drafted, late>>
        BY <3>6, <3>9 DEF Decided
      <3>10. CASE Releases(w, "ready_for_review") /\ UNCHANGED <<drafted, late>> /\ MarkReady(w)
        BY <3>6, <3>8, <3>10 DEF Decided
      <3>11. \A q \in Runs : ~cancel[q]
        BY DEF Exclusive
      <3>. HIDE DEF r, Seen, Outcome
      <3>. QED BY <2>5, <3>2, <3>3, <3>5, <3>7, <3>9, <3>10, <3>11, StepKeepsOrReleases
    <2>6. CASE UNCHANGED vars
      BY <2>6 DEF vars, runVars
    <2>. QED BY <2>1, <2>2, <2>3, <2>4, <2>5, <2>6 DEF Next, RunOnce, Lifecycle!Next
  <1>3. ASSUME ~MayCancel, MaxOverruns = 0 PROVE Spec => ImplementsRunLifecycle
    <2>1. PipelineInv /\ Exclusive /\ [Next]_vars => [Lifecycle!Next]_Seen
      BY <1>2, <1>3
    <2>. QED BY <1>1, <2>1, <1>3, PipelineInvariant, ExclusiveInvariant, PTL
            DEF Spec, ImplementsRunLifecycle, Lifecycle!Spec
  <1>. QED BY <1>3

-----------------------------------------------------------------------------
(* What the task reports, and how often a run is tried again.              *)

Reporting == {"task_ready_for_review", "task_failed", "task_cancelled"}

LEMMA AttemptsStay ==
    ASSUME worker \in [Workers -> Works], NEW w \in Workers,
           (\E pc : GoTo(w, pc)) \/ (\E c : Failing(w, c))
    PROVE  worker'[w].attempts = worker[w].attempts
  <1>. DEFINE x == worker[w]
  <1>0. x \in Works
    OBVIOUS
  <1>. HIDE DEF x
  <1>1. ASSUME NEW pc, GoTo(w, pc) PROVE worker'[w].attempts = worker[w].attempts
    <2>1. worker'[w] = [x EXCEPT !.pc = pc]
      BY <1>1 DEF GoTo, x
    <2>2. [x EXCEPT !.pc = pc].attempts = x.attempts
      BY <1>0 DEF Works
    <2>. QED BY <2>1, <2>2 DEF x
  <1>2. ASSUME NEW c, Failing(w, c) PROVE worker'[w].attempts = worker[w].attempts
    <2>1. worker'[w] = [[x EXCEPT !.pc = "failing"] EXCEPT !.code = c]
      BY <1>2 DEF Failing, x
    <2>2. [[x EXCEPT !.pc = "failing"] EXCEPT !.code = c].attempts = x.attempts
      BY <1>0 DEF Works
    <2>. QED BY <2>1, <2>2 DEF x
  <1>. QED BY <1>1, <1>2

\* A worker starts to report the outcome that it gave its run.
LEMMA StepReports ==
    ASSUME RowsOK, WorkersOK, NEW w \in Workers, Step(w)
    PROVE  /\ worker'[w].pc \in Reporting =>
                 worker'[w].run \in Runs /\ status'[worker'[w].run] = Reported(worker'[w].pc)
           /\ task' = task \/ UpdateTask(w)
  <1>. USE WorkerMoves DEF WorkersOK, At
  <1>. DEFINE Goal == /\ worker'[w].pc \in Reporting =>
                            /\ worker'[w].run \in Runs
                            /\ status'[worker'[w].run] = Reported(worker'[w].pc)
                      /\ task' = task \/ UpdateTask(w)
  <1>1. ASSUME Raises(w), task' = task PROVE Goal
    BY <1>1 DEF Raises, PCs, Codes, Reporting
  <1>2. ASSUME NEW from, NEW onward \in PCs \ Reporting, CheckCancel(w, from, onward) PROVE Goal
    BY <1>2 DEF CheckCancel, UnchangedRows, PCs, Reporting
  <1>3. CASE CheckClaimed(w)
    <2>1. StageOf(worker[w].status) \in {"submit", "poll", "normalize"}
      BY <1>3 DEF CheckClaimed, CheckCancel, StageOf, Claimable
    <2>. QED BY <1>2, <1>3, <2>1 DEF CheckClaimed, PCs, Reporting
  <1>4. CASE CheckNormalized(w)
    BY <1>2, <1>4 DEF CheckNormalized, PCs, Reporting
  <1>5. CASE Submit(w) \/ JobMissing(w) \/ Poll(w) \/ Normalize(w)
    BY <1>1, <1>5 DEF Submit, JobMissing, Poll, Normalize, UnchangedRows, PCs, Codes, Reporting
  <1>6. CASE CheckPolled(w) \/ CheckSubmitted(w)
    BY <1>6 DEF CheckPolled, CheckSubmitted, PollAnswers, UnchangedRows, PCs, Codes, Reporting
  <1>7. CASE StoreParse(w) \/ StoreDraft(w)
    BY <1>7 DEF StoreParse, StoreDraft, PCs, Codes, Reporting
  <1>8. CASE StoreJob(w) \/ Reschedule(w) \/ SetNormalizing(w) \/ BackOff(w)
    BY <1>8 DEF StoreJob, Reschedule, SetNormalizing, Finish, BackOff, PCs, Reporting
  <1>9. CASE UpdateTask(w)
    BY <1>9 DEF UpdateTask, Finish, Reporting
  <1>13. CASE Error(w)
    BY <1>13 DEF Error, UnchangedRows, Codes, Reporting
  <1>10. CASE MarkReady(w)
    BY <1>10 DEF MarkReady, Set, Reported, PCs, RowsOK
  <1>11. CASE Fail(w)
    BY <1>11 DEF Fail, Set, Reported, PCs, RowsOK
  <1>12. CASE MarkCancelled(w)
    BY <1>12 DEF MarkCancelled, Set, Reported, PCs, RowsOK
  <1>. QED BY <1>3, <1>4, <1>5, <1>6, <1>7, <1>8, <1>9, <1>10, <1>11, <1>12, <1>13 DEF Step

\* Late errors are not forgotten.
LEMMA LateGrows ==
    ASSUME PipelineInv, [Next]_vars
    PROVE  late \subseteq late'
  <1>. USE DEF PipelineInv
  <1>1. ASSUME NEW w \in Workers, Step(w) PROVE late \subseteq late'
    BY <1>1, StepOnLate DEF FailingLate
  <1>2. ASSUME NEW w \in Workers, (\E r \in Runs : Claim(w, r)) \/ Crash(w)
        PROVE  late' = late
    BY <1>2 DEF Claim, Crash, UnchangedRest
  <1>3. ASSUME NEW r \in Runs, \/ Queue(r) \/ RequestCancel(r) \/ AnswerCancelled(r)
                               \/ LeaseExpires(r) \/ LeaseOverrun(r)
        PROVE  late' = late
    BY <1>3 DEF Queue, RequestCancel, AnswerCancelled, LeaseExpires, LeaseOverrun, UnchangedRest
  <1>4. UNCHANGED vars => late' = late
    BY DEF vars
  <1>. QED BY <1>1, <1>2, <1>3, <1>4 DEF Next, RunOnce

\* What a decided run is, it stays, unless its worker met a late error.
LEMMA DecidedStays ==
    ASSUME ~MayCancel, MaxOverruns = 0, PipelineInv, Exclusive, [Next]_vars,
           NEW r \in Runs \ late, status[r] \in Decided
    PROVE  status'[r] = status[r]
  <1>. USE DEF PipelineInv, Exclusive
  <1>1. ASSUME NEW q \in Runs, Queue(q) PROVE status'[r] = status[r]
    BY <1>1 DEF Queue, Set, RowsOK, Decided
  <1>2. ASSUME NEW w \in Workers, Step(w) PROVE status'[r] = status[r]
    <2>1. CASE Keeps(w)
      BY <2>1 DEF Keeps
    <2>2. ASSUME NEW s, Releases(w, s) PROVE status'[r] = status[r]
      <3>1. worker[w].run # r
        BY <2>2 DEF Releases, Claimable, Decided
      <3>. QED BY <2>2, <3>1 DEF Releases, RowsOK
    <2>3. CASE FailsLate(w)
      BY <2>3 DEF FailsLate, RowsOK
    <2>. QED BY <1>2, <2>1, <2>2, <2>3, StepKeepsOrReleases
  <1>3. ASSUME NEW q \in Runs, AnswerCancelled(q) \/ LeaseExpires(q)
        PROVE  status' = status
    BY <1>3 DEF AnswerCancelled, LeaseExpires, runVars
  <1>4. ASSUME NEW q \in Runs PROVE ~RequestCancel(q) /\ ~LeaseOverrun(q)
    BY DEF RequestCancel, LeaseOverrun, RowsOK
  <1>5. ASSUME NEW w \in Workers, (\E q \in Runs : Claim(w, q)) \/ Crash(w)
        PROVE  status' = status
    BY <1>5 DEF Claim, Crash, UnchangedRows, runVars
  <1>6. UNCHANGED vars => status' = status
    BY DEF vars, runVars
  <1>. QED BY <1>1, <1>2, <1>3, <1>4, <1>5, <1>6 DEF Next, RunOnce

\* The task and the workers about to write it report what a run became.
Reports ==
    /\ \A w \in Workers : worker[w].pc \in Reporting =>
          status[worker[w].run] = Reported(worker[w].pc) \/ worker[w].run \in late
    /\ TaskReportsARealOutcome

LEMMA ReportsNext ==
    ASSUME ~MayCancel, MaxOverruns = 0, PipelineInv, Exclusive, Reports, [Next]_vars,
           answering = {}
    PROVE  Reports' /\ answering' = {}
  <1>. USE DEF PipelineInv
  <1>1. \A w \in Workers : worker[w].pc \in Reporting =>
           /\ worker[w].run \in Runs /\ Reported(worker[w].pc) \in Decided
           /\ status'[worker[w].run] = Reported(worker[w].pc) \/ worker[w].run \in late'
    BY DecidedStays, LateGrows DEF Reports, Reporting, Reported, Decided, WorkersOK
  <1>2. (\E r \in Runs : status[r] = task \/ r \in late) /\ task \in Decided =>
           \E r \in Runs : status'[r] = task \/ r \in late'
    BY DecidedStays, LateGrows
  <1>3. CASE UNCHANGED <<task, worker, answering>>
    BY <1>1, <1>2, <1>3 DEF Reports, TaskReportsARealOutcome
  <1>4. ASSUME NEW r \in Runs, Queue(r) PROVE Reports' /\ answering' = {}
    BY <1>1, <1>4 DEF Queue, Reports, TaskReportsARealOutcome, Decided
  <1>5. ASSUME NEW w \in Workers, Step(w) PROVE Reports' /\ answering' = {}
    <2>1. /\ \A v \in Workers \ {w} : worker'[v] = worker[v]
          /\ answering' = answering
      BY <1>5, StepKeepsOrReleases, StepMovesOne DEF WorkersOK, Exclusive
    <2>2. /\ worker'[w].pc \in Reporting => status'[worker'[w].run] = Reported(worker'[w].pc)
          /\ task' = task \/ UpdateTask(w)
      BY <1>5, StepReports
    <2>3. \A v \in Workers : worker'[v].pc \in Reporting =>
             \/ status'[worker'[v].run] = Reported(worker'[v].pc)
             \/ worker'[v].run \in late'
      BY <1>1, <2>1, <2>2
    <2>4. CASE task' = task
      BY <1>2, <2>1, <2>3, <2>4 DEF Reports, TaskReportsARealOutcome
    <2>5. CASE UpdateTask(w)
      BY <1>1, <2>1, <2>3, <2>5 DEF UpdateTask, Reporting, Reports, TaskReportsARealOutcome
    <2>. QED BY <2>2, <2>4, <2>5
  <1>6. ASSUME NEW w \in Workers, (\E r \in Runs : Claim(w, r)) \/ Crash(w)
        PROVE  Reports' /\ answering' = {}
    <2>1. /\ \A v \in Workers \ {w} : worker'[v] = worker[v]
          /\ worker'[w].pc \in {"rest", "claimed"}
          /\ UNCHANGED <<task, answering>>
      BY <1>6, WorkerMoves DEF Claim, Crash, WorkersOK, UnchangedRows, UnchangedRest
    <2>. QED BY <1>1, <1>2, <2>1 DEF Reports, TaskReportsARealOutcome, Reporting
  <1>7. ASSUME NEW r \in Runs PROVE ~RequestCancel(r) /\ ~LeaseOverrun(r) /\ ~AnswerCancelled(r)
    BY DEF RequestCancel, LeaseOverrun, AnswerCancelled, RowsOK
  <1>8. (\E r \in Runs : LeaseExpires(r)) \/ UNCHANGED vars => UNCHANGED <<task, worker, answering>>
    BY DEF LeaseExpires, UnchangedRest, vars
  <1>. QED BY <1>3, <1>4, <1>5, <1>6, <1>7, <1>8 DEF Next, RunOnce

(* While leases hold and nobody cancels, the task never reports an outcome *)
(* that no run of the file had, although it is written in a transaction of *)
(* its own, after crashes and while another run may be queued.             *)
THEOREM TaskReportsARealOutcomeCorrect ==
    ~MayCancel /\ MaxOverruns = 0 => (Spec => []TaskReportsARealOutcome)
  <1>1. Init => Reports /\ answering = {}
    BY DEF Init, Reports, Reporting, AtRest, TaskReportsARealOutcome, Decided
  <1>2. ASSUME ~MayCancel, MaxOverruns = 0 PROVE Spec => [](Reports /\ answering = {})
    <2>. DEFINE Inv == Reports /\ answering = {}
    <2>1. PipelineInv /\ Exclusive /\ Inv /\ [Next]_vars => Inv'
      BY <1>2, ReportsNext
    <2>2. Init => Inv
      BY <1>1
    <2>. HIDE DEF Inv
    <2>3. Spec => []Inv
      BY <1>2, <2>1, <2>2, PipelineInvariant, ExclusiveInvariant, PTL DEF Spec
    <2>. QED BY <2>3 DEF Inv
  <1>3. ~MayCancel /\ MaxOverruns = 0 => (Spec => [](Reports /\ answering = {}))
    BY <1>2
  <1>4. Reports /\ answering = {} => TaskReportsARealOutcome
    BY DEF Reports
  <1>. QED BY <1>3, <1>4, PTL

\* A worker that is about to release its run knows how often it was tried.
Budget ==
    /\ RetriesAreBounded
    /\ \A w \in Workers : worker[w].pc \notin Released =>
          /\ worker[w].attempts = attempts[worker[w].run]
          /\ worker[w].pc = "backing_off" => worker[w].attempts < 3

LEMMA StepOnAttempts ==
    ASSUME WorkersOK, \A r \in Runs : ~cancel[r], NEW w \in Workers, Step(w)
    PROVE  /\ worker'[w].pc \notin Released => worker'[w].attempts = worker[w].attempts
           /\ worker'[w].pc = "backing_off" => worker[w].attempts < 3
           /\ attempts' = attempts \/ BackOff(w) \/ StoreJob(w)
  <1>. USE WorkerMoves, AttemptsStay, ReleasedNames DEF WorkersOK, At
  <1>. DEFINE Goal == /\ worker'[w].pc \notin Released => worker'[w].attempts = worker[w].attempts
                      /\ worker'[w].pc = "backing_off" => worker[w].attempts < 3
                      /\ attempts' = attempts \/ BackOff(w) \/ StoreJob(w)
  <1>1. ASSUME Raises(w), attempts' = attempts PROVE Goal
    BY <1>1 DEF Raises, MayRetry, PCs, Codes
  <1>2. ASSUME NEW from, NEW onward \in PCs \ {"backing_off"}, CheckCancel(w, from, onward)
        PROVE  Goal
    BY <1>2 DEF CheckCancel, UnchangedRows, runVars, PCs
  <1>3. CASE CheckClaimed(w)
    <2>1. StageOf(worker[w].status) \in {"submit", "poll", "normalize"}
      BY <1>3 DEF CheckClaimed, CheckCancel, StageOf, Claimable
    <2>. QED BY <1>2, <1>3, <2>1 DEF CheckClaimed, PCs
  <1>4. CASE CheckNormalized(w)
    BY <1>2, <1>4 DEF CheckNormalized, PCs
  <1>5. CASE Submit(w) \/ JobMissing(w) \/ Poll(w) \/ Normalize(w)
    BY <1>1, <1>5 DEF Submit, JobMissing, Poll, Normalize, UnchangedRows, runVars, PCs, Codes
  <1>6. CASE CheckPolled(w)
    BY <1>6 DEF CheckPolled, PollAnswers, UnchangedRows, runVars, PCs, Codes
  <1>7. CASE CheckSubmitted(w)
    BY <1>7 DEF CheckSubmitted, UnchangedRows, runVars, PCs
  <1>8. CASE StoreParse(w) \/ StoreDraft(w)
    BY <1>8 DEF StoreParse, StoreDraft, runVars, PCs, Codes
  <1>9. CASE StoreJob(w)
    BY <1>9 DEF StoreJob, PCs
  <1>10. CASE Reschedule(w) \/ SetNormalizing(w) \/ BackOff(w)
    BY <1>10 DEF Reschedule, SetNormalizing, Finish, BackOff
  <1>11. CASE MarkReady(w) \/ Fail(w) \/ MarkCancelled(w)
    BY <1>11 DEF MarkReady, Fail, MarkCancelled, PCs
  <1>12. CASE UpdateTask(w)
    BY <1>12 DEF UpdateTask, Finish, runVars
  <1>13. CASE Error(w)
    BY <1>13 DEF Error, InTry, UnchangedRows, runVars, Codes
  <1>. QED BY <1>3, <1>4, <1>5, <1>6, <1>7, <1>8, <1>9, <1>10, <1>11, <1>12, <1>13 DEF Step

LEMMA BudgetNext ==
    ASSUME ~MayCancel, MaxOverruns = 0, PipelineInv, Exclusive, Budget, [Next]_vars
    PROVE  Budget'
  <1>. USE DEF Budget, RetriesAreBounded
  <1>0. /\ attempts \in [Runs -> Nat] /\ worker \in [Workers -> Works]
        /\ \A w \in Workers : worker[w].pc \notin Released => worker[w].run \in Runs
        /\ \A r \in Runs : ~cancel[r]
    BY DEF PipelineInv, RowsOK, WorkersOK, Exclusive, Released
  <1>1. CASE UNCHANGED <<attempts, worker>>
    BY <1>1
  <1>2. ASSUME NEW w \in Workers, NEW r \in Runs, Claim(w, r) PROVE Budget'
    <2>1. /\ attempts' = attempts
          /\ worker'[w].run = r /\ worker'[w].attempts = attempts[r] /\ worker'[w].pc = "claimed"
          /\ \A v \in Workers \ {w} : worker'[v] = worker[v]
      BY <1>0, <1>2 DEF Claim
    <2>. QED BY <2>1
  <1>3. ASSUME NEW w \in Workers, Crash(w) PROVE Budget'
    <2>1. /\ attempts' = attempts /\ worker'[w].pc = "rest"
          /\ \A v \in Workers \ {w} : worker'[v] = worker[v]
      BY <1>0, <1>3, WorkerMoves DEF Crash, UnchangedRows, runVars
    <2>. QED BY <2>1 DEF Released
  <1>4. ASSUME NEW w \in Workers, Step(w) PROVE Budget'
    <2>0. /\ \A v \in Workers \ {w} : worker'[v] = worker[v]
          /\ worker'[w].pc \notin Released =>
                worker[w].pc \notin Released /\ worker'[w].run = worker[w].run
      BY <1>0, <1>4, StepKeepsOrReleases, StepMovesOne, StepMoves
         DEF PipelineInv, Keeps, Releases, FailsLate, Exclusive
    <2>1. /\ worker'[w].pc \notin Released => worker'[w].attempts = worker[w].attempts
          /\ worker'[w].pc = "backing_off" => worker[w].attempts < 3
          /\ attempts' = attempts \/ BackOff(w) \/ StoreJob(w)
      BY <1>0, <1>4, StepOnAttempts DEF PipelineInv
    <2>2. CASE attempts' = attempts
      BY <2>0, <2>1, <2>2
    <2>3. CASE BackOff(w) \/ StoreJob(w)
      <3>1. /\ worker[w].pc \notin Released /\ worker'[w].pc \in Released
            /\ \/ attempts[worker[w].run] < 3 /\ BackOff(w)
               \/ StoreJob(w)
        BY <1>0, <2>3, WorkerMoves, ReleasedNames DEF BackOff, StoreJob, At, PCs
      <3>2. \A v \in Workers \ {w} : worker[v].pc \notin Released => worker[v].run # worker[w].run
        BY <1>0, <3>1 DEF Exclusive, OneWorkerPerRun, Runs
      <3>3. /\ attempts'[worker[w].run] <= 3
            /\ \A r \in Runs \ {worker[w].run} : attempts'[r] = attempts[r]
        BY <1>0, <3>1 DEF BackOff, StoreJob, Set
      <3>. QED BY <1>0, <2>0, <3>1, <3>2, <3>3
    <2>. QED BY <2>1, <2>2, <2>3
  <1>5. ASSUME NEW r \in Runs, Queue(r) \/ AnswerCancelled(r) \/ LeaseExpires(r)
        PROVE  UNCHANGED <<attempts, worker>>
    BY <1>5 DEF Queue, AnswerCancelled, LeaseExpires, runVars
  <1>6. ASSUME NEW r \in Runs PROVE ~RequestCancel(r) /\ ~LeaseOverrun(r)
    BY DEF RequestCancel, LeaseOverrun, PipelineInv, RowsOK
  <1>7. UNCHANGED vars => UNCHANGED <<attempts, worker>>
    BY DEF vars, runVars
  <1>. QED BY <1>1, <1>2, <1>3, <1>4, <1>5, <1>6, <1>7 DEF Next, RunOnce

(* While leases hold and nobody cancels, a run backs off at most three     *)
(* times in a stage: the counter a worker read when it claimed the run is  *)
(* still that of the row when it backs off (reschedule_after_error).       *)
THEOREM RetriesAreBoundedCorrect ==
    ~MayCancel /\ MaxOverruns = 0 => (Spec => []RetriesAreBounded)
  <1>1. Init => Budget
    BY DEF Init, Budget, RetriesAreBounded, AtRest, Released
  <1>2. ASSUME ~MayCancel, MaxOverruns = 0 PROVE Spec => []Budget
    <2>1. PipelineInv /\ Exclusive /\ Budget /\ [Next]_vars => Budget'
      BY <1>2, BudgetNext
    <2>. QED BY <1>1, <1>2, <2>1, PipelineInvariant, ExclusiveInvariant, PTL DEF Spec
  <1>3. ~MayCancel /\ MaxOverruns = 0 => (Spec => []Budget)
    BY <1>2
  <1>4. Budget => RetriesAreBounded
    BY DEF Budget
  <1>. QED BY <1>3, <1>4, PTL
=============================================================================
