------------------------------ MODULE Feedback ------------------------------
(***************************************************************************)
(* Reviewers' edits collected as feedback and judged by administrators:    *)
(* app/experiments/feedback.py and the feedback rows of                    *)
(* app/infra/postgres_experiment_repository.py.                            *)
(*                                                                         *)
(* A request reads the rows in one transaction and writes them in others;  *)
(* confirm_feedback itself reads its row and writes it without a lock, so  *)
(* that two confirmations may overlap between the two.  A candidate is     *)
(* named by its position in `candidates`.                                  *)
(***************************************************************************)
EXTENDS Naturals, Sequences, FiniteSets

CONSTANTS
    Admins,
    Changes,        \* the field changes [action, path] the reviews may come to hold
    Verdicts,       \* classifications an administrator may give
    MaxCandidates,  \* bound: feedback_candidates rows
    MaxRequests     \* bound: requests of the administrators

ASSUME ModelErrorIsAVerdict == "model_error" \in Verdicts /\ "none" \notin Verdicts

VARIABLES
    reviewed,       \* changes recorded as review actions so far
    candidates,     \* rows [change, supersedes, verdict, gold]
    admin,          \* what a request is at
    requests,
    contested       \* history: rows that two requests had loaded and not yet written

feedbackVars == <<reviewed, candidates, admin, requests, contested>>

Resting == [pc |-> "rest", items |-> {}, target |-> 0, verdict |-> "none", include |-> FALSE]

FeedbackInit ==
    /\ reviewed = {} /\ candidates = <<>> /\ requests = 0 /\ contested = {}
    /\ admin = [a \in Admins |-> Resting]

Candidate(change, supersedes) ==
    [change |-> change, supersedes |-> supersedes, verdict |-> "none", gold |-> FALSE]

\* The id of a collected candidate is derived from its change, that of a replacement is fresh.
Collected == {candidates[j].change : j \in {l \in DOMAIN candidates :
                                               candidates[l].supersedes = 0}}

Requested(a) ==
    /\ admin[a].pc = "rest" /\ requests < MaxRequests
    /\ requests' = requests + 1

Ends(a) == admin' = [admin EXCEPT ![a] = Resting]

Review(change) ==
    /\ change \notin reviewed
    /\ reviewed' = reviewed \cup {change}
    /\ UNCHANGED <<candidates, admin, requests, contested>>

-----------------------------------------------------------------------------
(* collect_for_version: the rows are read, what is missing is inserted in  *)
(* one transaction, which fails as a whole when a row exists by then.      *)
ReadChanges(a) ==
    /\ Requested(a)
    /\ admin' = [admin EXCEPT ![a] = [Resting EXCEPT !.pc = "collecting",
                                                     !.items = reviewed \ Collected]]
    /\ UNCHANGED <<reviewed, candidates, contested>>

Insertable(items)     == items \cap Collected = {}

InsertCollected(a) ==
    /\ admin[a].pc = "collecting"
    /\ Len(candidates) + Cardinality(admin[a].items) <= MaxCandidates
    /\ IF Insertable(admin[a].items)
       THEN \E order \in [1 .. Cardinality(admin[a].items) -> admin[a].items] :
               /\ {order[j] : j \in DOMAIN order} = admin[a].items
               /\ candidates' = candidates \o [j \in DOMAIN order |-> Candidate(order[j], 0)]
       ELSE UNCHANGED candidates
    /\ Ends(a)
    /\ UNCHANGED <<reviewed, requests, contested>>

-----------------------------------------------------------------------------
(* confirm: a candidate that has a verdict keeps it, and the new one goes  *)
(* to a replacement.                                                       *)
Judged(j) == candidates[j].verdict # "none"

ReadCandidate(a, j, verdict, include) ==
    /\ Requested(a)
    /\ admin' = [admin EXCEPT ![a] =
          [Resting EXCEPT !.pc = IF Judged(j) THEN "replacing" ELSE "confirming",
                          !.target = j, !.verdict = verdict, !.include = include]]
    /\ UNCHANGED <<reviewed, candidates, contested>>

CreateReplacement(a) ==
    /\ admin[a].pc = "replacing" /\ Len(candidates) < MaxCandidates
    /\ candidates' = Append(candidates, Candidate(candidates[admin[a].target].change,
                                                  admin[a].target))
    /\ admin' = [admin EXCEPT ![a].pc = "confirming", ![a].target = Len(candidates')]
    /\ UNCHANGED <<reviewed, requests, contested>>

\* MUTANT: confirms what is confirmed already.
Confirmable(j) == TRUE
Unconfirmed(j) == ~Judged(j)

\* Rows are loaded; one that has a verdict by now is a conflict ...
LoadCandidate(a) ==
    /\ admin[a].pc = "confirming"
    /\ IF Unconfirmed(admin[a].target) THEN admin' = [admin EXCEPT ![a].pc = "writing"]
       ELSE Ends(a)
    /\ contested' = contested \cup {admin[b].target : b \in {c \in Admins \ {a} :
                        /\ admin[c].pc = "writing"
                        /\ admin[c].target = admin[a].target}}
    /\ UNCHANGED <<reviewed, candidates, requests>>

\* ... and written.
Eligible(verdict, include) == include /\ verdict = "model_error"

ConfirmCandidate(a) ==
    /\ admin[a].pc = "writing"
    /\ LET request == admin[a]
       IN  candidates' = [candidates EXCEPT ![request.target] =
              [@ EXCEPT !.verdict = request.verdict,
                        !.gold = Eligible(request.verdict, request.include)]]
    /\ Ends(a)
    /\ UNCHANGED <<reviewed, requests, contested>>

\* The process that serves a request dies.
RequestLost(a) ==
    /\ admin[a].pc # "rest"
    /\ Ends(a)
    /\ UNCHANGED <<reviewed, candidates, requests, contested>>

FeedbackStep ==
    \/ \E c \in Changes : Review(c)
    \/ \E a \in Admins :
          \/ ReadChanges(a) \/ InsertCollected(a)
          \/ \E j \in DOMAIN candidates, v \in Verdicts, include \in BOOLEAN :
                ReadCandidate(a, j, v, include)
          \/ CreateReplacement(a) \/ LoadCandidate(a) \/ ConfirmCandidate(a) \/ RequestLost(a)
=============================================================================
