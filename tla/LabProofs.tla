------------------------------ MODULE LabProofs ------------------------------
(***************************************************************************)
(* Theorems about the evaluation laboratory, for every dataset, every      *)
(* number of evaluation processes and of administrators, and every bound.  *)
(***************************************************************************)
EXTENDS QualityLab, NumberLemmas

-----------------------------------------------------------------------------
(* Feedback.                                                               *)

CandidateRows ==
    [change : Changes, supersedes : Nat, verdict : Verdicts \cup {"none"}, gold : BOOLEAN]
RequestRecords ==
    [pc : {"rest", "collecting", "replacing", "confirming", "writing"},
     items : SUBSET Changes, target : Nat, verdict : Verdicts \cup {"none"},
     include : BOOLEAN]

FeedbackTypes ==
    /\ candidates \in Seq(CandidateRows)
    /\ admin \in [Admins -> RequestRecords]
    /\ reviewed \subseteq Changes /\ IsFiniteSet(reviewed)
    /\ \A a \in Admins : IsFiniteSet(admin[a].items)

RowsInOrder ==
    /\ CollectedOnce(candidates)
    /\ \A j \in DOMAIN candidates :
          /\ candidates[j].gold => candidates[j].verdict = "model_error"
          /\ candidates[j].supersedes # 0 =>
                candidates[j].supersedes \in DOMAIN candidates /\ Judged(candidates[j].supersedes)

\* Who is about to write what; two about to write one row, or one a row that has a verdict by
\* now, have been noticed when the later of them loaded it.
RequestsInOrder ==
    /\ \A a \in Admins : admin[a].pc \in {"replacing", "confirming", "writing"} =>
          admin[a].target \in DOMAIN candidates /\ admin[a].verdict \in Verdicts
    /\ \A a \in Admins : admin[a].pc = "replacing" => Judged(admin[a].target)
    /\ \A a, b \in Admins : a # b /\ admin[a].pc = "writing" /\ admin[b].pc = "writing"
                                  /\ admin[a].target = admin[b].target
          => admin[a].target \in contested
    /\ \A a \in Admins : admin[a].pc = "writing" /\ Judged(admin[a].target)
          => admin[a].target \in contested

FeedbackInv == FeedbackTypes /\ RowsInOrder /\ RequestsInOrder

\* An enumeration of a finite set by as many places as it has members names each once.
LEMMA EnumerationsAreInjective ==
    ASSUME NEW S, IsFiniteSet(S), NEW order \in [1 .. Cardinality(S) -> S],
           {order[j] : j \in DOMAIN order} = S
    PROVE  \A j, l \in DOMAIN order : order[j] = order[l] => j = l
<1>1. Cardinality(S) \in Nat
  BY FS_CardinalityType
<1>2. IsFiniteSet(1 .. Cardinality(S)) /\ Cardinality(1 .. Cardinality(S)) = Cardinality(S)
  BY <1>1, FS_Interval
<1>3. order \in Surjection(1 .. Cardinality(S), S)
  BY DEF Surjection
<1>4. order \in Injection(1 .. Cardinality(S), S)
  BY <1>2, <1>3, FS_SurjSameCardinalityImpliesInj
<1> QED BY <1>4 DEF Injection, IsInjective

LEMMA FeedbackInitOk == FeedbackInit => FeedbackInv
<1> SUFFICES ASSUME FeedbackInit PROVE FeedbackInv
  OBVIOUS
<1>1. FeedbackTypes
  <2>1. candidates \in Seq(CandidateRows) /\ reviewed \subseteq Changes /\ IsFiniteSet(reviewed)
    BY FS_EmptySet DEF FeedbackInit
  <2>2. Resting \in RequestRecords /\ IsFiniteSet(Resting.items)
    BY FS_EmptySet DEF Resting, RequestRecords
  <2>3. admin = [a \in Admins |-> Resting]
    BY DEF FeedbackInit
  <2> QED BY <2>1, <2>2, <2>3 DEF FeedbackTypes
<1>2. RowsInOrder
  BY DEF FeedbackInit, RowsInOrder, CollectedOnce
<1>3. RequestsInOrder
  BY DEF FeedbackInit, RequestsInOrder, Resting
<1> QED BY <1>1, <1>2, <1>3 DEF FeedbackInv

\* Steps that leave the rows alone.
LEMMA ReviewOk ==
    ASSUME FeedbackInv, NEW c \in Changes, Review(c) PROVE FeedbackInv'
<1>1. FeedbackTypes'
  BY FS_AddElement DEF FeedbackInv, FeedbackTypes, Review
<1>2. RowsInOrder' /\ RequestsInOrder'
  BY DEF FeedbackInv, RowsInOrder, RequestsInOrder, CollectedOnce, Judged, Review
<1> QED BY <1>1, <1>2 DEF FeedbackInv

LEMMA RequestEndsOk ==
    ASSUME FeedbackInv, NEW a \in Admins, Ends(a), UNCHANGED <<candidates, reviewed, contested>>
    PROVE  FeedbackInv'
<1>0. \A b \in Admins : admin'[b] = IF b = a THEN Resting ELSE admin[b]
  BY DEF FeedbackInv, FeedbackTypes, Ends
<1>1. Resting \in RequestRecords /\ IsFiniteSet(Resting.items) /\ Resting.pc = "rest"
  BY FS_EmptySet DEF Resting, RequestRecords
<1>2. FeedbackTypes'
  <2>1. admin' \in [Admins -> RequestRecords]
    BY <1>1 DEF FeedbackInv, FeedbackTypes, Ends
  <2> QED BY <2>1, <1>0, <1>1 DEF FeedbackInv, FeedbackTypes
<1>3. RowsInOrder'
  BY DEF FeedbackInv, RowsInOrder, CollectedOnce, Judged
<1>4. RequestsInOrder'
  BY <1>0, <1>1 DEF FeedbackInv, RequestsInOrder, Judged
<1> QED BY <1>2, <1>3, <1>4 DEF FeedbackInv

LEMMA ReadChangesOk ==
    ASSUME FeedbackInv, NEW a \in Admins, ReadChanges(a) PROVE FeedbackInv'
<1> DEFINE request == [Resting EXCEPT !.pc = "collecting", !.items = reviewed \ Collected]
<1>1. /\ request \in RequestRecords /\ request.pc = "collecting"
      /\ IsFiniteSet(request.items)
  BY FS_Difference DEF Resting, RequestRecords, FeedbackInv, FeedbackTypes
<1>2. admin' = [admin EXCEPT ![a] = request] /\ UNCHANGED <<reviewed, candidates, contested>>
  BY DEF ReadChanges
<1> HIDE DEF request
<1>3. \A b \in Admins : admin'[b] = IF b = a THEN request ELSE admin[b]
  BY <1>2 DEF FeedbackInv, FeedbackTypes
<1>4. FeedbackTypes'
  BY <1>1, <1>2, <1>3 DEF FeedbackInv, FeedbackTypes
<1>5. RowsInOrder'
  BY <1>2 DEF FeedbackInv, RowsInOrder, CollectedOnce, Judged
<1>6. RequestsInOrder'
  BY <1>1, <1>2, <1>3 DEF FeedbackInv, RequestsInOrder, Judged
<1> QED BY <1>4, <1>5, <1>6 DEF FeedbackInv

LEMMA ReadCandidateOk ==
    ASSUME FeedbackInv, NEW a \in Admins, NEW j \in DOMAIN candidates, NEW v \in Verdicts,
           NEW include \in BOOLEAN, ReadCandidate(a, j, v, include)
    PROVE  FeedbackInv'
<1> DEFINE request ==
      [Resting EXCEPT !.pc = IF Judged(j) THEN "replacing" ELSE "confirming",
                      !.target = j, !.verdict = v, !.include = include]
<1>0. j \in Nat
  BY DEF FeedbackInv, FeedbackTypes
<1>1. /\ request \in RequestRecords /\ request.pc = IF Judged(j) THEN "replacing" ELSE "confirming"
      /\ request.target = j /\ request.verdict = v /\ IsFiniteSet(request.items)
  BY <1>0, FS_EmptySet DEF Resting, RequestRecords, FeedbackInv, FeedbackTypes
<1>2. admin' = [admin EXCEPT ![a] = request] /\ UNCHANGED <<reviewed, candidates, contested>>
  BY DEF ReadCandidate
<1> HIDE DEF request
<1>3. \A b \in Admins : admin'[b] = IF b = a THEN request ELSE admin[b]
  BY <1>2 DEF FeedbackInv, FeedbackTypes
<1>4. FeedbackTypes'
  BY <1>1, <1>2, <1>3 DEF FeedbackInv, FeedbackTypes
<1>5. RowsInOrder'
  BY <1>2 DEF FeedbackInv, RowsInOrder, CollectedOnce, Judged
<1>6. RequestsInOrder'
  BY <1>1, <1>2, <1>3 DEF FeedbackInv, RequestsInOrder, Judged
<1> QED BY <1>4, <1>5, <1>6 DEF FeedbackInv

LEMMA LoadCandidateOk ==
    ASSUME FeedbackInv, NEW a \in Admins, LoadCandidate(a) PROVE FeedbackInv'
<1>1. contested \subseteq contested' /\ UNCHANGED <<reviewed, candidates>>
  BY DEF LoadCandidate
<1>2. CASE Judged(admin[a].target)
  <2>1. Ends(a)
    BY <1>2 DEF LoadCandidate, Unconfirmed
  <2>2. \A b \in Admins : admin'[b] = IF b = a THEN Resting ELSE admin[b]
    BY <2>1 DEF FeedbackInv, FeedbackTypes, Ends
  <2>3. Resting \in RequestRecords /\ IsFiniteSet(Resting.items) /\ Resting.pc = "rest"
    BY FS_EmptySet DEF Resting, RequestRecords
  <2>4. FeedbackTypes'
    BY <1>1, <2>1, <2>2, <2>3 DEF FeedbackInv, FeedbackTypes, Ends
  <2>5. RowsInOrder'
    BY <1>1 DEF FeedbackInv, RowsInOrder, CollectedOnce, Judged
  <2>6. RequestsInOrder'
    BY <1>1, <2>2, <2>3 DEF FeedbackInv, RequestsInOrder, Judged
  <2> QED BY <2>4, <2>5, <2>6 DEF FeedbackInv
<1>3. CASE ~Judged(admin[a].target)
  <2>1. admin[a].pc = "confirming" /\ admin' = [admin EXCEPT ![a].pc = "writing"]
    BY <1>3 DEF LoadCandidate, Unconfirmed
  <2>2. /\ \A b \in Admins \ {a} : admin'[b] = admin[b]
        /\ admin'[a] = [admin[a] EXCEPT !.pc = "writing"] /\ admin[a] \in RequestRecords
    BY <2>1 DEF FeedbackInv, FeedbackTypes
  <2>3. /\ admin'[a].pc = "writing" /\ admin'[a].target = admin[a].target
        /\ admin'[a].verdict = admin[a].verdict /\ admin'[a].items = admin[a].items
        /\ admin'[a] \in RequestRecords
    BY <2>2 DEF RequestRecords
  <2>4. FeedbackTypes'
    BY <1>1, <2>1, <2>2, <2>3 DEF FeedbackInv, FeedbackTypes
  <2>5. RowsInOrder'
    BY <1>1 DEF FeedbackInv, RowsInOrder, CollectedOnce, Judged
  <2>6. \A b \in Admins \ {a} : admin[b].pc = "writing" /\ admin[b].target = admin[a].target
           => admin[a].target \in contested'
    BY DEF LoadCandidate
  <2>7. RequestsInOrder'
    BY <1>1, <1>3, <2>1, <2>2, <2>3, <2>6 DEF FeedbackInv, RequestsInOrder, Judged
  <2> QED BY <2>4, <2>5, <2>7 DEF FeedbackInv
<1> QED BY <1>2, <1>3

-----------------------------------------------------------------------------
(* Steps that add rows: whoever has a row in hand still has it.            *)

LEMMA RowsAreAppended ==
    ASSUME NEW s, s \in Seq(CandidateRows), NEW more, more \in Seq(CandidateRows)
    PROVE  /\ s \o more \in Seq(CandidateRows)
           /\ DOMAIN s \subseteq DOMAIN (s \o more)
           /\ \A j \in DOMAIN s : (s \o more)[j] = s[j]
           /\ \A j \in DOMAIN (s \o more) \ DOMAIN s :
                 /\ j - Len(s) \in DOMAIN more
                 /\ (s \o more)[j] = more[j - Len(s)]
OBVIOUS

LEMMA InsertCollectedOk ==
    ASSUME FeedbackInv, NEW a \in Admins, InsertCollected(a) PROVE FeedbackInv'
<1>1. CASE ~Insertable(admin[a].items)
  BY <1>1, RequestEndsOk DEF InsertCollected
<1>2. CASE Insertable(admin[a].items)
  <2> DEFINE items == admin[a].items
  <2>1. PICK order \in [1 .. Cardinality(items) -> items] :
           /\ {order[j] : j \in DOMAIN order} = items
           /\ candidates' = candidates \o [j \in DOMAIN order |-> Candidate(order[j], 0)]
    BY <1>2 DEF InsertCollected
  <2> DEFINE more == [j \in DOMAIN order |-> Candidate(order[j], 0)]
  <2>2. IsFiniteSet(items) /\ items \subseteq Changes /\ Cardinality(items) \in Nat
    BY FS_CardinalityType DEF FeedbackInv, FeedbackTypes, RequestRecords
  <2>3. \A j, l \in DOMAIN order : order[j] = order[l] => j = l
    BY <2>1, <2>2, EnumerationsAreInjective
  <2>4. more \in Seq(CandidateRows) /\ DOMAIN more = DOMAIN order
    <3>1. \A j \in DOMAIN order : Candidate(order[j], 0) \in CandidateRows
      BY <2>2 DEF Candidate, CandidateRows
    <3> QED BY <2>2, <3>1
  <2>5. \A j \in DOMAIN more : /\ more[j].change = order[j] /\ more[j].supersedes = 0
                               /\ more[j].verdict = "none" /\ ~more[j].gold
    BY DEF Candidate
  <2>6. candidates' = candidates \o more
    BY <2>1
  <2> HIDE DEF more
  <2>7. /\ candidates' \in Seq(CandidateRows) /\ DOMAIN candidates \subseteq DOMAIN candidates'
        /\ \A j \in DOMAIN candidates : candidates'[j] = candidates[j]
        /\ \A j \in DOMAIN candidates' \ DOMAIN candidates :
              j - Len(candidates) \in DOMAIN more /\ candidates'[j] = more[j - Len(candidates)]
    <3>1. candidates \in Seq(CandidateRows)
      BY DEF FeedbackInv, FeedbackTypes
    <3>2. more \in Seq(CandidateRows)
      BY <2>4
    <3> QED BY <2>6, <3>1, <3>2, RowsAreAppended
  <2>8. DOMAIN candidates \subseteq Nat /\ DOMAIN candidates' \subseteq Nat /\ Len(candidates) \in Nat
    BY <2>7 DEF FeedbackInv, FeedbackTypes
  <2>9. CollectedOnce(candidates')
    <3> SUFFICES ASSUME NEW j \in DOMAIN candidates', NEW l \in DOMAIN candidates',
                        candidates'[j].supersedes = 0, candidates'[l].supersedes = 0,
                        candidates'[j].change = candidates'[l].change
                 PROVE  j = l
      BY DEF CollectedOnce
    <3>1. \A m \in DOMAIN candidates' \ DOMAIN candidates :
             candidates'[m].change = order[m - Len(candidates)] /\ candidates'[m].change \in items
      BY <2>4, <2>5, <2>7
    <3>2. \A m \in DOMAIN candidates : candidates'[m].supersedes = 0 =>
             candidates'[m].change \notin items
      BY <1>2, <2>7 DEF Insertable, Collected
    <3>3. CASE j \in DOMAIN candidates /\ l \in DOMAIN candidates
      BY <3>3, <2>7 DEF FeedbackInv, RowsInOrder, CollectedOnce
    <3>4. CASE j \notin DOMAIN candidates /\ l \notin DOMAIN candidates
      <4>1. order[j - Len(candidates)] = order[l - Len(candidates)]
        BY <3>1, <3>4
      <4>2. j - Len(candidates) \in DOMAIN order /\ l - Len(candidates) \in DOMAIN order
        BY <2>4, <2>7, <3>4
      <4>3. j - Len(candidates) = l - Len(candidates)
        BY <2>3, <4>1, <4>2
      <4> QED BY <2>8, <4>3
    <3> QED BY <3>1, <3>2, <3>3, <3>4
  <2>10. RowsInOrder'
    BY <2>5, <2>7, <2>9 DEF FeedbackInv, RowsInOrder, Judged
  <2>11. \A b \in Admins : admin'[b] = IF b = a THEN Resting ELSE admin[b]
    BY DEF InsertCollected, FeedbackInv, FeedbackTypes, Ends
  <2>12. Resting \in RequestRecords /\ IsFiniteSet(Resting.items) /\ Resting.pc = "rest"
    BY FS_EmptySet DEF Resting, RequestRecords
  <2>13. admin' \in [Admins -> RequestRecords] /\ UNCHANGED <<reviewed, contested>>
    BY <2>12 DEF InsertCollected, FeedbackInv, FeedbackTypes, Ends
  <2>14. FeedbackTypes'
    BY <2>7, <2>11, <2>12, <2>13 DEF FeedbackInv, FeedbackTypes
  <2>15. RequestsInOrder'
    <3>1. admin'[a].pc = "rest" /\ \A b \in Admins \ {a} : admin'[b] = admin[b]
      BY <2>11, <2>12
    <3>2. \A j \in DOMAIN candidates : j \in DOMAIN candidates' /\ (Judged(j)' <=> Judged(j))
      BY <2>7 DEF Judged
    <3> QED BY <2>13, <3>1, <3>2 DEF FeedbackInv, RequestsInOrder
  <2> QED BY <2>10, <2>14, <2>15 DEF FeedbackInv
<1> QED BY <1>1, <1>2

LEMMA CreateReplacementOk ==
    ASSUME FeedbackInv, NEW a \in Admins, CreateReplacement(a) PROVE FeedbackInv'
<1> DEFINE t   == admin[a].target
           row == Candidate(candidates[t].change, t)
<1>1. /\ t \in DOMAIN candidates /\ Judged(t) /\ admin[a].verdict \in Verdicts
      /\ admin[a] \in RequestRecords
  BY DEF CreateReplacement, FeedbackInv, FeedbackTypes, RequestsInOrder
<1>2. row \in CandidateRows /\ row.supersedes = t /\ row.verdict = "none" /\ ~row.gold
  <2>1. t \in Nat /\ candidates[t] \in CandidateRows
    BY <1>1 DEF FeedbackInv, FeedbackTypes
  <2>2. candidates[t].change \in Changes
    BY <2>1 DEF CandidateRows
  <2> QED BY <2>1, <2>2 DEF Candidate, CandidateRows
<1>3. candidates' = Append(candidates, row) /\ UNCHANGED <<reviewed, contested>>
  BY DEF CreateReplacement
<1> HIDE DEF row
<1>4. /\ candidates' \in Seq(CandidateRows) /\ Len(candidates') = Len(candidates) + 1
      /\ DOMAIN candidates' = DOMAIN candidates \cup {Len(candidates')}
      /\ Len(candidates') \in Nat \ {0} /\ candidates'[Len(candidates')] = row
      /\ \A j \in DOMAIN candidates : candidates'[j] = candidates[j]
      /\ DOMAIN candidates \subseteq Nat \ {0}
  BY <1>2, <1>3 DEF FeedbackInv, FeedbackTypes
<1>5. RowsInOrder'
  BY <1>1, <1>2, <1>4 DEF FeedbackInv, RowsInOrder, CollectedOnce, Judged
<1>6. admin' = [admin EXCEPT ![a] = [admin[a] EXCEPT !.pc = "confirming",
                                                     !.target = Len(candidates')]]
  BY <1>1 DEF CreateReplacement, FeedbackInv, FeedbackTypes
<1>7. /\ \A b \in Admins \ {a} : admin'[b] = admin[b]
      /\ admin'[a].pc = "confirming" /\ admin'[a].target = Len(candidates')
      /\ admin'[a].verdict = admin[a].verdict /\ admin'[a].items = admin[a].items
      /\ admin'[a] \in RequestRecords
  BY <1>1, <1>4, <1>6 DEF FeedbackInv, FeedbackTypes, RequestRecords
<1>8. FeedbackTypes'
  BY <1>3, <1>4, <1>6, <1>7 DEF FeedbackInv, FeedbackTypes
<1>9. RequestsInOrder'
  BY <1>1, <1>3, <1>4, <1>7 DEF FeedbackInv, RequestsInOrder, Judged
<1> QED BY <1>5, <1>8, <1>9 DEF FeedbackInv

-----------------------------------------------------------------------------
(* The write of a verdict.                                                 *)

LEMMA ConfirmCandidateOk ==
    ASSUME FeedbackInv, NEW a \in Admins, ConfirmCandidate(a)
    PROVE  /\ FeedbackInv'
           /\ \A j \in DOMAIN candidates : candidates'[j] # candidates[j] => j = admin[a].target
<1> DEFINE t == admin[a].target
           v == admin[a].verdict
           row == [candidates[t] EXCEPT !.verdict = v, !.gold = Eligible(v, admin[a].include)]
<1>1. t \in DOMAIN candidates /\ v \in Verdicts /\ admin[a] \in RequestRecords
  BY DEF ConfirmCandidate, FeedbackInv, FeedbackTypes, RequestsInOrder
<1>2. candidates' = [candidates EXCEPT ![t] = row]
  BY DEF ConfirmCandidate
<1>3. candidates[t] \in CandidateRows
  BY <1>1 DEF FeedbackInv, FeedbackTypes
<1>4. /\ row \in CandidateRows /\ row.change = candidates[t].change
      /\ row.supersedes = candidates[t].supersedes /\ row.verdict = v
      /\ row.gold => v = "model_error"
  BY <1>1, <1>3 DEF CandidateRows, RequestRecords, Eligible
<1> HIDE DEF row
<1>5. /\ candidates' \in Seq(CandidateRows) /\ DOMAIN candidates' = DOMAIN candidates
      /\ candidates'[t] = row /\ \A j \in DOMAIN candidates \ {t} : candidates'[j] = candidates[j]
  BY <1>1, <1>2, <1>4 DEF FeedbackInv, FeedbackTypes
<1>6. \A j \in DOMAIN candidates : /\ candidates'[j].change = candidates[j].change
                                   /\ candidates'[j].supersedes = candidates[j].supersedes
                                   /\ Judged(j) => Judged(j)'
  BY <1>1, <1>4, <1>5, ModelErrorIsAVerdict DEF Judged
<1>7. CollectedOnce(candidates')
  BY <1>5, <1>6 DEF FeedbackInv, RowsInOrder, CollectedOnce
<1>8. RowsInOrder'
  BY <1>4, <1>5, <1>6, <1>7 DEF FeedbackInv, RowsInOrder
<1>9. \A b \in Admins : admin'[b] = IF b = a THEN Resting ELSE admin[b]
  BY DEF ConfirmCandidate, FeedbackInv, FeedbackTypes, Ends
<1>10. Resting \in RequestRecords /\ IsFiniteSet(Resting.items) /\ Resting.pc = "rest"
  BY FS_EmptySet DEF Resting, RequestRecords
<1>11. admin' \in [Admins -> RequestRecords] /\ UNCHANGED <<reviewed, contested>>
  BY <1>10 DEF ConfirmCandidate, FeedbackInv, FeedbackTypes, Ends
<1>12. FeedbackTypes'
  BY <1>5, <1>9, <1>10, <1>11 DEF FeedbackInv, FeedbackTypes
<1>13. \A b \in Admins \ {a} : admin[b].pc = "writing" /\ Judged(admin[b].target)'
           => admin[b].target \in contested
  <2> SUFFICES ASSUME NEW b \in Admins \ {a}, admin[b].pc = "writing", Judged(admin[b].target)'
               PROVE  admin[b].target \in contested
    BY <1>9
  <2>1. CASE admin[b].target = t
    BY <2>1 DEF ConfirmCandidate, FeedbackInv, RequestsInOrder
  <2>2. CASE admin[b].target # t
    BY <2>2, <1>5, <1>9 DEF FeedbackInv, RequestsInOrder, Judged
  <2> QED BY <2>1, <2>2
<1>14. RequestsInOrder'
  BY <1>5, <1>6, <1>9, <1>10, <1>11, <1>13 DEF FeedbackInv, RequestsInOrder
<1> QED BY <1>5, <1>8, <1>12, <1>14 DEF FeedbackInv

LEMMA FeedbackStepOk == ASSUME FeedbackInv, [Next]_<<labVars, feedbackVars>> PROVE FeedbackInv'
<1>1. CASE UNCHANGED feedbackVars
  BY <1>1 DEF FeedbackInv, FeedbackTypes, RowsInOrder, RequestsInOrder, CollectedOnce, Judged,
              feedbackVars
<1>2. ASSUME NEW c \in Changes, Review(c) PROVE FeedbackInv'
  BY <1>2, ReviewOk
<1>3. ASSUME NEW a \in Admins,
             \/ ReadChanges(a) \/ InsertCollected(a)
             \/ \E j \in DOMAIN candidates, v \in Verdicts, include \in BOOLEAN :
                   ReadCandidate(a, j, v, include)
             \/ CreateReplacement(a) \/ LoadCandidate(a) \/ ConfirmCandidate(a) \/ RequestLost(a)
      PROVE  FeedbackInv'
  <2>1. RequestLost(a) => FeedbackInv'
    BY RequestEndsOk DEF RequestLost
  <2> QED BY <1>3, <2>1, ReadChangesOk, InsertCollectedOk, ReadCandidateOk, CreateReplacementOk,
             LoadCandidateOk, ConfirmCandidateOk
<1> QED BY <1>1, <1>2, <1>3 DEF Next, FeedbackStep, labVars, feedbackVars

\* Only the write of a verdict changes a row.
LEMMA VerdictsStandStep ==
    ASSUME FeedbackInv, FeedbackInv', [Next]_<<labVars, feedbackVars>>, NEW j \in DOMAIN candidates,
           candidates'[j] # candidates[j], Judged(j)
    PROVE  j \in contested
<1>1. CASE UNCHANGED candidates
  BY <1>1
<1>2. ASSUME NEW a \in Admins, InsertCollected(a) PROVE j \in contested
  <2>1. PICK order \in [1 .. Cardinality(admin[a].items) -> admin[a].items] :
           candidates' = candidates \o [i \in DOMAIN order |-> Candidate(order[i], 0)]
    BY <1>2 DEF InsertCollected
  <2>2. Cardinality(admin[a].items) \in Nat
    BY FS_CardinalityType DEF FeedbackInv, FeedbackTypes
  <2> DEFINE more == [i \in 1 .. Cardinality(admin[a].items) |-> Candidate(order[i], 0)]
  <2>3. more \in Seq({more[i] : i \in DOMAIN more}) /\ candidates' = candidates \o more
    BY <2>1, <2>2
  <2> HIDE DEF more
  <2>4. candidates'[j] = candidates[j]
    BY <2>3 DEF FeedbackInv, FeedbackTypes
  <2> QED BY <2>4
<1>3. ASSUME NEW a \in Admins, CreateReplacement(a) PROVE j \in contested
  BY <1>3 DEF CreateReplacement, FeedbackInv, FeedbackTypes
<1>4. ASSUME NEW a \in Admins, ConfirmCandidate(a) PROVE j \in contested
  <2>1. j = admin[a].target
    BY <1>4, ConfirmCandidateOk
  <2> QED BY <1>4, <2>1 DEF ConfirmCandidate, FeedbackInv, RequestsInOrder
<1> QED
  BY <1>1, <1>2, <1>3, <1>4 DEF Next, FeedbackStep, feedbackVars, Review, ReadChanges,
     ReadCandidate, LoadCandidate, RequestLost

(* A verdict is overwritten only when two requests had loaded the row      *)
(* before either wrote it, changes are collected once, replacements follow *)
(* a verdict and only confirmed errors of the model get into the gold data *)
(* (confirm_feedback, collect_for_version).                                *)
THEOREM VerdictsCorrect == Spec => VerdictsStand
<1> DEFINE Stand ==
      /\ \A j \in DOMAIN candidates :
            candidates'[j] # candidates[j] /\ Judged(j) => j \in contested
      /\ CollectedOnce(candidates')
      /\ \A j \in DOMAIN candidates' :
            LET row == candidates'[j]
            IN  /\ row.gold => row.verdict = "model_error"
                /\ row.supersedes # 0 => candidates'[row.supersedes].verdict # "none"
<1>1. Init => FeedbackInv
  BY FeedbackInitOk DEF Init
<1>2. FeedbackInv /\ [Next]_<<labVars, feedbackVars>> => FeedbackInv'
  BY FeedbackStepOk
<1>3. FeedbackInv /\ FeedbackInv' /\ [Next]_<<labVars, feedbackVars>> => [Stand]_feedbackVars
  <2>1. FeedbackInv' => /\ CollectedOnce(candidates')
                        /\ \A j \in DOMAIN candidates' :
                              LET row == candidates'[j]
                              IN  /\ row.gold => row.verdict = "model_error"
                                  /\ row.supersedes # 0 =>
                                        candidates'[row.supersedes].verdict # "none"
    BY DEF FeedbackInv, RowsInOrder, Judged
  <2> QED BY <2>1, VerdictsStandStep
<1> QED BY <1>1, <1>2, <1>3, PTL DEF Spec, VerdictsStand

-----------------------------------------------------------------------------
(* Experiments.                                                            *)

Outputs == UNION {UNION {Predictions[v][d] : d \in Docs} : v \in Variants}
Findings ==
    [doc : Docs, kind : {Kind[d] : d \in Docs}, valid : BOOLEAN,
     cost : {{}} \cup {o.cost : o \in Outputs}, job : Nat,
     counts : {CompareDocuments(o.document, Gold[d], o.evidence) : o \in Outputs, d \in Docs}
                \cup {CompareDocuments(NoPrediction, Gold[d], {}) : d \in Docs}]
RunRows ==
    [variant : Variants, identity : Nat, limit : Limits,
     status : {"queued", "running", "completed", "failed", "cancelled"},
     evaluations : Seq(Findings)]
JobRecords == [doc : Docs, state : {"running", "succeeded", "failed"}]
FileRecords == [job : Nat, whole : BOOLEAN]

HoldsAJob    == {"submitted", "marking", "polling"}
HoldsAResult == {"putting", "metadata_opened", "metadata_written", "archive_opened",
                 "archive_written", "parsed"}
Working      == {"missed"} \cup HoldsAJob \cup HoldsAResult
Evaluating   == {"running", "next"} \cup Working
ProcessRecords ==
    [pc : {"rest", "created", "failing", "cancelling", "returning"} \cup Evaluating,
     run : Nat, done : Seq(Findings), job : Nat]

LabTypes ==
    /\ runs \in Seq(RunRows)
    /\ jobs \in Seq(JobRecords)
    /\ metadata \in [Docs -> FileRecords]
    /\ archive \in [Docs -> FileRecords]
    /\ pending \in [Docs -> FileRecords]
    /\ manifest \in Nat
    /\ runner \in [Runners -> ProcessRecords]

IsJobOf(j, d)   == j \in DOMAIN jobs /\ jobs[j].doc = d
Succeeded(j, d) == j \in DOMAIN jobs /\ jobs[j] = [doc |-> d, state |-> "succeeded"]

FilesNameJobs ==
    \A d \in Docs : /\ metadata[d].job # 0 => Succeeded(metadata[d].job, d)
                    /\ pending[d].job # 0 => IsJobOf(pending[d].job, d)

\* Findings about the first documents of the manifest.
Tells(list, most) ==
    /\ Len(list) <= most
    /\ \A j \in DOMAIN list : /\ list[j].doc = Dataset[j]
                              /\ list[j].valid => Succeeded(list[j].job, list[j].doc)

\* What a process at work has in hand.
OnItsRun(x) ==
    /\ x.run \in DOMAIN runs
    /\ x.pc = "created" => runs[x.run].status = "queued"
    /\ x.pc \in Evaluating => runs[x.run].status = "running"
    /\ x.pc = "returning" => runs[x.run].status = "completed"
    /\ Tells(x.done, Reported(runs[x.run]))
    /\ x.pc \in Working => Len(x.done) < Reported(runs[x.run])
    /\ x.pc \in HoldsAJob => IsJobOf(x.job, Dataset[Len(x.done) + 1])
    /\ x.pc \in HoldsAResult => Succeeded(x.job, Dataset[Len(x.done) + 1])

Processes ==
    /\ \A p \in Runners : IF runner[p].pc = "rest" THEN runner[p].run = 0 ELSE OnItsRun(runner[p])
    /\ \A p, q \in Runners : p # q /\ runner[p].run = runner[q].run => runner[p].run = 0

StoryTold(r) ==
    IF runs[r].status = "completed"
    THEN Len(runs[r].evaluations) = Reported(runs[r])
         /\ Tells(runs[r].evaluations, Reported(runs[r]))
    ELSE runs[r].status \in {"queued", "running"} =>
            r \in abandoned \/ \E p \in Runners : runner[p].run = r

LabInv == LabTypes /\ FilesNameJobs /\ Processes /\ \A r \in DOMAIN runs : StoryTold(r)

\* Jobs are added and decided, nothing else happens to them.
JobsKept ==
    /\ DOMAIN jobs \subseteq DOMAIN jobs'
    /\ \A j \in DOMAIN jobs : /\ jobs'[j].doc = jobs[j].doc
                              /\ jobs[j].state = "succeeded" => jobs'[j] = jobs[j]

LEMMA KeptJobs ==
    ASSUME LabTypes, JobsKept
    PROVE  /\ \A j, d : IsJobOf(j, d) => IsJobOf(j, d)'
           /\ \A j, d : Succeeded(j, d) => Succeeded(j, d)'
           /\ \A list, most : Tells(list, most) => Tells(list, most)'
<1>1. \A j, d : IsJobOf(j, d) => IsJobOf(j, d)'
  BY DEF JobsKept, IsJobOf
<1>2. \A j, d : Succeeded(j, d) => Succeeded(j, d)'
  BY DEF JobsKept, Succeeded
<1> QED BY <1>1, <1>2 DEF Tells

LEMMA ReportedBound ==
    ASSUME NEW row \in RunRows PROVE Reported(row) \in Nat /\ Reported(row) <= Len(Dataset)
<1>1. row.limit \in Limits
  BY DEF RunRows
<1>2. Len(Dataset) \in Nat
  BY DatasetIsListedOnce
<1>3. row.limit \in 0 .. Len(Dataset)
  BY <1>1, RunsAreLimited
<1> QED BY <1>2, <1>3 DEF Reported

\* The document a process is at.
LEMMA DocumentInHand ==
    ASSUME LabInv, NEW p \in Runners, runner[p].pc \in Working \/ (At(p, "next") /\ ~Whole(p))
    PROVE  /\ DocOf(p) \in Docs /\ SourceKey(DocOf(p)) = DocOf(p)
           /\ Len(runner[p].done) \in Nat
           /\ Len(runner[p].done) < Reported(RunOf(p))
           /\ RunOf(p) \in RunRows /\ runner[p] \in ProcessRecords
<1>1. OnItsRun(runner[p]) /\ runner[p] \in ProcessRecords
  BY DEF LabInv, LabTypes, Processes, At, Working, HoldsAJob, HoldsAResult
<1>2. RunOf(p) \in RunRows
  BY <1>1 DEF LabInv, LabTypes, OnItsRun, RunOf
<1>3. Len(runner[p].done) \in Nat
  BY <1>1 DEF ProcessRecords
<1>4. Reported(RunOf(p)) \in Nat /\ Reported(RunOf(p)) <= Len(Dataset)
  BY <1>2, ReportedBound
<1>5. Len(runner[p].done) < Reported(RunOf(p))
  BY <1>1, <1>3, <1>4 DEF OnItsRun, Tells, Whole, Reported, RunOf
<1>6. DocOf(p) \in Docs
  BY <1>3, <1>4, <1>5, DatasetIsListedOnce DEF DocOf, Docs
<1> QED BY <1>1, <1>2, <1>3, <1>5, <1>6 DEF SourceKey

LEMMA LabInitOk == LabInit => LabInv
<1> SUFFICES ASSUME LabInit PROVE LabInv
  OBVIOUS
<1>1. LabTypes
  <2>1. AtRest \in ProcessRecords /\ NoFile \in FileRecords
    BY DEF AtRest, ProcessRecords, NoFile, FileRecords
  <2> QED BY <2>1 DEF LabInit, LabTypes
<1>2. FilesNameJobs
  BY DEF LabInit, FilesNameJobs, NoFile
<1>3. Processes
  BY DEF LabInit, Processes, AtRest
<1>4. \A r \in DOMAIN runs : StoryTold(r)
  BY DEF LabInit
<1> QED BY <1>1, <1>2, <1>3, <1>4 DEF LabInv

\* A step of one process: what has to be shown is about it, its run and the files.
LEMMA ProcessSteps ==
    ASSUME LabInv, NEW p \in Runners, runner' = [runner EXCEPT ![p] = runner'[p]],
           LabTypes', JobsKept, FilesNameJobs', abandoned \subseteq abandoned',
           DOMAIN runs \subseteq DOMAIN runs',
           \A r \in DOMAIN runs \ {runner[p].run} : runs'[r] = runs[r],
           IF runner'[p].pc = "rest" THEN runner'[p].run = 0
           ELSE /\ OnItsRun(runner[p])'
                /\ runner'[p].run = runner[p].run \/ runner'[p].run \notin DOMAIN runs,
           \A r \in DOMAIN runs' : r = runner[p].run \/ r \notin DOMAIN runs => StoryTold(r)'
    PROVE  LabInv'
<1>1. \A q \in Runners \ {p} : runner'[q] = runner[q]
  BY DEF LabInv, LabTypes
<1>2. \A q \in Runners \ {p} :
         /\ runner[q].pc # "rest" => OnItsRun(runner[q])' /\ runner[q].run # runner[p].run
         /\ runner[q].run = 0 \/ runner[q].run \in DOMAIN runs
  <2> SUFFICES ASSUME NEW q \in Runners \ {p}
               PROVE  /\ runner[q].pc # "rest" =>
                            OnItsRun(runner[q])' /\ runner[q].run # runner[p].run
                      /\ runner[q].run = 0 \/ runner[q].run \in DOMAIN runs
    OBVIOUS
  <2>1. CASE runner[q].pc = "rest"
    BY <2>1 DEF LabInv, Processes
  <2>2. CASE runner[q].pc # "rest"
    <3>1. OnItsRun(runner[q])
      BY <2>2 DEF LabInv, Processes
    <3>2. runner[q].run \in DOMAIN runs /\ runner[q].run # 0
      BY <3>1 DEF OnItsRun, LabInv, LabTypes
    <3>3. runner[q].run # runner[p].run
      BY <3>2 DEF LabInv, Processes
    <3>4. runs'[runner[q].run] = runs[runner[q].run] /\ runner[q].run \in DOMAIN runs'
      BY <3>2, <3>3
    <3>5. /\ \A j, d : IsJobOf(j, d) => IsJobOf(j, d)'
          /\ \A j, d : Succeeded(j, d) => Succeeded(j, d)'
          /\ \A list, most : Tells(list, most) => Tells(list, most)'
      BY KeptJobs DEF LabInv
    <3>6. OnItsRun(runner[q])'
      BY <3>1, <3>4, <3>5, <1>1 DEF OnItsRun, Reported
    <3> QED BY <1>1, <3>2, <3>3, <3>6
  <2> QED BY <2>1, <2>2
<1>3. Processes'
  BY <1>1, <1>2 DEF LabInv, Processes
<1>4. ASSUME NEW r \in DOMAIN runs', r # runner[p].run, r \in DOMAIN runs PROVE StoryTold(r)'
  <2>1. StoryTold(r) /\ runs'[r] = runs[r]
    BY <1>4 DEF LabInv
  <2>2. \A list, most : Tells(list, most) => Tells(list, most)'
    BY KeptJobs DEF LabInv
  <2>3. \A q \in Runners : runner[q].run = r => runner'[q].run = r
    BY <1>1, <1>4
  <2> QED BY <2>1, <2>2, <2>3 DEF StoryTold, Reported
<1>5. \A r \in DOMAIN runs' : StoryTold(r)'
  BY <1>4
<1> QED BY <1>3, <1>5 DEF LabInv

LEMMA ProcessMoves ==
    ASSUME LabInv, NEW p \in Runners, runner[p].pc # "rest",
           runner' = [runner EXCEPT ![p] = runner'[p]], runner'[p] \in ProcessRecords,
           runner'[p].pc # "rest", runner'[p].run = runner[p].run,
           UNCHANGED <<runs, manifest, abandoned>>,
           jobs' \in Seq(JobRecords), JobsKept,
           metadata' \in [Docs -> FileRecords], archive' \in [Docs -> FileRecords],
           pending' \in [Docs -> FileRecords], FilesNameJobs',
           OnItsRun(runner[p])'
    PROVE  LabInv'
<1>1. LabTypes'
  BY DEF LabInv, LabTypes
<1>2. runner[p].run \in DOMAIN runs
  BY DEF LabInv, Processes, OnItsRun
<1>3. StoryTold(runner[p].run)'
  <2>1. CASE runs[runner[p].run].status = "completed"
    <3>1. StoryTold(runner[p].run)
      BY <1>2 DEF LabInv
    <3>2. \A list, most : Tells(list, most) => Tells(list, most)'
      BY KeptJobs DEF LabInv
    <3> QED BY <2>1, <3>1, <3>2 DEF StoryTold, Reported
  <2>2. CASE runs[runner[p].run].status # "completed"
    BY <2>2 DEF StoryTold
  <2> QED BY <2>1, <2>2
<1> QED BY <1>1, <1>3, ProcessSteps

\* Nothing but the place of the process changes.
LEMMA GoesTo ==
    ASSUME LabTypes, NEW p \in Runners,
           NEW pc \in {"created", "failing", "cancelling", "returning"} \cup Evaluating, Goes(p, pc)
    PROVE  /\ runner' = [runner EXCEPT ![p] = runner'[p]] /\ runner'[p] \in ProcessRecords
           /\ runner'[p].pc = pc /\ runner'[p].run = runner[p].run
           /\ runner'[p].done = runner[p].done /\ runner'[p].job = runner[p].job
<1>1. runner[p] \in ProcessRecords /\ runner' = [runner EXCEPT ![p] = [runner[p] EXCEPT !.pc = pc]]
  BY DEF LabTypes, Goes
<1>2. runner'[p] = [runner[p] EXCEPT !.pc = pc]
  BY <1>1 DEF LabTypes
<1> QED BY <1>1, <1>2 DEF ProcessRecords

LEMMA AtWork ==
    ASSUME LabInv, NEW p \in Runners, runner[p].pc # "rest"
    PROVE  /\ OnItsRun(runner[p]) /\ runner[p] \in ProcessRecords
           /\ runner[p].run \in DOMAIN runs /\ runner[p].run \in Nat \ {0}
           /\ RunOf(p) = runs[runner[p].run] /\ RunOf(p) \in RunRows
BY DEF LabInv, LabTypes, Processes, OnItsRun, RunOf

LEMMA NothingHappensToTheJobs == ASSUME UNCHANGED jobs PROVE JobsKept
BY DEF JobsKept

LEMMA FilesStay ==
    ASSUME LabInv, UNCHANGED <<jobs, files>>
    PROVE  /\ FilesNameJobs' /\ JobsKept
           /\ jobs' \in Seq(JobRecords) /\ metadata' \in [Docs -> FileRecords]
           /\ archive' \in [Docs -> FileRecords] /\ pending' \in [Docs -> FileRecords]
           /\ \A j, d : Succeeded(j, d) => Succeeded(j, d)'
           /\ \A list, most : Tells(list, most) => Tells(list, most)'
BY DEF LabInv, LabTypes, FilesNameJobs, JobsKept, Succeeded, IsJobOf, Tells, files

LEMMA CheckIdentityOk ==
    ASSUME LabInv, NEW p \in Runners, CheckIdentity(p) PROVE LabInv'
<1>1. /\ runner[p].pc = "running"
      /\ Goes(p, "next") \/ Goes(p, "failing")
      /\ UNCHANGED <<runs, jobs, files, manifest, abandoned>>
  BY DEF CheckIdentity, At
<1>2. PICK pc \in {"next", "failing"} : Goes(p, pc)
  BY <1>1
<1>3. /\ pc \in Evaluating \cup {"failing"} /\ pc \notin Working
      /\ pc # "rest" /\ pc # "created" /\ pc # "returning"
  BY DEF Evaluating, Working, HoldsAJob, HoldsAResult
<1>4. /\ runner' = [runner EXCEPT ![p] = runner'[p]] /\ runner'[p] \in ProcessRecords
      /\ runner'[p].pc = pc /\ runner'[p].run = runner[p].run
      /\ runner'[p].done = runner[p].done /\ runner'[p].job = runner[p].job
  BY <1>2, <1>3, GoesTo DEF LabInv
<1>5. OnItsRun(runner[p])
  BY <1>1, AtWork
<1>6. OnItsRun(runner[p])'
  BY <1>1, <1>3, <1>4, <1>5
     DEF OnItsRun, Tells, Succeeded, Evaluating, Working, HoldsAJob, HoldsAResult
<1> QED BY <1>1, <1>3, <1>4, <1>6, FilesStay, ProcessMoves

\* The evaluation is broken off.
LEMMA BreaksOff ==
    ASSUME LabInv, NEW p \in Runners, runner[p].pc # "rest",
           NEW pc \in {"failing", "cancelling"}, Goes(p, pc),
           UNCHANGED <<runs, jobs, files, manifest, abandoned>>
    PROVE  LabInv'
<1>2. /\ runner' = [runner EXCEPT ![p] = runner'[p]] /\ runner'[p] \in ProcessRecords
      /\ runner'[p].pc = pc /\ runner'[p].run = runner[p].run
      /\ runner'[p].done = runner[p].done /\ runner'[p].job = runner[p].job
  BY GoesTo DEF LabInv
<1>3. OnItsRun(runner[p])
  BY AtWork
<1>4. OnItsRun(runner[p])'
  <2>1. runner'[p].pc \notin {"created", "returning"} \cup Evaluating \cup Working
                                \cup HoldsAJob \cup HoldsAResult
    BY <1>2 DEF Evaluating, Working, HoldsAJob, HoldsAResult
  <2>2. Tells(runner[p].done, Reported(runs[runner[p].run]))'
    BY <1>2, <1>3 DEF OnItsRun, Tells, Succeeded, Reported
  <2> QED BY <1>2, <1>3, <2>1, <2>2 DEF OnItsRun
<1> QED BY <1>2, <1>4, FilesStay, ProcessMoves

LEMMA InterruptOk ==
    ASSUME LabInv, NEW p \in Runners, Interrupt(p) \/ EvaluationFails(p) PROVE LabInv'
<1>1. /\ runner[p].pc # "rest"
      /\ Goes(p, "cancelling") \/ Goes(p, "failing")
      /\ UNCHANGED <<runs, jobs, files, manifest, abandoned>>
  BY DEF Interrupt, EvaluationFails
<1>2. PICK pc \in {"failing", "cancelling"} : Goes(p, pc)
  BY <1>1
<1> QED BY <1>1, <1>2, BreaksOff

-----------------------------------------------------------------------------
(* The steps inside the evaluation of one document.                        *)

\* A step to another place in the evaluation of the same document.
LEMMA SameDocument ==
    ASSUME LabInv, NEW p \in Runners, runner[p].pc \in Working \/ (At(p, "next") /\ ~Whole(p)),
           runner' = [runner EXCEPT ![p] = runner'[p]], runner'[p] \in ProcessRecords,
           runner'[p].pc \in Working \cup {"failing"},
           runner'[p].run = runner[p].run, runner'[p].done = runner[p].done,
           runner'[p].pc \in HoldsAJob => IsJobOf(runner[p].job, DocOf(p))',
           runner'[p].pc \in HoldsAResult => Succeeded(runner[p].job, DocOf(p))',
           UNCHANGED <<runs, manifest, abandoned>>,
           jobs' \in Seq(JobRecords), JobsKept,
           metadata' \in [Docs -> FileRecords], archive' \in [Docs -> FileRecords],
           pending' \in [Docs -> FileRecords], FilesNameJobs'
    PROVE  LabInv'
<1>1. /\ Len(runner[p].done) < Reported(RunOf(p)) /\ runner[p].pc # "rest"
      /\ runner[p].pc \in Evaluating
  BY DocumentInHand DEF At, Working, HoldsAJob, HoldsAResult, Evaluating
<1>2. OnItsRun(runner[p]) /\ RunOf(p) = runs[runner[p].run]
  BY <1>1, AtWork
<1>3. Tells(runner[p].done, Reported(RunOf(p)))'
  BY <1>2, KeptJobs DEF OnItsRun, LabInv, RunOf
<1>4. /\ runner'[p].pc \notin {"rest", "created", "returning"}
      /\ "failing" \notin Working
  BY DEF Evaluating, Working, HoldsAJob, HoldsAResult
<1>5. OnItsRun(runner[p])'
  <2>1. runner'[p].run \in DOMAIN runs' /\ runs'[runner'[p].run].status = "running"
    BY <1>1, <1>2 DEF OnItsRun
  <2>2. Tells(runner[p].done, Reported(runs[runner[p].run]))'
    BY <1>2, <1>3 DEF RunOf
  <2>3. (Len(runner[p].done) < Reported(runs[runner[p].run]))'
    BY <1>1, <1>2 DEF Reported
  <2> QED BY <1>4, <2>1, <2>2, <2>3 DEF OnItsRun, DocOf
<1> QED BY <1>1, <1>4, <1>5, ProcessMoves

LEMMA LookupOk == ASSUME LabInv, NEW p \in Runners, Lookup(p) PROVE LabInv'
<1>1. /\ At(p, "next") /\ ~Whole(p) /\ runner[p].pc # "rest"
      /\ UNCHANGED <<runs, jobs, files, manifest, abandoned>>
  BY DEF Lookup, At
<1>2. DocOf(p) \in Docs /\ SourceKey(DocOf(p)) = DocOf(p) /\ runner[p] \in ProcessRecords
  BY <1>1, DocumentInHand
<1>4. CASE Goes(p, "missed") \/ Goes(p, "failing")
  <2>1. PICK pc \in {"missed", "failing"} : Goes(p, pc)
    BY <1>4
  <2>2. pc \in Evaluating \cup {"failing"} /\ pc \notin HoldsAJob /\ pc \notin HoldsAResult
        /\ pc \in Working \cup {"failing"}
    BY DEF Evaluating, Working, HoldsAJob, HoldsAResult
  <2>3. /\ runner' = [runner EXCEPT ![p] = runner'[p]] /\ runner'[p] \in ProcessRecords
        /\ runner'[p].pc = pc /\ runner'[p].run = runner[p].run
        /\ runner'[p].done = runner[p].done
    BY <2>1, <2>2, GoesTo DEF LabInv
  <2> QED BY <1>1, <2>2, <2>3, FilesStay, SameDocument
<1>5. CASE /\ metadata[DocOf(p)].job # 0
           /\ runner' = [runner EXCEPT ![p].pc = "parsed", ![p].job = metadata[DocOf(p)].job]
  <2>1. metadata[DocOf(p)].job \in Nat
    BY <1>2 DEF LabInv, LabTypes, FileRecords
  <2>2. runner'[p] = [runner[p] EXCEPT !.pc = "parsed", !.job = metadata[DocOf(p)].job]
        /\ runner' = [runner EXCEPT ![p] = runner'[p]]
    BY <1>5 DEF LabInv, LabTypes
  <2>3. "parsed" \in Working /\ "parsed" \in HoldsAResult /\ "parsed" \notin HoldsAJob
    BY DEF Working, HoldsAJob, HoldsAResult
  <2>4. /\ runner'[p] \in ProcessRecords /\ runner'[p].pc = "parsed"
        /\ runner'[p].run = runner[p].run /\ runner'[p].done = runner[p].done
        /\ runner'[p].job = metadata[DocOf(p)].job
    BY <1>2, <2>1, <2>2, <2>3 DEF ProcessRecords, Evaluating
  <2>5. Succeeded(runner[p].job, DocOf(p))'
    <3>1. DocOf(p)' = DocOf(p)
      BY <2>4 DEF DocOf
    <3>2. Succeeded(metadata[DocOf(p)].job, DocOf(p))
      BY <1>2, <1>5 DEF LabInv, FilesNameJobs
    <3> QED BY <1>1, <2>4, <3>1, <3>2 DEF Succeeded
  <2> QED BY <1>1, <2>2, <2>3, <2>4, <2>5, FilesStay, SameDocument
<1> QED BY <1>1, <1>2, <1>4, <1>5 DEF Lookup

\* The evaluation of a document ends with a finding about it.
LEMMA EvaluatedOk ==
    ASSUME LabInv, NEW p \in Runners, runner[p].pc \in Working, NEW e \in Findings,
           e.doc = DocOf(p), e.valid => Succeeded(e.job, DocOf(p)), Evaluated(p, e),
           jobs' \in Seq(JobRecords), JobsKept,
           UNCHANGED <<runs, files, manifest, abandoned>>
    PROVE  LabInv'
<1>1. /\ Len(runner[p].done) < Reported(RunOf(p)) /\ Len(runner[p].done) \in Nat
      /\ RunOf(p) \in RunRows /\ runner[p] \in ProcessRecords
  BY DocumentInHand
<1>2. runner[p].pc # "rest" /\ runner[p].pc \in Evaluating
  BY DEF Evaluating, Working, HoldsAJob, HoldsAResult
<1>3. OnItsRun(runner[p]) /\ RunOf(p) = runs[runner[p].run]
  BY <1>2, AtWork
<1>4. /\ runner' = [runner EXCEPT ![p] = runner'[p]]
      /\ runner'[p] = [runner[p] EXCEPT !.pc = "next", !.job = 0, !.done = Append(runner[p].done, e)]
  BY DEF Evaluated, LabInv, LabTypes
<1>5. Append(runner[p].done, e) \in Seq(Findings)
  BY <1>1 DEF ProcessRecords
<1>6. /\ runner'[p] \in ProcessRecords /\ runner'[p].pc = "next"
      /\ runner'[p].run = runner[p].run /\ runner'[p].done = Append(runner[p].done, e)
  <2>1. runner[p].run \in Nat /\ "next" \in Evaluating
    BY <1>1 DEF ProcessRecords, Evaluating
  <2>2. runner'[p] = [pc |-> "next", run |-> runner[p].run, done |-> Append(runner[p].done, e),
                      job |-> 0]
    BY <1>1, <1>4 DEF ProcessRecords
  <2> QED BY <1>5, <2>1, <2>2 DEF ProcessRecords
<1>7. Tells(Append(runner[p].done, e), Reported(RunOf(p)))
  <2>1. Tells(runner[p].done, Reported(RunOf(p))) /\ runner[p].done \in Seq(Findings)
    BY <1>1, <1>3 DEF OnItsRun, ProcessRecords
  <2>2. e.doc = Dataset[Len(runner[p].done) + 1]
    BY DEF DocOf
  <2>3. Reported(RunOf(p)) \in Nat
    BY <1>1, ReportedBound
  <2>4. e.valid => Succeeded(e.job, e.doc)
    OBVIOUS
  <2>5. \A j \in DOMAIN Append(runner[p].done, e) :
           \/ j \in DOMAIN runner[p].done /\ Append(runner[p].done, e)[j] = runner[p].done[j]
           \/ j = Len(runner[p].done) + 1 /\ Append(runner[p].done, e)[j] = e
    BY <2>1
  <2>6. Len(Append(runner[p].done, e)) <= Reported(RunOf(p))
    BY <1>1, <2>1, <2>3
  <2> QED BY <2>1, <2>2, <2>4, <2>5, <2>6 DEF Tells
<1>8. "next" \notin Working /\ "next" \notin HoldsAJob /\ "next" \notin HoldsAResult
      /\ "next" \in Evaluating
  BY DEF Working, HoldsAJob, HoldsAResult, Evaluating
<1>9. OnItsRun(runner[p])'
  <2>1. runner'[p].run \in DOMAIN runs' /\ runs'[runner'[p].run].status = "running"
    BY <1>2, <1>3, <1>6 DEF OnItsRun
  <2>2. Tells(runner[p].done, Reported(runs[runner[p].run]))'
    <3>1. \A list, most : Tells(list, most) => Tells(list, most)'
      BY KeptJobs DEF LabInv
    <3>2. /\ runner'[p].done = Append(runner[p].done, e)
          /\ Reported(runs'[runner'[p].run]) = Reported(RunOf(p))
      BY <1>3, <1>6
    <3> QED BY <1>7, <3>1, <3>2 DEF Reported
  <2> QED BY <1>6, <1>8, <2>1, <2>2 DEF OnItsRun
<1>10. FilesNameJobs'
  BY KeptJobs DEF LabInv, FilesNameJobs, files
<1> QED
  BY <1>2, <1>4, <1>6, <1>9, <1>10, ProcessMoves DEF LabInv, LabTypes, files

LEMMA FailureOk ==
    ASSUME LabInv, NEW p \in Runners, runner[p].pc \in Working, Failure(p),
           jobs' \in Seq(JobRecords), JobsKept,
           UNCHANGED <<runs, files, manifest, abandoned>>
    PROVE  LabInv'
<1> DEFINE e == Evaluation(DocOf(p), FALSE, NoPrediction, {}, {}, 0)
<1>1. DocOf(p) \in Docs
  BY DocumentInHand
<1>2. e \in Findings /\ e.doc = DocOf(p) /\ ~e.valid
  BY <1>1 DEF Evaluation, Findings
<1> QED BY <1>2, EvaluatedOk DEF Failure

\* A failure of a document whose job is left as it is.
LEMMA FailureAlone ==
    ASSUME LabInv, NEW p \in Runners, runner[p].pc \in Working, Failure(p),
           UNCHANGED <<runs, jobs, files, manifest, abandoned>>
    PROVE  LabInv'
BY FilesStay, FailureOk

LEMMA NormalizeOk == ASSUME LabInv, NEW p \in Runners, Normalize(p) PROVE LabInv'
<1>1. /\ runner[p].pc \in Working /\ runner[p].pc = "parsed"
      /\ UNCHANGED <<runs, jobs, files, manifest, abandoned>>
  BY DEF Normalize, At, Working, HoldsAResult
<1>2. CASE Failure(p)
  BY <1>1, <1>2, FailureAlone
<1>3. ASSUME NEW o \in Predictions[RunOf(p).variant][DocOf(p)],
             Evaluated(p, Evaluation(DocOf(p), TRUE, o.document, o.evidence, o.cost,
                                     runner[p].job))
      PROVE  LabInv'
  <2> DEFINE e == Evaluation(DocOf(p), TRUE, o.document, o.evidence, o.cost, runner[p].job)
  <2>1. DocOf(p) \in Docs /\ RunOf(p) \in RunRows /\ runner[p] \in ProcessRecords
    BY <1>1, DocumentInHand
  <2>2. o \in Outputs /\ runner[p].job \in Nat
    BY <2>1 DEF Outputs, RunRows, ProcessRecords
  <2>3. e \in Findings /\ e.doc = DocOf(p) /\ e.job = runner[p].job
    BY <2>1, <2>2 DEF Evaluation, Findings
  <2>4. Succeeded(runner[p].job, DocOf(p))
    <3>1. OnItsRun(runner[p])
      BY <1>1, AtWork
    <3> QED BY <1>1, <3>1 DEF OnItsRun, HoldsAResult, DocOf
  <2> HIDE DEF e
  <2> QED BY <1>1, <1>3, <2>3, <2>4, FilesStay, EvaluatedOk DEF e
<1> QED BY <1>2, <1>3 DEF Normalize

LEMMA ResumeOrSubmitOk == ASSUME LabInv, NEW p \in Runners, ResumeOrSubmit(p) PROVE LabInv'
<1>1. /\ runner[p].pc \in Working /\ runner[p].pc # "rest"
      /\ UNCHANGED <<runs, files, manifest, abandoned>>
  BY DEF ResumeOrSubmit, At, Working
<1>2. DocOf(p) \in Docs /\ MarkOf(DocOf(p)) = pending[DocOf(p)] /\ runner[p] \in ProcessRecords
  BY <1>1, DocumentInHand DEF MarkOf
<1>3. CASE /\ MarkOf(DocOf(p)).job # 0
           /\ runner' = [runner EXCEPT ![p].pc = "polling", ![p].job = MarkOf(DocOf(p)).job]
           /\ UNCHANGED jobs
  <2>1. pending[DocOf(p)].job \in Nat /\ IsJobOf(pending[DocOf(p)].job, DocOf(p))
    BY <1>2, <1>3 DEF LabInv, LabTypes, FilesNameJobs, FileRecords
  <2>2. /\ runner'[p] = [runner[p] EXCEPT !.pc = "polling", !.job = pending[DocOf(p)].job]
        /\ runner' = [runner EXCEPT ![p] = runner'[p]]
    BY <1>2, <1>3 DEF LabInv, LabTypes
  <2>3. "polling" \in Working /\ "polling" \notin HoldsAResult
    BY DEF Working, HoldsAJob, HoldsAResult
  <2>4. /\ runner'[p] \in ProcessRecords /\ runner'[p].pc = "polling"
        /\ runner'[p].run = runner[p].run /\ runner'[p].done = runner[p].done
        /\ runner'[p].job = pending[DocOf(p)].job
    BY <1>2, <2>1, <2>2, <2>3 DEF ProcessRecords, Evaluating
  <2>5. IsJobOf(runner[p].job, DocOf(p))'
    BY <1>3, <2>1, <2>4 DEF IsJobOf, DocOf
  <2>6. FilesNameJobs'
    BY <1>1, <1>3 DEF LabInv, FilesNameJobs, Succeeded, IsJobOf, files
  <2> QED BY <1>1, <1>3, <2>2, <2>3, <2>4, <2>5, <2>6, NothingHappensToTheJobs, SameDocument
          DEF LabInv, LabTypes, files
<1>4. CASE Failure(p) /\ UNCHANGED jobs
  BY <1>1, <1>4, FailureAlone
<1>5. ASSUME jobs' = Append(jobs, [doc |-> DocOf(p), state |-> "running"])
      PROVE  /\ jobs' \in Seq(JobRecords) /\ Len(jobs') \in Nat /\ Len(jobs') \in DOMAIN jobs'
             /\ jobs'[Len(jobs')].doc = DocOf(p) /\ JobsKept
  <2>1. [doc |-> DocOf(p), state |-> "running"] \in JobRecords
    BY <1>2 DEF JobRecords
  <2>2. /\ jobs' \in Seq(JobRecords) /\ Len(jobs') \in Nat /\ Len(jobs') \in DOMAIN jobs'
        /\ jobs'[Len(jobs')].doc = DocOf(p)
        /\ DOMAIN jobs \subseteq DOMAIN jobs' /\ \A j \in DOMAIN jobs : jobs'[j] = jobs[j]
    BY <1>5, <2>1 DEF LabInv, LabTypes
  <2> QED BY <2>2 DEF JobsKept
<1>6. CASE /\ jobs' = Append(jobs, [doc |-> DocOf(p), state |-> "running"])
           /\ Failure(p)
  BY <1>1, <1>5, <1>6, FailureOk
<1>7. CASE /\ jobs' = Append(jobs, [doc |-> DocOf(p), state |-> "running"])
           /\ runner' = [runner EXCEPT ![p].pc = "submitted", ![p].job = Len(jobs')]
  <2>2. /\ jobs' \in Seq(JobRecords) /\ Len(jobs') \in Nat /\ Len(jobs') \in DOMAIN jobs'
        /\ jobs'[Len(jobs')].doc = DocOf(p) /\ JobsKept
    BY <1>5, <1>7
  <2>4. /\ runner'[p] = [runner[p] EXCEPT !.pc = "submitted", !.job = Len(jobs')]
        /\ runner' = [runner EXCEPT ![p] = runner'[p]]
    BY <1>7 DEF LabInv, LabTypes
  <2>5. "submitted" \in Working /\ "submitted" \notin HoldsAResult
    BY DEF Working, HoldsAJob, HoldsAResult
  <2>6. /\ runner'[p] \in ProcessRecords /\ runner'[p].pc = "submitted"
        /\ runner'[p].run = runner[p].run /\ runner'[p].done = runner[p].done
        /\ runner'[p].job = Len(jobs')
    BY <1>2, <2>2, <2>4, <2>5 DEF ProcessRecords, Evaluating
  <2>7. IsJobOf(runner[p].job, DocOf(p))'
    BY <2>2, <2>6 DEF IsJobOf, DocOf
  <2>8. FilesNameJobs'
    BY <1>1, <2>2, KeptJobs DEF LabInv, FilesNameJobs, files
  <2> QED BY <1>1, <2>2, <2>4, <2>5, <2>6, <2>7, <2>8, SameDocument
          DEF LabInv, LabTypes, files
<1> QED BY <1>1, <1>3, <1>4, <1>6, <1>7 DEF ResumeOrSubmit

LEMMA PollOk == ASSUME LabInv, NEW p \in Runners, Poll(p) PROVE LabInv'
<1>1. /\ runner[p].pc \in Working /\ runner[p].pc = "polling"
      /\ UNCHANGED <<runs, jobs, files, manifest, abandoned>>
  BY DEF Poll, At, Working, HoldsAJob
<1>2. CASE Failure(p)
  BY <1>1, <1>2, FailureAlone
<1>3. CASE jobs[runner[p].job].state = "succeeded" /\ Goes(p, "putting")
  <2>1. "putting" \in Working /\ "putting" \notin HoldsAJob /\ "putting" \in Evaluating
    BY DEF Working, HoldsAJob, HoldsAResult, Evaluating
  <2>2. /\ runner' = [runner EXCEPT ![p] = runner'[p]] /\ runner'[p] \in ProcessRecords
        /\ runner'[p].pc = "putting" /\ runner'[p].run = runner[p].run
        /\ runner'[p].done = runner[p].done /\ runner'[p].job = runner[p].job
    BY <1>3, <2>1, GoesTo DEF LabInv
  <2>3. IsJobOf(runner[p].job, DocOf(p))
    <3>1. OnItsRun(runner[p])
      BY <1>1, AtWork
    <3> QED BY <1>1, <3>1 DEF OnItsRun, HoldsAJob, DocOf
  <2>4. Succeeded(runner[p].job, DocOf(p))
    <3>1. jobs[runner[p].job] \in JobRecords
      BY <2>3 DEF IsJobOf, LabInv, LabTypes
    <3>2. jobs[runner[p].job] = [doc |-> DocOf(p), state |-> "succeeded"]
      BY <1>3, <2>3, <3>1 DEF IsJobOf, JobRecords
    <3> QED BY <2>3, <3>2 DEF IsJobOf, Succeeded
  <2>5. Succeeded(runner[p].job, DocOf(p))'
    BY <1>1, <2>2, <2>4 DEF Succeeded, DocOf
  <2>6. FilesNameJobs'
    BY <1>1 DEF LabInv, FilesNameJobs, Succeeded, IsJobOf, files
  <2> QED BY <1>1, <2>1, <2>2, <2>5, <2>6, NothingHappensToTheJobs, SameDocument
          DEF LabInv, LabTypes, files
<1> QED BY <1>2, <1>3 DEF Poll

\* From one write to the next, with the job in hand.
LEMMA WriteMoves ==
    ASSUME LabInv, NEW p \in Runners, NEW pc \in HoldsAJob \cup HoldsAResult,
           runner[p].pc \in HoldsAJob \cup HoldsAResult,
           pc \in HoldsAJob <=> runner[p].pc \in HoldsAJob, Goes(p, pc),
           UNCHANGED <<runs, jobs, manifest, abandoned>>,
           metadata' \in [Docs -> FileRecords], archive' \in [Docs -> FileRecords],
           pending' \in [Docs -> FileRecords], FilesNameJobs'
    PROVE  LabInv'
<1>1. /\ runner[p].pc \in Working /\ pc \in Working /\ pc \in Evaluating /\ runner[p].pc # "rest"
      /\ \A x : x \in HoldsAJob => x \notin HoldsAResult
  BY DEF Working, HoldsAJob, HoldsAResult, Evaluating
<1>2. /\ runner' = [runner EXCEPT ![p] = runner'[p]] /\ runner'[p] \in ProcessRecords
      /\ runner'[p].pc = pc /\ runner'[p].run = runner[p].run
      /\ runner'[p].done = runner[p].done /\ runner'[p].job = runner[p].job
  BY <1>1, GoesTo DEF LabInv
<1>3. OnItsRun(runner[p])
  BY <1>1, AtWork
<1>4. /\ runner'[p].pc \in HoldsAJob => IsJobOf(runner[p].job, DocOf(p))'
      /\ runner'[p].pc \in HoldsAResult => Succeeded(runner[p].job, DocOf(p))'
  BY <1>1, <1>2, <1>3 DEF OnItsRun, IsJobOf, Succeeded, DocOf
<1> QED BY <1>1, <1>2, <1>4, NothingHappensToTheJobs, SameDocument DEF LabInv, LabTypes

LEMMA MarkWritten ==
    ASSUME LabInv, NEW p \in Runners, Writes(p, "submitted", "marking", "polling", pending),
           UNCHANGED <<runs, jobs, metadata, archive, manifest, abandoned>>
    PROVE  LabInv'
<1> DEFINE d == DocOf(p)
           j == runner[p].job
<1>1. /\ runner[p].pc \in {"submitted", "marking"}
      /\ Goes(p, IF runner[p].pc = "submitted" THEN "marking" ELSE "polling")
      /\ pending' = [pending EXCEPT ![SourceKey(d)] =
                        IF runner[p].pc = "submitted" THEN Opened(j) ELSE Written(j)]
      /\ UNCHANGED <<runs, jobs, metadata, archive, manifest, abandoned>>
  BY DEF Writes, At
<1>2. d \in Docs /\ SourceKey(d) = d /\ j \in Nat
  BY <1>1, DocumentInHand DEF Working, HoldsAJob, ProcessRecords
<1>3. IsJobOf(j, d)
  <2>1. OnItsRun(runner[p])
    BY <1>1, AtWork
  <2> QED BY <1>1, <2>1 DEF OnItsRun, HoldsAJob, DocOf
<1>4. /\ pending' \in [Docs -> FileRecords] /\ pending'[d].job = j
      /\ \A e \in Docs \ {d} : pending'[e] = pending[e]
  BY <1>1, <1>2 DEF LabInv, LabTypes, FileRecords, Opened, Written
<1>5. FilesNameJobs'
  BY <1>1, <1>3, <1>4 DEF LabInv, FilesNameJobs, IsJobOf, Succeeded
<1>6. PICK pc \in {"marking", "polling"} : Goes(p, pc)
  BY <1>1
<1>7. pc \in HoldsAJob /\ runner[p].pc \in HoldsAJob
  BY <1>1 DEF HoldsAJob
<1> QED BY <1>1, <1>4, <1>5, <1>6, <1>7, WriteMoves DEF LabInv, LabTypes

LEMMA PutPendingOk == ASSUME LabInv, NEW p \in Runners, PutPending(p) PROVE LabInv'
<1>1. UNCHANGED <<runs, jobs, metadata, archive, manifest, abandoned>>
  BY DEF PutPending
<1>2. CASE Writes(p, "submitted", "marking", "polling", pending)
  BY <1>1, <1>2, MarkWritten
<1>3. CASE (At(p, "submitted") \/ At(p, "marking")) /\ Failure(p) /\ UNCHANGED pending
  <2>1. runner[p].pc \in Working
    BY <1>3 DEF At, Working, HoldsAJob
  <2> QED BY <1>1, <1>3, <2>1, FailureAlone DEF files
<1> QED BY <1>2, <1>3 DEF PutPending

LEMMA PutMetadataOk == ASSUME LabInv, NEW p \in Runners, PutMetadata(p) PROVE LabInv'
<1> DEFINE d == DocOf(p)
           j == runner[p].job
<1>1. /\ runner[p].pc \in {"putting", "metadata_opened"}
      /\ Goes(p, IF runner[p].pc = "putting" THEN "metadata_opened" ELSE "metadata_written")
      /\ metadata' = [metadata EXCEPT ![SourceKey(d)] =
                         IF runner[p].pc = "putting" THEN Opened(j) ELSE Written(j)]
      /\ UNCHANGED <<runs, jobs, archive, pending, manifest, abandoned>>
  BY DEF PutMetadata, Writes, At
<1>2. d \in Docs /\ SourceKey(d) = d /\ j \in Nat
  BY <1>1, DocumentInHand DEF Working, HoldsAResult, ProcessRecords
<1>3. Succeeded(j, d)
  <2>1. OnItsRun(runner[p])
    BY <1>1, AtWork
  <2> QED BY <1>1, <2>1 DEF OnItsRun, HoldsAResult, DocOf
<1>4. /\ metadata' \in [Docs -> FileRecords] /\ metadata'[d].job = j
      /\ \A e \in Docs \ {d} : metadata'[e] = metadata[e]
  BY <1>1, <1>2 DEF LabInv, LabTypes, FileRecords, Opened, Written
<1>5. FilesNameJobs'
  <2> SUFFICES ASSUME NEW e \in Docs
               PROVE  /\ metadata'[e].job # 0 => Succeeded(metadata'[e].job, e)
                      /\ pending[e].job # 0 => IsJobOf(pending[e].job, e)
    BY <1>1 DEF FilesNameJobs, IsJobOf, Succeeded
  <2>1. /\ metadata[e].job # 0 => Succeeded(metadata[e].job, e)
        /\ pending[e].job # 0 => IsJobOf(pending[e].job, e)
    BY DEF LabInv, FilesNameJobs
  <2> QED BY <1>3, <1>4, <2>1
<1>6. PICK pc \in {"metadata_opened", "metadata_written"} : Goes(p, pc)
  BY <1>1
<1>7. /\ pc \in HoldsAResult /\ runner[p].pc \in HoldsAResult
      /\ pc \notin HoldsAJob /\ runner[p].pc \notin HoldsAJob
  BY <1>1 DEF HoldsAResult, HoldsAJob
<1> QED BY <1>1, <1>4, <1>5, <1>6, <1>7, WriteMoves DEF LabInv, LabTypes

LEMMA PutArchiveOk == ASSUME LabInv, NEW p \in Runners, PutArchive(p) PROVE LabInv'
<1> DEFINE d == DocOf(p)
           j == runner[p].job
<1>1. /\ runner[p].pc \in {"metadata_written", "archive_opened"}
      /\ Goes(p, IF runner[p].pc = "metadata_written" THEN "archive_opened" ELSE "archive_written")
      /\ archive' = [archive EXCEPT ![SourceKey(d)] =
                        IF runner[p].pc = "metadata_written" THEN Opened(j) ELSE Written(j)]
      /\ UNCHANGED <<runs, jobs, metadata, pending, manifest, abandoned>>
  BY DEF PutArchive, Writes, At
<1>2. d \in Docs /\ SourceKey(d) = d /\ j \in Nat
  BY <1>1, DocumentInHand DEF Working, HoldsAResult, ProcessRecords
<1>3. archive' \in [Docs -> FileRecords]
  BY <1>1, <1>2 DEF LabInv, LabTypes, FileRecords, Opened, Written
<1>4. FilesNameJobs'
  BY <1>1 DEF LabInv, FilesNameJobs, IsJobOf, Succeeded
<1>5. PICK pc \in {"archive_opened", "archive_written"} : Goes(p, pc)
  BY <1>1
<1>6. /\ pc \in HoldsAResult /\ runner[p].pc \in HoldsAResult
      /\ pc \notin HoldsAJob /\ runner[p].pc \notin HoldsAJob
  BY <1>1 DEF HoldsAResult, HoldsAJob
<1> QED BY <1>1, <1>3, <1>4, <1>5, <1>6, WriteMoves DEF LabInv, LabTypes

LEMMA RemovePendingOk == ASSUME LabInv, NEW p \in Runners, RemovePending(p) PROVE LabInv'
<1>1. /\ runner[p].pc = "archive_written" /\ Goes(p, "parsed")
      /\ pending' = [pending EXCEPT ![SourceKey(DocOf(p))] = NoFile]
      /\ UNCHANGED <<runs, jobs, metadata, archive, manifest, abandoned>>
  BY DEF RemovePending, At
<1>2. NoFile \in FileRecords /\ NoFile.job = 0
  BY DEF NoFile, FileRecords
<1>3. /\ pending' \in [Docs -> FileRecords]
      /\ \A e \in Docs : pending'[e] = pending[e] \/ pending'[e] = NoFile
  BY <1>1, <1>2 DEF LabInv, LabTypes
<1>4. FilesNameJobs'
  BY <1>1, <1>2, <1>3 DEF LabInv, FilesNameJobs, IsJobOf, Succeeded
<1>5. /\ "parsed" \in HoldsAResult /\ runner[p].pc \in HoldsAResult
      /\ "parsed" \notin HoldsAJob /\ runner[p].pc \notin HoldsAJob
  BY <1>1 DEF HoldsAResult, HoldsAJob
<1> QED BY <1>1, <1>3, <1>4, <1>5, WriteMoves DEF LabInv, LabTypes

-----------------------------------------------------------------------------
(* The steps that write the row of a run or leave it.                      *)

Statuses == {"queued", "running", "completed", "failed", "cancelled"}

LEMMA RowMoves ==
    ASSUME LabInv, NEW p \in Runners, runner[p].pc # "rest", NEW expected,
           NEW status \in Statuses, NEW list \in Seq(Findings),
           Transition(p, expected, status, list)
    PROVE  /\ runs' \in Seq(RunRows) /\ DOMAIN runs' = DOMAIN runs
           /\ \A q \in DOMAIN runs \ {runner[p].run} : runs'[q] = runs[q]
           /\ runner[p].run \in DOMAIN runs
           /\ Reported(runs'[runner[p].run]) = Reported(runs[runner[p].run])
           /\ runs[runner[p].run].status \in expected =>
                 /\ runs'[runner[p].run].status = status
                 /\ runs'[runner[p].run].evaluations = list
           /\ runs[runner[p].run].status \notin expected => runs'[runner[p].run] = runs[runner[p].run]
<1> DEFINE r == runner[p].run
           row == [runs[r] EXCEPT !.status = status, !.evaluations = list]
<1>1. r \in DOMAIN runs /\ runs[r] \in RunRows /\ runs \in Seq(RunRows)
  BY AtWork DEF LabInv, LabTypes
<1>2. /\ row \in RunRows /\ row.status = status /\ row.evaluations = list
      /\ row.limit = runs[r].limit
  BY <1>1 DEF RunRows, Statuses
<1>3. CASE runs[r].status \in expected
  <2>1. runs' = [runs EXCEPT ![r] = row]
    BY <1>1, <1>3 DEF Transition, InStatus
  <2> HIDE DEF row
  <2> QED BY <1>1, <1>2, <1>3, <2>1 DEF Reported
<1>4. CASE runs[r].status \notin expected
  BY <1>1, <1>4 DEF Transition, InStatus
<1> QED BY <1>3, <1>4

\* A step that leaves the jobs and the files alone and keeps or leaves the run of a process.
LEMMA RunSteps ==
    ASSUME LabInv, NEW p \in Runners, runner[p].pc # "rest",
           runner' = [runner EXCEPT ![p] = runner'[p]], runner'[p] \in ProcessRecords,
           IF runner'[p].pc = "rest" THEN runner'[p].run = 0
           ELSE OnItsRun(runner[p])' /\ runner'[p].run = runner[p].run,
           runs' \in Seq(RunRows), DOMAIN runs' = DOMAIN runs,
           \A q \in DOMAIN runs \ {runner[p].run} : runs'[q] = runs[q],
           \A r \in DOMAIN runs : r = runner[p].run => StoryTold(r)',
           abandoned \subseteq abandoned', UNCHANGED <<jobs, files, manifest>>
    PROVE  LabInv'
<1>1. LabTypes'
  BY FilesStay DEF LabInv, LabTypes
<1> QED BY <1>1, FilesStay, ProcessSteps

LEMMA MarkRunRunningOk == ASSUME LabInv, NEW p \in Runners, MarkRunRunning(p) PROVE LabInv'
<1> DEFINE r == runner[p].run
<1>1. /\ runner[p].pc = "created" /\ Transition(p, {"queued"}, "running", <<>>)
      /\ Goes(p, "running") /\ UNCHANGED <<jobs, files, manifest, abandoned>>
  BY DEF MarkRunRunning, At
<1>2. OnItsRun(runner[p])
  BY <1>1, AtWork
<1>3. /\ runs' \in Seq(RunRows) /\ DOMAIN runs' = DOMAIN runs /\ r \in DOMAIN runs
      /\ \A q \in DOMAIN runs \ {r} : runs'[q] = runs[q]
      /\ Reported(runs'[r]) = Reported(runs[r]) /\ runs'[r].status = "running"
  <2>1. <<>> \in Seq(Findings) /\ "running" \in Statuses /\ runs[r].status = "queued"
    BY <1>1, <1>2 DEF OnItsRun, Statuses
  <2> QED BY <1>1, <2>1, RowMoves
<1>4. /\ "running" \in Evaluating /\ "running" \notin Working
      /\ "running" \notin HoldsAJob /\ "running" \notin HoldsAResult
  BY DEF Evaluating, Working, HoldsAJob, HoldsAResult
<1>5. /\ runner' = [runner EXCEPT ![p] = runner'[p]] /\ runner'[p] \in ProcessRecords
      /\ runner'[p].pc = "running" /\ runner'[p].run = r /\ runner'[p].done = runner[p].done
  BY <1>1, <1>4, GoesTo DEF LabInv
<1>6. OnItsRun(runner[p])'
  <2>1. Tells(runner[p].done, Reported(runs[r]))'
    BY <1>1, <1>2, <1>3, <1>5, FilesStay DEF OnItsRun
  <2> QED BY <1>3, <1>4, <1>5, <2>1 DEF OnItsRun
<1>7. \A q \in DOMAIN runs : q = r => StoryTold(q)'
  BY <1>3, <1>5 DEF StoryTold
<1> QED BY <1>1, <1>3, <1>5, <1>6, <1>7, RunSteps

LEMMA CompleteRunOk == ASSUME LabInv, NEW p \in Runners, CompleteRun(p) PROVE LabInv'
<1> DEFINE r == runner[p].run
<1>1. /\ runner[p].pc = "next" /\ Whole(p)
      /\ Transition(p, {"running"}, "completed", runner[p].done)
      /\ Goes(p, "returning") /\ UNCHANGED <<jobs, files, manifest, abandoned>>
  BY DEF CompleteRun, At
<1>2. OnItsRun(runner[p]) /\ runner[p] \in ProcessRecords
  BY <1>1, AtWork
<1>3. /\ runs' \in Seq(RunRows) /\ DOMAIN runs' = DOMAIN runs /\ r \in DOMAIN runs
      /\ \A q \in DOMAIN runs \ {r} : runs'[q] = runs[q]
      /\ Reported(runs'[r]) = Reported(runs[r])
      /\ runs'[r].status = "completed" /\ runs'[r].evaluations = runner[p].done
  <2>1. runner[p].done \in Seq(Findings) /\ "completed" \in Statuses /\ runs[r].status = "running"
    BY <1>1, <1>2 DEF OnItsRun, Statuses, ProcessRecords, Evaluating
  <2>2. runner[p].pc # "rest" /\ runs[r].status \in {"running"}
    BY <1>1, <2>1
  <2>3. Transition(p, {"running"}, "completed", runner[p].done)
    BY <1>1
  <2>4. ASSUME NEW list \in Seq(Findings), Transition(p, {"running"}, "completed", list)
        PROVE  /\ runs' \in Seq(RunRows) /\ DOMAIN runs' = DOMAIN runs /\ r \in DOMAIN runs
               /\ \A q \in DOMAIN runs \ {r} : runs'[q] = runs[q]
               /\ Reported(runs'[r]) = Reported(runs[r])
               /\ runs'[r].status = "completed" /\ runs'[r].evaluations = list
    <3>1. "completed" \in Statuses /\ runs[runner[p].run].status \in {"running"}
      BY <2>1, <2>2
    <3>2. /\ runs' \in Seq(RunRows) /\ DOMAIN runs' = DOMAIN runs
          /\ \A q \in DOMAIN runs \ {runner[p].run} : runs'[q] = runs[q]
          /\ runner[p].run \in DOMAIN runs
          /\ Reported(runs'[runner[p].run]) = Reported(runs[runner[p].run])
      BY <2>2, <2>4, <3>1, RowMoves
    <3>3. /\ runs'[runner[p].run].status = "completed"
          /\ runs'[runner[p].run].evaluations = list
      BY <2>2, <2>4, <3>1, RowMoves
    <3> QED BY <3>2, <3>3
  <2> QED BY <2>1, <2>3, <2>4
<1>4. /\ "returning" \notin Evaluating /\ "returning" \notin Working
      /\ "returning" \notin HoldsAJob /\ "returning" \notin HoldsAResult
  BY DEF Evaluating, Working, HoldsAJob, HoldsAResult
<1>5. /\ runner' = [runner EXCEPT ![p] = runner'[p]] /\ runner'[p] \in ProcessRecords
      /\ runner'[p].pc = "returning" /\ runner'[p].run = r /\ runner'[p].done = runner[p].done
  BY <1>1, GoesTo DEF LabInv
<1>6. Tells(runner[p].done, Reported(runs[r]))'
  BY <1>1, <1>2, <1>3, <1>5, FilesStay DEF OnItsRun
<1>7. OnItsRun(runner[p])'
  BY <1>3, <1>4, <1>5, <1>6 DEF OnItsRun
<1>8. \A q \in DOMAIN runs : q = r => StoryTold(q)'
  <2>1. Len(runner[p].done) = Reported(runs[r])
    BY <1>1 DEF Whole, Reported, RunOf
  <2> QED BY <1>3, <1>5, <1>6, <2>1 DEF StoryTold
<1> QED BY <1>1, <1>3, <1>5, <1>7, <1>8, RunSteps

\* The ends of a process.
LEMMA ToRest ==
    ASSUME LabTypes, NEW p \in Runners, runner' = [runner EXCEPT ![p] = AtRest]
    PROVE  /\ runner' = [runner EXCEPT ![p] = runner'[p]] /\ runner'[p] \in ProcessRecords
           /\ runner'[p].pc = "rest" /\ runner'[p].run = 0
BY DEF LabTypes, AtRest, ProcessRecords

\* A run that is not decided yet fails or is cancelled, one that is stays.
LEMMA RunEnds ==
    ASSUME LabInv, NEW p \in Runners, runner[p].pc # "rest", NEW status \in {"failed", "cancelled"},
           Transition(p, {"queued", "running"}, status, <<>>),
           runner' = [runner EXCEPT ![p] = AtRest], UNCHANGED <<jobs, files, manifest, abandoned>>
    PROVE  LabInv'
<1> DEFINE r == runner[p].run
<1>2. <<>> \in Seq(Findings) /\ status \in Statuses
  BY DEF Statuses
<1>3. /\ runs' \in Seq(RunRows) /\ DOMAIN runs' = DOMAIN runs
      /\ \A q \in DOMAIN runs \ {r} : runs'[q] = runs[q]
      /\ \/ runs'[r].status = status
         \/ runs[r].status \notin {"queued", "running"} /\ runs'[r] = runs[r]
  <2>2. /\ runs' \in Seq(RunRows) /\ DOMAIN runs' = DOMAIN runs
        /\ \A q \in DOMAIN runs \ {r} : runs'[q] = runs[q]
        /\ runs[r].status \in {"queued", "running"} => runs'[r].status = status
        /\ runs[r].status \notin {"queued", "running"} => runs'[r] = runs[r]
    BY <1>2, RowMoves
  <2> QED BY <2>2
<1>4. ASSUME NEW q \in DOMAIN runs, q = r PROVE StoryTold(q)'
  <2>1. CASE runs'[q].status = "completed"
    <3>1. runs'[q] = runs[q] /\ StoryTold(q) /\ runs[q].status = "completed"
      BY <1>3, <1>4, <2>1 DEF LabInv
    <3>2. Len(runs[q].evaluations) = Reported(runs[q])
          /\ Tells(runs[q].evaluations, Reported(runs[q]))
      BY <3>1 DEF StoryTold
    <3>3. Reported(runs[q])' = Reported(runs[q])
      BY <3>1 DEF Reported
    <3>4. Tells(runs[q].evaluations, Reported(runs[q]))'
      BY <3>1, <3>2, <3>3 DEF Tells, Succeeded
    <3> QED BY <2>1, <3>1, <3>2, <3>3, <3>4 DEF StoryTold
  <2>2. CASE runs'[q].status # "completed"
    BY <1>3, <1>4, <2>2 DEF StoryTold
  <2> QED BY <2>1, <2>2
<1> QED BY <1>3, <1>4, ToRest, RunSteps DEF LabInv

LEMMA FailRunOk == ASSUME LabInv, NEW p \in Runners, FailRun(p) PROVE LabInv'
BY RunEnds DEF FailRun, At

LEMMA CancelRunOk == ASSUME LabInv, NEW p \in Runners, CancelRun(p) PROVE LabInv'
BY RunEnds DEF CancelRun, Cancelled, At

LEMMA LeaveOk ==
    ASSUME LabInv, NEW p \in Runners, runner[p].pc # "rest",
           runner' = [runner EXCEPT ![p] = AtRest], UNCHANGED <<runs, jobs, files, manifest>>,
           abandoned \subseteq abandoned',
           runner[p].pc = "returning" \/ runner[p].run \in abandoned'
    PROVE  LabInv'
<1> DEFINE r == runner[p].run
<1>1. OnItsRun(runner[p])
  BY AtWork
<1>2. ASSUME NEW q \in DOMAIN runs, q = r PROVE StoryTold(q)'
  <2>1. StoryTold(q) /\ runs'[q] = runs[q]
    BY DEF LabInv
  <2>2. CASE runs[q].status = "completed"
    BY <2>1, <2>2, FilesStay DEF StoryTold
  <2>3. CASE runs[q].status # "completed"
    BY <1>1, <1>2, <2>3 DEF StoryTold, OnItsRun
  <2> QED BY <2>2, <2>3
<1>3. runs' \in Seq(RunRows)
  BY DEF LabInv, LabTypes
<1> QED BY <1>2, <1>3, ToRest, RunSteps DEF LabInv

LEMMA CreateRunOk ==
    ASSUME LabInv, NEW p \in Runners, NEW variant \in Variants, NEW limit \in Limits,
           NEW identity \in 1 .. manifest, CreateRun(p, variant, limit, identity)
    PROVE  LabInv'
<1> DEFINE row == [variant |-> variant, identity |-> identity, limit |-> limit,
                   status |-> "queued", evaluations |-> <<>>]
           new == Len(runs) + 1
<1>1. row \in RunRows /\ row.status = "queued"
  BY DEF RunRows, LabInv, LabTypes
<1>2. /\ runs' = Append(runs, row) /\ runner[p].pc = "rest"
      /\ runner' = [runner EXCEPT ![p] = [AtRest EXCEPT !.pc = "created", !.run = Len(runs')]]
      /\ UNCHANGED <<jobs, files, manifest, abandoned>>
  BY DEF CreateRun, At
<1> HIDE DEF row
<1>3. /\ runs' \in Seq(RunRows) /\ new \in Nat /\ new \notin DOMAIN runs /\ new = Len(runs')
      /\ DOMAIN runs' = DOMAIN runs \cup {new} /\ runs'[new] = row
      /\ \A r \in DOMAIN runs : runs'[r] = runs[r]
  BY <1>1, <1>2 DEF LabInv, LabTypes
<1>4. /\ runner' = [runner EXCEPT ![p] = runner'[p]]
      /\ runner'[p].pc = "created" /\ runner'[p].run = new /\ runner'[p].done = <<>>
      /\ runner'[p] \in ProcessRecords
  <2>1. AtRest \in ProcessRecords /\ AtRest.done = <<>>
    BY DEF AtRest, ProcessRecords
  <2>2. \A n \in Nat : LET x == [AtRest EXCEPT !.pc = "created", !.run = n]
                       IN  /\ x.pc = "created" /\ x.run = n /\ x.done = <<>>
                           /\ x \in ProcessRecords
    BY <2>1 DEF ProcessRecords
  <2> QED BY <1>2, <1>3, <2>2 DEF LabInv, LabTypes
<1>5. /\ "created" \notin Evaluating /\ "created" \notin Working
      /\ "created" \notin HoldsAJob /\ "created" \notin HoldsAResult
  BY DEF Evaluating, Working, HoldsAJob, HoldsAResult
<1>6. OnItsRun(runner[p])'
  <2>1. Tells(runner[p].done, Reported(runs[runner[p].run]))'
    <3>1. Reported(row) \in Nat
      BY <1>1, ReportedBound
    <3>2. Reported(runs[runner[p].run])' = Reported(row)
      BY <1>3, <1>4 DEF Reported
    <3> QED BY <1>4, <3>1, <3>2 DEF Tells
  <2> QED BY <1>1, <1>3, <1>4, <1>5, <2>1 DEF OnItsRun
<1>7. \A r \in DOMAIN runs' : r = new => StoryTold(r)'
  BY <1>1, <1>3, <1>4 DEF StoryTold
<1>8. LabTypes'
  BY <1>2, <1>3, <1>4, FilesStay DEF LabInv, LabTypes
<1>9. runner[p].run = 0 /\ 0 \notin DOMAIN runs
  BY <1>2 DEF LabInv, LabTypes, Processes
<1>10. /\ IF runner'[p].pc = "rest" THEN runner'[p].run = 0
          ELSE /\ OnItsRun(runner[p])'
               /\ runner'[p].run = runner[p].run \/ runner'[p].run \notin DOMAIN runs
       /\ \A r \in DOMAIN runs' : r = runner[p].run \/ r \notin DOMAIN runs => StoryTold(r)'
       /\ \A r \in DOMAIN runs \ {runner[p].run} : runs'[r] = runs[r]
  BY <1>3, <1>4, <1>6, <1>7, <1>9
<1> HIDE DEF new
<1> QED BY <1>2, <1>3, <1>4, <1>8, <1>10, FilesStay, ProcessSteps

-----------------------------------------------------------------------------
(* The steps of others.                                                    *)

LEMMA ProcessesStay ==
    ASSUME LabInv, LabTypes', JobsKept, UNCHANGED <<runs, metadata, pending, runner, abandoned>>
    PROVE  LabInv'
<1>1. /\ \A j, d : IsJobOf(j, d) => IsJobOf(j, d)'
      /\ \A j, d : Succeeded(j, d) => Succeeded(j, d)'
      /\ \A list, most : Tells(list, most) => Tells(list, most)'
  BY KeptJobs DEF LabInv
<1>2. FilesNameJobs'
  BY <1>1 DEF LabInv, FilesNameJobs
<1>3. \A p \in Runners : OnItsRun(runner[p]) => OnItsRun(runner[p])'
  BY <1>1 DEF OnItsRun, Reported
<1>4. Processes'
  BY <1>3 DEF LabInv, Processes
<1>5. \A r \in DOMAIN runs' : StoryTold(r)'
  BY <1>1 DEF LabInv, StoryTold, Reported
<1> QED BY <1>2, <1>4, <1>5 DEF LabInv

LEMMA RowReplaced ==
    ASSUME NEW S, NEW s \in Seq(S), NEW j \in DOMAIN s, NEW x \in S
    PROVE  /\ [s EXCEPT ![j] = x] \in Seq(S) /\ DOMAIN [s EXCEPT ![j] = x] = DOMAIN s
           /\ [s EXCEPT ![j] = x][j] = x
           /\ \A l \in DOMAIN s \ {j} : [s EXCEPT ![j] = x][l] = s[l]
OBVIOUS

LEMMA ServiceDecidesOk ==
    ASSUME LabInv, NEW j \in DOMAIN jobs, NEW state \in {"succeeded", "failed"},
           ServiceDecides(j, state)
    PROVE  LabInv'
<1>1. /\ jobs[j].state = "running" /\ jobs' = [jobs EXCEPT ![j].state = state]
      /\ UNCHANGED <<runs, files, manifest, runner, abandoned>>
  BY DEF ServiceDecides
<1> DEFINE decided == [jobs[j] EXCEPT !.state = state]
<1>2. jobs \in Seq(JobRecords) /\ decided \in JobRecords /\ decided.doc = jobs[j].doc
  <2>1. jobs \in Seq(JobRecords) /\ jobs[j] \in JobRecords
    BY DEF LabInv, LabTypes
  <2> QED BY <2>1 DEF JobRecords
<1>3. /\ jobs' \in Seq(JobRecords) /\ DOMAIN jobs' = DOMAIN jobs
      /\ jobs'[j].doc = jobs[j].doc /\ \A l \in DOMAIN jobs \ {j} : jobs'[l] = jobs[l]
  <2>1. jobs' = [jobs EXCEPT ![j] = decided]
    BY <1>1
  <2> HIDE DEF decided
  <2>2. /\ [jobs EXCEPT ![j] = decided] \in Seq(JobRecords)
        /\ DOMAIN [jobs EXCEPT ![j] = decided] = DOMAIN jobs
        /\ [jobs EXCEPT ![j] = decided][j] = decided
        /\ \A l \in DOMAIN jobs \ {j} : [jobs EXCEPT ![j] = decided][l] = jobs[l]
    BY <1>2, RowReplaced
  <2> QED BY <1>2, <2>1, <2>2
<1>4. JobsKept
  BY <1>1, <1>3 DEF JobsKept
<1>5. LabTypes'
  BY <1>1, <1>3 DEF LabInv, LabTypes, files
<1> QED BY <1>1, <1>4, <1>5, ProcessesStay DEF files

LEMMA LabStepOk == ASSUME LabInv, [Next]_<<labVars, feedbackVars>> PROVE LabInv'
<1>1. ASSUME NEW p \in Runners, RunnerStep(p) PROVE LabInv'
  <2>1. Return(p) => LabInv'
    BY LeaveOk DEF Return, At
  <2>2. Die(p) => LabInv'
    BY LeaveOk DEF Die, At
  <2> QED BY <1>1, <2>1, <2>2, CreateRunOk, MarkRunRunningOk, CheckIdentityOk, LookupOk,
             ResumeOrSubmitOk, PutPendingOk, PollOk, PutMetadataOk, PutArchiveOk,
             RemovePendingOk, NormalizeOk, CompleteRunOk, FailRunOk, InterruptOk, CancelRunOk
             DEF RunnerStep
<1>2. ASSUME NEW j \in DOMAIN jobs, NEW s \in {"succeeded", "failed"}, ServiceDecides(j, s)
      PROVE  LabInv'
  BY <1>2, ServiceDecidesOk
<1>3. ASSUME UNCHANGED <<runs, jobs, files, runner, abandoned>>, manifest' \in Nat PROVE LabInv'
  <2>1. LabTypes'
    BY <1>3 DEF LabInv, LabTypes, files
  <2> QED BY <1>3, <2>1, NothingHappensToTheJobs, ProcessesStay DEF files
<1>4. manifest \in Nat /\ manifest + 1 \in Nat
  BY DEF LabInv, LabTypes
<1>5. EditManifest => LabInv'
  BY <1>3, <1>4 DEF EditManifest
<1>6. ASSUME NEW b \in DOMAIN runs, NEW c \in DOMAIN runs, Decide(b, c) PROVE LabInv'
  BY <1>3, <1>4, <1>6 DEF Decide
<1>7. UNCHANGED labVars => LabInv'
  BY <1>3, <1>4 DEF labVars, files
<1> QED BY <1>1, <1>2, <1>5, <1>6, <1>7 DEF Next, LabStep, feedbackVars

THEOREM LabInvariant == Spec => []LabInv
<1>1. Init => LabInv
  BY LabInitOk DEF Init
<1>2. LabInv /\ [Next]_<<labVars, feedbackVars>> => LabInv'
  BY LabStepOk
<1> QED BY <1>1, <1>2, PTL DEF Spec

(* A completed run reports each of its documents once, in the order of the *)
(* manifest, from finished jobs of those documents; a run that is not      *)
(* decided has a process at work on it or one that died, however many      *)
(* evaluations share the files (ExtractionEvaluationRunner.run,            *)
(* ExperimentRunner.run).                                                  *)
THEOREM StoriesCorrect == Spec => []RunsTellTheirStory
<1>1. LabInv => RunsTellTheirStory
  <2> SUFFICES ASSUME LabInv, NEW r \in DOMAIN runs
               PROVE  IF runs[r].status = "completed"
                      THEN /\ Len(runs[r].evaluations) = Reported(runs[r])
                           /\ \A j \in DOMAIN runs[r].evaluations :
                                 LET e == runs[r].evaluations[j]
                                 IN  /\ e.doc = Dataset[j]
                                     /\ e.valid => jobs[e.job] = [doc |-> e.doc, state |-> "succeeded"]
                      ELSE runs[r].status \in {"queued", "running"} =>
                              r \in abandoned \/ \E p \in Runners : runner[p].run = r
    BY DEF RunsTellTheirStory
  <2>1. StoryTold(r)
    BY DEF LabInv
  <2> QED BY <2>1 DEF StoryTold, Tells, Succeeded
<1> QED BY <1>1, LabInvariant, PTL

-----------------------------------------------------------------------------
(* One process: a job that is still known is found again.                  *)

Found(j) ==
    LET d == jobs[j].doc
    IN  \/ pending[d].job # 0
        \/ metadata[d].job # 0 /\ archive[d].job # 0
        \/ \E p \in Runners : At(p, "submitted") /\ runner[p].job = j

\* What a process may rely on as long as it is the only one.
FilesInPlace(p) ==
    /\ At(p, "missed") => metadata[DocOf(p)].job = 0 \/ archive[DocOf(p)].job = 0
    /\ runner[p].pc \in {"metadata_written", "archive_opened", "archive_written"} =>
          metadata[DocOf(p)].job # 0
    /\ At(p, "archive_written") => archive[DocOf(p)].job # 0

PaidOnce ==
    /\ \A j \in DOMAIN jobs \ forgotten : Found(j)
    /\ \A j, l \in DOMAIN jobs \ forgotten : jobs[j].doc = jobs[l].doc => j = l
    /\ \A p \in Runners : FilesInPlace(p)

\* Steps that leave the files alone and buy nothing.
QuietPlaces == {"missed", "metadata_written", "archive_opened", "archive_written"}
LEMMA QuietSteps ==
    ASSUME LabInv, PaidOnce, UNCHANGED files, DOMAIN jobs' = DOMAIN jobs,
           \A j \in DOMAIN jobs : jobs'[j].doc = jobs[j].doc, forgotten \subseteq forgotten',
           \A p \in Runners :
              \/ runner'[p] = runner[p]
              \/ /\ runner'[p].pc \notin QuietPlaces
                 /\ At(p, "submitted") => runner[p].job \in forgotten'
    PROVE  PaidOnce'
<1>1. \A j \in DOMAIN jobs' \ forgotten' : Found(j)'
  <2> SUFFICES ASSUME NEW j \in DOMAIN jobs \ forgotten' PROVE Found(j)'
    OBVIOUS
  <2>1. Found(j)
    BY DEF PaidOnce
  <2>2. ASSUME NEW p \in Runners, At(p, "submitted"), runner[p].job = j
        PROVE  runner'[p] = runner[p]
    BY <2>2
  <2> QED BY <2>1, <2>2 DEF Found, At, files
<1>2. \A p \in Runners : FilesInPlace(p)'
  BY DEF PaidOnce, FilesInPlace, QuietPlaces, At, DocOf, files
<1> QED BY <1>1, <1>2 DEF PaidOnce

\* What a process does to itself.
LEMMA PlaceOfAProcess ==
    ASSUME LabInv, NEW p \in Runners
    PROVE  /\ \A q \in Runners \ {p} : \A pc : Goes(p, pc) => runner'[q] = runner[q]
           /\ \A pc : Goes(p, pc) =>
                 /\ runner'[p].pc = pc /\ runner'[p].job = runner[p].job
                 /\ runner'[p].done = runner[p].done
BY DEF LabInv, LabTypes, ProcessRecords, Goes

LEMMA Ending ==
    ASSUME LabInv, NEW p \in Runners, runner' = [runner EXCEPT ![p] = AtRest]
    PROVE  runner'[p].pc = "rest" /\ \A q \in Runners \ {p} : runner'[q] = runner[q]
BY DEF LabInv, LabTypes, AtRest

\* A process that turns to a place where it relies on nothing.
LEMMA QuietTurns ==
    ASSUME LabInv, PaidOnce, NEW p \in Runners, UNCHANGED <<files, jobs>>,
           runner'[p].pc \notin QuietPlaces, \A q \in Runners \ {p} : runner'[q] = runner[q],
           forgotten \subseteq forgotten',
           At(p, "submitted") => runner[p].job \in forgotten'
    PROVE  PaidOnce'
BY QuietSteps

LEMMA EvaluatedIsQuiet ==
    ASSUME LabInv, PaidOnce, NEW p \in Runners, NEW e, Evaluated(p, e),
           At(p, "submitted") => runner[p].job \in forgotten', forgotten \subseteq forgotten',
           UNCHANGED <<files, jobs>>
    PROVE  PaidOnce'
<1>1. /\ runner'[p] = [runner[p] EXCEPT !.pc = "next", !.job = 0, !.done = Append(runner[p].done, e)]
      /\ \A q \in Runners \ {p} : runner'[q] = runner[q]
  BY DEF Evaluated, LabInv, LabTypes
<1>2. runner'[p].pc = "next"
  BY <1>1 DEF LabInv, LabTypes, ProcessRecords
<1> QED BY <1>1, <1>2, QuietTurns DEF QuietPlaces

LEMMA LookupPays ==
    ASSUME LabInv, PaidOnce, NEW p \in Runners, Lookup(p) PROVE PaidOnce'
<1> DEFINE d == DocOf(p)
<1>1. /\ At(p, "next") /\ ~Whole(p) /\ ~At(p, "submitted") /\ UNCHANGED <<files, jobs, forgotten>>
  BY DEF Lookup, At
<1>2. SourceKey(d) = d
  BY DEF SourceKey
<1>3. CASE (metadata[d].job = 0 \/ archive[d].job = 0) /\ Goes(p, "missed")
  <2>1. /\ runner'[p].pc = "missed" /\ runner'[p].done = runner[p].done
        /\ \A q \in Runners \ {p} : runner'[q] = runner[q]
    BY <1>3, PlaceOfAProcess
  <2>2. \A j \in DOMAIN jobs \ forgotten : Found(j)'
    <3>1. \A j \in DOMAIN jobs \ forgotten, q \in Runners :
             At(q, "submitted") /\ runner[q].job = j => runner'[q] = runner[q]
      BY <1>1, <2>1
    <3> QED BY <1>1, <3>1 DEF PaidOnce, Found, At, files
  <2>3. \A q \in Runners : FilesInPlace(q)'
    BY <1>1, <1>3, <2>1 DEF PaidOnce, FilesInPlace, At, DocOf, files
  <2> QED BY <1>1, <2>2, <2>3 DEF PaidOnce
<1>4. CASE Goes(p, "failing")
  BY <1>1, <1>4, PlaceOfAProcess, QuietTurns DEF QuietPlaces
<1>5. CASE runner' = [runner EXCEPT ![p].pc = "parsed", ![p].job = metadata[d].job]
  <2>1. runner'[p].pc = "parsed" /\ \A q \in Runners \ {p} : runner'[q] = runner[q]
    BY <1>5 DEF LabInv, LabTypes, ProcessRecords
  <2> QED BY <1>1, <2>1, QuietTurns DEF QuietPlaces
<1> QED BY <1>2, <1>3, <1>4, <1>5 DEF Lookup

\* A job is submitted only when none that is known would be found.
LEMMA ResumeOrSubmitPays ==
    ASSUME LabInv, PaidOnce, NEW p \in Runners, Runners = {p}, ResumeOrSubmit(p) PROVE PaidOnce'
<1> DEFINE d == DocOf(p)
<1>1. At(p, "missed") /\ ~At(p, "submitted") /\ UNCHANGED files
  BY DEF ResumeOrSubmit, At
<1>2. d \in Docs /\ MarkOf(d) = pending[d] /\ runner[p] \in ProcessRecords
  BY <1>1, DocumentInHand DEF MarkOf, At, Working
<1>3. CASE /\ runner' = [runner EXCEPT ![p].pc = "polling", ![p].job = MarkOf(d).job]
           /\ UNCHANGED <<jobs, forgotten>>
  <2>1. runner'[p].pc = "polling" /\ \A q \in Runners \ {p} : runner'[q] = runner[q]
    BY <1>3 DEF LabInv, LabTypes, ProcessRecords
  <2> QED BY <1>1, <1>3, <2>1, QuietTurns DEF QuietPlaces
<1>4. CASE Failure(p) /\ UNCHANGED <<jobs, forgotten>>
  BY <1>1, <1>4, EvaluatedIsQuiet DEF Failure
<1>6. CASE /\ jobs' = Append(jobs, [doc |-> d, state |-> "running"]) /\ Failure(p)
           /\ forgotten' = forgotten \cup {Len(jobs')}
  <2>1. [doc |-> d, state |-> "running"] \in JobRecords
    BY <1>2 DEF JobRecords
  <2>2. /\ DOMAIN jobs' = DOMAIN jobs \cup {Len(jobs')}
        /\ \A j \in DOMAIN jobs : jobs'[j] = jobs[j]
    BY <1>6, <2>1 DEF LabInv, LabTypes
  <2>3. runner'[p].pc = "next"
    BY <1>2, <1>6 DEF Failure, Evaluated, LabInv, LabTypes, ProcessRecords
  <2>4. \A j \in DOMAIN jobs' \ forgotten' : j \in DOMAIN jobs \ forgotten /\ Found(j)'
    BY <1>1, <1>6, <2>2 DEF PaidOnce, Found, files
  <2>5. \A q \in Runners : FilesInPlace(q)'
    BY <2>3 DEF FilesInPlace, At
  <2> QED BY <2>2, <2>4, <2>5 DEF PaidOnce
<1>5. CASE /\ MarkOf(d).job = 0 /\ UNCHANGED forgotten
           /\ jobs' = Append(jobs, [doc |-> d, state |-> "running"])
           /\ runner' = [runner EXCEPT ![p].pc = "submitted", ![p].job = Len(jobs')]
  <2> DEFINE new == Len(jobs) + 1
  <2>1. [doc |-> d, state |-> "running"] \in JobRecords
    BY <1>2 DEF JobRecords
  <2>2. /\ new = Len(jobs') /\ DOMAIN jobs' = DOMAIN jobs \cup {new} /\ jobs'[new].doc = d
        /\ \A j \in DOMAIN jobs : jobs'[j] = jobs[j]
    BY <1>5, <2>1 DEF LabInv, LabTypes
  <2>3. runner'[p].pc = "submitted" /\ runner'[p].job = new
    BY <1>5, <2>2 DEF LabInv, LabTypes, ProcessRecords
  <2> HIDE DEF new
  <2>4. ~At(p, "submitted") /\ (metadata[d].job = 0 \/ archive[d].job = 0)
    BY <1>1 DEF PaidOnce, FilesInPlace
  <2>5. \A j \in DOMAIN jobs \ forgotten : jobs[j].doc # d
    BY <1>1, <1>2, <1>5, <2>4 DEF PaidOnce, Found
  <2>6. \A j \in DOMAIN jobs' \ forgotten' : Found(j)'
    <3>1. \A j \in DOMAIN jobs \ forgotten : Found(j)'
      BY <1>1, <2>2 DEF PaidOnce, Found, files
    <3>2. Found(Len(jobs))'
      BY <2>2, <2>3 DEF Found, At
    <3> QED BY <1>5, <2>2, <3>1, <3>2
  <2>7. \A j, l \in DOMAIN jobs' \ forgotten' : jobs'[j].doc = jobs'[l].doc => j = l
    BY <1>5, <2>2, <2>5 DEF PaidOnce
  <2>8. \A q \in Runners : FilesInPlace(q)'
    BY <2>3 DEF FilesInPlace, At
  <2> QED BY <2>6, <2>7, <2>8 DEF PaidOnce
<1> QED BY <1>1, <1>3, <1>4, <1>5, <1>6 DEF ResumeOrSubmit

\* A write: the other files stay, and what is found is found again.
LEMMA WritesPay ==
    ASSUME LabInv, PaidOnce, NEW p \in Runners, Runners = {p}, NEW pc, Goes(p, pc),
           runner[p].pc \in HoldsAJob \cup HoldsAResult, pc # "missed",
           UNCHANGED <<jobs, forgotten>>,
           \A d \in Docs :
              /\ metadata[d].job # 0 => metadata'[d].job # 0
              /\ archive[d].job # 0 => archive'[d].job # 0
              /\ pending[d].job # 0 =>
                    pending'[d].job # 0 \/ (metadata'[d].job # 0 /\ archive'[d].job # 0),
           At(p, "submitted") => pending'[DocOf(p)].job # 0,
           pc \in {"metadata_written", "archive_opened", "archive_written"} =>
              metadata'[DocOf(p)].job # 0,
           pc = "archive_written" => archive'[DocOf(p)].job # 0
    PROVE  PaidOnce'
<1>1. runner'[p].pc = pc /\ runner'[p].job = runner[p].job /\ runner'[p].done = runner[p].done
  BY PlaceOfAProcess
<1>2. \A j \in DOMAIN jobs \ forgotten : Found(j)'
  <2> SUFFICES ASSUME NEW j \in DOMAIN jobs \ forgotten PROVE Found(j)'
    OBVIOUS
  <2>1. Found(j) /\ jobs[j].doc \in Docs
    <3>1. jobs[j] \in JobRecords
      BY DEF LabInv, LabTypes
    <3> QED BY <3>1 DEF PaidOnce, JobRecords
  <2>2. CASE At(p, "submitted") /\ runner[p].job = j
    <3>1. OnItsRun(runner[p])
      BY <2>2, AtWork DEF At
    <3>2. jobs[j].doc = DocOf(p)
      BY <2>2, <3>1 DEF OnItsRun, At, HoldsAJob, IsJobOf, DocOf
    <3> QED BY <2>2, <3>2 DEF Found
  <2>3. CASE ~(At(p, "submitted") /\ runner[p].job = j)
    <3>1. pending[jobs[j].doc].job # 0 \/ (metadata[jobs[j].doc].job # 0 /\ archive[jobs[j].doc].job # 0)
      BY <2>1, <2>3 DEF Found
    <3> QED BY <2>1, <3>1 DEF Found
  <2> QED BY <2>2, <2>3
<1>3. FilesInPlace(p)'
  <2>1. DocOf(p)' = DocOf(p)
    BY <1>1 DEF DocOf
  <2> QED BY <1>1, <2>1 DEF FilesInPlace, At
<1> QED BY <1>2, <1>3 DEF PaidOnce

\* A process with a job in hand: the job has a number, and its document is one of the dataset.
LEMMA JobInHand ==
    ASSUME LabInv, NEW p \in Runners, runner[p].pc \in HoldsAJob \cup HoldsAResult
    PROVE  /\ runner[p].job \in Nat \ {0} /\ DocOf(p) \in Docs /\ SourceKey(DocOf(p)) = DocOf(p)
<1>1. runner[p].pc \in Working /\ runner[p].pc # "rest"
  BY DEF Working, HoldsAJob, HoldsAResult
<1>2. OnItsRun(runner[p])
  BY <1>1, AtWork
<1>3. runner[p].job \in DOMAIN jobs
  BY <1>2 DEF OnItsRun, IsJobOf, Succeeded
<1> QED BY <1>1, <1>3, DocumentInHand DEF LabInv, LabTypes

LEMMA MarkingPays ==
    ASSUME LabInv, PaidOnce, NEW p \in Runners, Runners = {p},
           Writes(p, "submitted", "marking", "polling", pending),
           UNCHANGED <<jobs, metadata, archive, forgotten>>
    PROVE  PaidOnce'
<1> DEFINE d == DocOf(p)
           j == runner[p].job
<1>1. /\ runner[p].pc \in {"submitted", "marking"}
      /\ Goes(p, "marking") \/ Goes(p, "polling")
      /\ \/ pending' = [pending EXCEPT ![SourceKey(d)] = Opened(j)]
         \/ pending' = [pending EXCEPT ![SourceKey(d)] = Written(j)]
  BY DEF Writes, At
<1>2. PICK pc \in {"marking", "polling"} : Goes(p, pc)
  BY <1>1
<1>3. runner[p].pc \in HoldsAJob
  BY <1>1 DEF HoldsAJob
<1>4. pending'[d].job # 0 /\ \A e \in Docs \ {d} : pending'[e] = pending[e]
  BY <1>1, <1>3, JobInHand DEF LabInv, LabTypes, Opened, Written
<1> QED BY <1>1, <1>2, <1>3, <1>4, WritesPay

\* An error before the mark is opened loses the job, a later one leaves the opened mark.
LEMMA PutPendingPays ==
    ASSUME LabInv, PaidOnce, NEW p \in Runners, Runners = {p}, PutPending(p) PROVE PaidOnce'
<1>1. UNCHANGED <<jobs, metadata, archive>>
  BY DEF PutPending
<1>2. CASE Writes(p, "submitted", "marking", "polling", pending) /\ UNCHANGED forgotten
  BY <1>1, <1>2, MarkingPays
<1>3. CASE Failure(p) /\ Forgets(p) /\ UNCHANGED pending
  <2>1. forgotten \subseteq forgotten' /\ (At(p, "submitted") => runner[p].job \in forgotten')
    BY <1>3 DEF Forgets
  <2> QED BY <1>1, <1>3, <2>1, EvaluatedIsQuiet DEF Failure, files
<1> QED BY <1>2, <1>3 DEF PutPending

LEMMA PutMetadataPays ==
    ASSUME LabInv, PaidOnce, NEW p \in Runners, Runners = {p}, PutMetadata(p) PROVE PaidOnce'
<1> DEFINE d == DocOf(p)
           j == runner[p].job
<1>1. /\ runner[p].pc \in {"putting", "metadata_opened"}
      /\ Goes(p, "metadata_opened") \/ Goes(p, "metadata_written")
      /\ \/ metadata' = [metadata EXCEPT ![SourceKey(d)] = Opened(j)]
         \/ metadata' = [metadata EXCEPT ![SourceKey(d)] = Written(j)]
      /\ UNCHANGED <<jobs, pending, archive, forgotten>>
  BY DEF PutMetadata, Writes, At
<1>2. PICK pc \in {"metadata_opened", "metadata_written"} : Goes(p, pc)
  BY <1>1
<1>3. runner[p].pc \in HoldsAResult /\ ~At(p, "submitted")
  BY <1>1 DEF HoldsAResult, At
<1>4. metadata'[d].job # 0 /\ \A e \in Docs \ {d} : metadata'[e] = metadata[e]
  BY <1>1, <1>3, JobInHand DEF LabInv, LabTypes, Opened, Written
<1> QED BY <1>1, <1>2, <1>3, <1>4, WritesPay

LEMMA PutArchivePays ==
    ASSUME LabInv, PaidOnce, NEW p \in Runners, Runners = {p}, PutArchive(p) PROVE PaidOnce'
<1> DEFINE d == DocOf(p)
           j == runner[p].job
<1>1. /\ runner[p].pc \in {"metadata_written", "archive_opened"}
      /\ Goes(p, "archive_opened") \/ Goes(p, "archive_written")
      /\ \/ archive' = [archive EXCEPT ![SourceKey(d)] = Opened(j)]
         \/ archive' = [archive EXCEPT ![SourceKey(d)] = Written(j)]
      /\ UNCHANGED <<jobs, pending, metadata, forgotten>>
  BY DEF PutArchive, Writes, At
<1>2. PICK pc \in {"archive_opened", "archive_written"} : Goes(p, pc)
  BY <1>1
<1>3. runner[p].pc \in HoldsAResult /\ ~At(p, "submitted")
  BY <1>1 DEF HoldsAResult, At
<1>4. archive'[d].job # 0 /\ \A e \in Docs \ {d} : archive'[e] = archive[e]
  BY <1>1, <1>3, JobInHand DEF LabInv, LabTypes, Opened, Written
<1>5. metadata[d].job # 0
  BY <1>1 DEF PaidOnce, FilesInPlace
<1> QED BY <1>1, <1>2, <1>3, <1>4, <1>5, WritesPay

LEMMA RemovePendingPays ==
    ASSUME LabInv, PaidOnce, NEW p \in Runners, Runners = {p}, RemovePending(p) PROVE PaidOnce'
<1> DEFINE d == DocOf(p)
<1>1. /\ runner[p].pc = "archive_written" /\ Goes(p, "parsed")
      /\ pending' = [pending EXCEPT ![SourceKey(d)] = NoFile]
      /\ UNCHANGED <<jobs, metadata, archive, forgotten>>
  BY DEF RemovePending, At
<1>2. runner[p].pc \in HoldsAResult /\ ~At(p, "submitted")
  BY <1>1 DEF HoldsAResult, At
<1>3. SourceKey(d) = d /\ \A e \in Docs \ {d} : pending'[e] = pending[e]
  BY <1>1, <1>2, JobInHand DEF LabInv, LabTypes
<1>4. metadata[d].job # 0 /\ archive[d].job # 0
  BY <1>1 DEF PaidOnce, FilesInPlace, At
<1> QED BY <1>1, <1>2, <1>3, <1>4, WritesPay

LEMMA PaidOnceStep ==
    ASSUME LabInv, PaidOnce, NEW only, Runners = {only}, [Next]_<<labVars, feedbackVars>>
    PROVE  PaidOnce'
<1> USE DEF QuietPlaces
<1>1. ASSUME NEW p \in Runners, RunnerStep(p) PROVE PaidOnce'
  <2>0. Runners = {p}
    OBVIOUS
  <2>1. ASSUME NEW v \in Variants, NEW limit \in Limits, NEW identity \in 1 .. manifest,
               CreateRun(p, v, limit, identity)
        PROVE  PaidOnce'
    <3>1. /\ ~At(p, "submitted") /\ UNCHANGED <<files, jobs, forgotten>>
          /\ runner' = [runner EXCEPT ![p] = [AtRest EXCEPT !.pc = "created", !.run = Len(runs')]]
      BY <2>1 DEF CreateRun, At
    <3>2. \A n : [AtRest EXCEPT !.pc = "created", !.run = n].pc = "created"
      BY DEF AtRest
    <3>3. runner'[p].pc = "created" /\ \A q \in Runners \ {p} : runner'[q] = runner[q]
      BY <3>1, <3>2 DEF LabInv, LabTypes
    <3> QED BY <3>1, <3>3, QuietTurns
  <2>2. ASSUME MarkRunRunning(p) \/ CheckIdentity(p) \/ CompleteRun(p) PROVE PaidOnce'
    <3>1. ~At(p, "submitted") /\ UNCHANGED <<files, jobs, forgotten>>
      BY <2>2 DEF MarkRunRunning, CheckIdentity, CompleteRun, At
    <3>2. Goes(p, "running") \/ Goes(p, "next") \/ Goes(p, "failing") \/ Goes(p, "returning")
      BY <2>2 DEF MarkRunRunning, CheckIdentity, CompleteRun
    <3>3. PICK pc \in {"running", "next", "failing", "returning"} : Goes(p, pc)
      BY <3>2
    <3> QED BY <3>1, <3>3, PlaceOfAProcess, QuietTurns
  <2>3. ASSUME FailRun(p) \/ CancelRun(p) \/ Return(p) PROVE PaidOnce'
    <3>1. /\ ~At(p, "submitted") /\ UNCHANGED <<files, jobs, forgotten>>
          /\ runner' = [runner EXCEPT ![p] = AtRest]
      BY <2>3 DEF FailRun, CancelRun, Return, At
    <3> QED BY <3>1, Ending, QuietTurns
  <2>4. ASSUME Die(p) PROVE PaidOnce'
    <3>1. /\ UNCHANGED <<files, jobs>> /\ runner' = [runner EXCEPT ![p] = AtRest]
          /\ forgotten \subseteq forgotten'
          /\ At(p, "submitted") => runner[p].job \in forgotten'
      BY <2>4 DEF Die, Forgets
    <3> QED BY <3>1, Ending, QuietTurns
  <2>8. ASSUME EvaluationFails(p) PROVE PaidOnce'
    <3>1. ~At(p, "submitted") /\ Goes(p, "failing") /\ UNCHANGED <<files, jobs, forgotten>>
      BY <2>8 DEF EvaluationFails, At
    <3> QED BY <3>1, PlaceOfAProcess, QuietTurns
  <2>5. ASSUME Interrupt(p) PROVE PaidOnce'
    <3>1. /\ UNCHANGED <<files, jobs>> /\ Goes(p, "cancelling")
          /\ forgotten \subseteq forgotten'
          /\ At(p, "submitted") => runner[p].job \in forgotten'
      BY <2>5 DEF Interrupt, Forgets
    <3> QED BY <3>1, PlaceOfAProcess, QuietTurns
  <2>6. ASSUME Poll(p) PROVE PaidOnce'
    <3>1. ~At(p, "submitted") /\ UNCHANGED <<files, jobs, forgotten>>
      BY <2>6 DEF Poll, At
    <3>2. Goes(p, "putting") \/ Failure(p)
      BY <2>6 DEF Poll
    <3>3. Goes(p, "putting") => PaidOnce'
      BY <3>1, PlaceOfAProcess, QuietTurns
    <3>4. Failure(p) => PaidOnce'
      BY <3>1, EvaluatedIsQuiet DEF Failure
    <3> QED BY <3>2, <3>3, <3>4
  <2>7. ASSUME Normalize(p) PROVE PaidOnce'
    <3>1. ~At(p, "submitted") /\ UNCHANGED <<files, jobs, forgotten>>
      BY <2>7 DEF Normalize, At
    <3>2. \E e : Evaluated(p, e)
      BY <2>7 DEF Normalize, Failure
    <3> QED BY <3>1, <3>2, EvaluatedIsQuiet
  <2> QED BY <1>1, <2>0, <2>1, <2>2, <2>3, <2>4, <2>5, <2>6, <2>7, <2>8, LookupPays, ResumeOrSubmitPays,
             PutPendingPays, PutMetadataPays, PutArchivePays, RemovePendingPays DEF RunnerStep
<1>2. ASSUME UNCHANGED <<files, jobs, runner, forgotten>> PROVE PaidOnce'
  BY <1>2, QuietSteps
<1>3. ASSUME NEW j \in DOMAIN jobs, NEW s \in {"succeeded", "failed"}, ServiceDecides(j, s)
      PROVE  PaidOnce'
  <2>1. UNCHANGED <<files, runner, forgotten>> /\ jobs' = [jobs EXCEPT ![j].state = s]
    BY <1>3 DEF ServiceDecides
  <2>2. DOMAIN jobs' = DOMAIN jobs /\ \A l \in DOMAIN jobs : jobs'[l].doc = jobs[l].doc
    BY <2>1 DEF LabInv, LabTypes, JobRecords
  <2> QED BY <2>1, <2>2, QuietSteps
<1>4. \/ \E p \in Runners : RunnerStep(p)
      \/ \E j \in DOMAIN jobs, s \in {"succeeded", "failed"} : ServiceDecides(j, s)
      \/ UNCHANGED <<files, jobs, runner, forgotten>>
  BY DEF Next, LabStep, EditManifest, Decide, labVars, files
<1> QED BY <1>1, <1>2, <1>3, <1>4

(* With one evaluation at a time a remote job is submitted once for a      *)
(* document as soon as its mark is begun: whatever interrupts the process  *)
(* or fails, the next one finds the mark or the files.  Not covered is a   *)
(* job lost before that: the process ended, the answer of the accepted     *)
(* submission was lost, or the mark could not be opened (submit,           *)
(* _evaluate_one, get_pending, put_pending, ParseCache.get).               *)
THEOREM BoughtOnceCorrect == Spec => []JobsAreNotBoughtTwice
<1> DEFINE Alone == Cardinality(Runners) = 1
           Once == Alone => PaidOnce
<1>1. Alone => \E only : Runners = {only}
  BY RunnersAreFinite, FS_Singleton
<1>2. Init => Once
  <2> SUFFICES ASSUME Init PROVE PaidOnce
    OBVIOUS
  <2> QED BY DEF Init, LabInit, PaidOnce, FilesInPlace, AtRest, At
<1>3. LabInv /\ Once /\ [Next]_<<labVars, feedbackVars>> => Once'
  BY <1>1, PaidOnceStep
<1>4. Once => JobsAreNotBoughtTwice
  <2> SUFFICES ASSUME PaidOnce, NEW d \in Docs
               PROVE  Cardinality({j \in DOMAIN jobs \ forgotten : jobs[j].doc = d}) <= 1
    BY DEF JobsAreNotBoughtTwice
  <2> DEFINE mine == {j \in DOMAIN jobs \ forgotten : jobs[j].doc = d}
  <2>1. \A j, l \in mine : j = l
    BY DEF PaidOnce
  <2>2. CASE mine = {}
    <3>1. Cardinality(mine) = 0
      BY <2>2, FS_EmptySet
    <3> QED BY <3>1
  <2>3. CASE mine # {}
    <3>1. PICK j : mine = {j}
      BY <2>1, <2>3
    <3>2. Cardinality(mine) = 1
      BY <3>1, FS_Singleton
    <3> QED BY <3>2
  <2> QED BY <2>2, <2>3
<1> QED BY <1>2, <1>3, <1>4, LabInvariant, PTL DEF Spec

-----------------------------------------------------------------------------
(* Promotion.  The totals of the measures are numbers.                     *)

LEMMA TotalIsASum ==
    ASSUME NEW f, IsFiniteSet(DOMAIN f)
    PROVE  Total(f) = SumOver(f, DOMAIN f)
<1> DEFINE iter[s \in SUBSET DOMAIN f] ==
                IF s = {} THEN 0 ELSE LET x == CHOOSE x \in s : TRUE IN f[x] + iter[s \ {x}]
<1>1. PICK F : Sums(F, f, DOMAIN f)
  BY SumsExist
<1>2. iter = [s \in SUBSET DOMAIN f |->
                IF s = {} THEN 0 ELSE LET x == CHOOSE x \in s : TRUE IN f[x] + iter[s \ {x}]]
  BY <1>1 DEF Sums
<1>3. Total(f) = iter[DOMAIN f]
  BY DEF Total, MapThenSumSet, MapThenFoldSet
<1> HIDE DEF iter
<1>4. Sums(iter, f, DOMAIN f)
  BY <1>2 DEF Sums
<1> QED BY <1>3, <1>4, AnySum

LEMMA TotalType ==
    ASSUME NEW f, IsFiniteSet(DOMAIN f), \A j \in DOMAIN f : f[j] \in Int
    PROVE  Total(f) \in Int
  BY TotalIsASum, SumType

LEMMA LineKeysAreFinite ==
    ASSUME NEW doc, IsFiniteSet(DOMAIN doc.lines)
    PROVE  IsFiniteSet(LineKeys(doc))
<1> DEFINE key == [j \in DOMAIN doc.lines |-> doc.lines[j].key]
<1>1. key \in Surjection(DOMAIN doc.lines, LineKeys(doc))
  BY DEF Surjection, LineKeys
<1> QED BY <1>1, FS_Surjection

LEMMA CountsAreNumbers ==
    ASSUME NEW predicted, NEW gold, NEW evidence,
           IsFiniteSet(DOMAIN predicted.lines), IsFiniteSet(DOMAIN gold.lines)
    PROVE  LET c == CompareDocuments(predicted, gold, evidence)
           IN  /\ c.correct \in Int /\ c.total \in Nat /\ c.matched \in Nat /\ c.missing \in Nat
               /\ c.extra \in Nat /\ c.evidenceCovered \in Nat /\ c.evidenceTotal \in Nat
<1> DEFINE matched    == LineKeys(predicted) \cap LineKeys(gold)
           wrong      == {f \in HeaderFields : predicted.header[f] # gold.header[f]}
           wrongLines == {k \in matched : LineOf(predicted, k) # LineOf(gold, k)}
           fields     == {<<f>> : f \in HeaderFields}
           wanted     == fields \cup (matched \X LineFields)
           c          == CompareDocuments(predicted, gold, evidence)
<1>1. IsFiniteSet(LineKeys(predicted)) /\ IsFiniteSet(LineKeys(gold)) /\ IsFiniteSet(HeaderFields)
  BY LineKeysAreFinite, DocumentsAreFinite
<1>2. IsFiniteSet(matched) /\ IsFiniteSet(wrong) /\ IsFiniteSet(wrongLines)
  BY <1>1, FS_Subset
<1>3. IsFiniteSet(fields)
  <2> DEFINE path == [f \in HeaderFields |-> <<f>>]
  <2>1. path \in Surjection(HeaderFields, fields)
    BY DEF Surjection
  <2> HIDE DEF path
  <2> QED BY <1>1, <2>1, FS_Surjection
<1>4. IsFiniteSet(LineFields)
  <2>1. LineFields = {"key"} \cup {"qty"}
    BY DEF LineFields
  <2> QED BY <2>1, FS_Singleton, FS_Union
<1>5. IsFiniteSet(matched \X LineFields)
  BY <1>2, <1>4, FS_Product
<1>6. IsFiniteSet(wanted) /\ IsFiniteSet(wanted \cap evidence)
  <2>1. IsFiniteSet(wanted)
    <3> HIDE DEF fields, matched
    <3> QED BY <1>3, <1>5, FS_Union
  <2> QED BY <2>1, FS_Subset
<1>7. IsFiniteSet(LineKeys(gold) \ matched) /\ IsFiniteSet(LineKeys(predicted) \ matched)
  BY <1>1, FS_Subset
<1>8. /\ c.correct = Cardinality(wanted) - Cardinality(wrong) - Cardinality(wrongLines)
      /\ c.total = Cardinality(wanted) /\ c.matched = Cardinality(matched)
      /\ c.missing = Cardinality(LineKeys(gold) \ matched)
      /\ c.extra = Cardinality(LineKeys(predicted) \ matched)
      /\ c.evidenceCovered = Cardinality(wanted \cap evidence)
      /\ c.evidenceTotal = Cardinality(wanted)
  BY DEF CompareDocuments
<1>9. /\ Cardinality(wanted) \in Nat /\ Cardinality(wrong) \in Nat
      /\ Cardinality(wrongLines) \in Nat /\ Cardinality(matched) \in Nat
      /\ Cardinality(LineKeys(gold) \ matched) \in Nat
      /\ Cardinality(LineKeys(predicted) \ matched) \in Nat
      /\ Cardinality(wanted \cap evidence) \in Nat
  <2> HIDE DEF wanted, wrong, wrongLines, matched
  <2> QED BY <1>2, <1>6, <1>7, FS_CardinalityType
<1> HIDE DEF wanted, wrong, wrongLines, matched, c
<1>10. c.correct \in Int
  BY <1>8, <1>9
<1> QED BY <1>8, <1>9, <1>10 DEF c

LEMMA FindingsAreCounted ==
    ASSUME NEW e \in Findings
    PROVE  /\ e.counts.correct \in Int /\ e.counts.total \in Int /\ e.counts.matched \in Int
           /\ e.counts.missing + e.counts.extra \in Int
           /\ e.counts.evidenceCovered \in Int /\ e.counts.evidenceTotal \in Int
<1>1. \/ \E o \in Outputs, d \in Docs :
             e.counts = CompareDocuments(o.document, Gold[d], o.evidence)
      \/ \E d \in Docs : e.counts = CompareDocuments(NoPrediction, Gold[d], {})
  BY DEF Findings
<1>2. CASE \E o \in Outputs, d \in Docs :
              e.counts = CompareDocuments(o.document, Gold[d], o.evidence)
  <2>1. PICK o \in Outputs, d \in Docs :
            e.counts = CompareDocuments(o.document, Gold[d], o.evidence)
    BY <1>2
  <2>2. IsFiniteSet(DOMAIN o.document.lines) /\ IsFiniteSet(DOMAIN Gold[d].lines)
    BY DocumentsAreFinite DEF Outputs
  <2> DEFINE c == CompareDocuments(o.document, Gold[d], o.evidence)
  <2>3. /\ c.correct \in Int /\ c.total \in Nat /\ c.matched \in Nat /\ c.missing \in Nat
        /\ c.extra \in Nat /\ c.evidenceCovered \in Nat /\ c.evidenceTotal \in Nat
    BY <2>2, CountsAreNumbers
  <2> HIDE DEF c
  <2> QED BY <2>1, <2>3 DEF c
<1>3. CASE \E d \in Docs : e.counts = CompareDocuments(NoPrediction, Gold[d], {})
  <2>1. PICK d \in Docs : e.counts = CompareDocuments(NoPrediction, Gold[d], {})
    BY <1>3
  <2>2. DOMAIN NoPrediction.lines = {} /\ IsFiniteSet(DOMAIN Gold[d].lines)
    BY DocumentsAreFinite DEF NoPrediction
  <2> DEFINE c == CompareDocuments(NoPrediction, Gold[d], {})
  <2>3. /\ c.correct \in Int /\ c.total \in Nat /\ c.matched \in Nat /\ c.missing \in Nat
        /\ c.extra \in Nat /\ c.evidenceCovered \in Nat /\ c.evidenceTotal \in Nat
    BY <2>2, FS_EmptySet, CountsAreNumbers
  <2> HIDE DEF c
  <2> QED BY <2>1, <2>3 DEF c
<1> QED BY <1>1, <1>2, <1>3

Measures == {"accuracy", "lineF1", "evidence"}
IsRate(x) == x[1] \in Int /\ x[2] \in Int

LEMMA RatesAreRates ==
    ASSUME NEW part \in Int, NEW whole \in Int
    PROVE  IsRate(Rate(part, whole))
  BY DEF IsRate, Rate

LEMMA SummariesAreRates ==
    ASSUME NEW list \in Seq(Findings)
    PROVE  \A m \in Measures : IsRate(Summarize(list)[m])
<1> DEFINE correct  == Total([j \in DOMAIN list |-> list[j].counts.correct])
           total    == Total([j \in DOMAIN list |-> list[j].counts.total])
           matched  == Total([j \in DOMAIN list |-> list[j].counts.matched])
           others   == Total([j \in DOMAIN list |-> list[j].counts.missing + list[j].counts.extra])
           covered  == Total([j \in DOMAIN list |-> list[j].counts.evidenceCovered])
           evidence == Total([j \in DOMAIN list |-> list[j].counts.evidenceTotal])
           new      == Summarize(list)
<1>1. DOMAIN list = 1 .. Len(list) /\ Len(list) \in Nat /\ \A j \in DOMAIN list : list[j] \in Findings
  OBVIOUS
<1>2. IsFiniteSet(DOMAIN list)
  BY <1>1, FS_Interval
<1>3. /\ correct \in Int /\ total \in Int /\ matched \in Int /\ others \in Int
      /\ covered \in Int /\ evidence \in Int
  <2>1. ASSUME NEW f, DOMAIN f = DOMAIN list, \A j \in DOMAIN list : f[j] \in Int
        PROVE  Total(f) \in Int
    BY <1>2, <2>1, TotalType
  <2> QED BY <1>1, <2>1, FindingsAreCounted
<1>4. /\ new.accuracy = IF list = <<>> THEN NoRate ELSE Rate(correct, total)
      /\ new.lineF1 = IF list = <<>> THEN NoRate ELSE Rate(2 * matched, 2 * matched + others)
      /\ new.evidence = IF list = <<>> THEN NoRate ELSE Rate(covered, evidence)
  BY DEF Summarize
<1> HIDE DEF correct, total, matched, others, covered, evidence, new
<1>5. 2 * matched \in Int /\ 2 * matched + others \in Int
  BY <1>3
<1>6. IsRate(NoRate)
  BY DEF IsRate, NoRate
<1>7. IsRate(new.accuracy) /\ IsRate(new.lineF1) /\ IsRate(new.evidence)
  BY <1>3, <1>4, <1>5, <1>6, RatesAreRates
<1> QED BY <1>7 DEF new, Measures

-----------------------------------------------------------------------------
\* What a recommendation says of the two runs.
LEMMA RecommendedMeans ==
    ASSUME NEW b, NEW c, NEW same, NEW t, DecidePromotion(b, c, same, t) = "recommended"
    PROVE  LET old == Summarize(b.evaluations)
               new == Summarize(c.evaluations)
           IN  /\ same /\ b.status = "completed" /\ c.status = "completed"
               /\ AtLeast(new.valid, t.validFloor)
               /\ \A m \in Measures : AtLeast(new[m], old[m])
               /\ \A limit \in t.costLimit : WithinBudget(new, limit)
<1> DEFINE checks == Checks(b, c, same, t)
           old == Summarize(b.evaluations)
           new == Summarize(c.evaluations)
           complete == b.status = "completed" /\ c.status = "completed"
<1>1. \A x \in checks : x.passed
  BY DEF DecidePromotion, OutcomeOf
<1>2. /\ Check("dataset_identity", same, FALSE, ~same) \in checks
      /\ Check("runs_complete", complete, FALSE, ~complete) \in checks
  BY DEF Checks
<1>3. same /\ complete
  BY <1>1, <1>2 DEF Check
<1>4. MeasureChecks(b, c, t) \subseteq checks
  BY <1>3 DEF Checks
<1> DEFINE noWorse(n, o) == AtLeast(n, o) /\ AtLeast(n, t.floor)
<1>5. /\ Check("schema_valid_rate", AtLeast(new.valid, t.validFloor), TRUE, FALSE) \in checks
      /\ Check("field_accuracy", noWorse(new.accuracy, old.accuracy), FALSE, FALSE) \in checks
      /\ Check("line_item_f1", noWorse(new.lineF1, old.lineF1), FALSE, FALSE) \in checks
      /\ Check("evidence_coverage", noWorse(new.evidence, old.evidence), FALSE, FALSE) \in checks
      /\ Check("cost_limit", \A limit \in t.costLimit : WithinBudget(new, limit),
               t.costLimit # {}, t.costLimit # {} /\ new.cost = {}) \in checks
  <2> HIDE DEF checks
  <2> QED BY <1>4 DEF MeasureChecks
<1>6. /\ AtLeast(new.valid, t.validFloor) /\ noWorse(new.accuracy, old.accuracy)
      /\ noWorse(new.lineF1, old.lineF1) /\ noWorse(new.evidence, old.evidence)
      /\ \A limit \in t.costLimit : WithinBudget(new, limit)
  <2> HIDE DEF checks, noWorse, old, new
  <2> QED BY <1>1, <1>5 DEF Check
<1> HIDE DEF old, new
<1> QED BY <1>3, <1>6 DEF Measures, old, new

\* The rate of valid documents is one only if every document is valid.
LEMMA AllAreValid ==
    ASSUME NEW list \in Seq(Findings), AtLeast(Summarize(list).valid, <<1, 1>>)
    PROVE  \A j \in DOMAIN list : list[j].valid
<1> DEFINE valid == {j \in DOMAIN list : list[j].valid}
<1>1. DOMAIN list = 1 .. Len(list) /\ Len(list) \in Nat
  OBVIOUS
<1>2. IsFiniteSet(DOMAIN list) /\ Cardinality(DOMAIN list) = Len(list)
  <2> DEFINE n == Len(list)
  <2>1. /\ IsFiniteSet(1 .. n) /\ Cardinality(1 .. n) = IF 1 > n THEN 0 ELSE n - 1 + 1
    BY <1>1, FS_Interval
  <2>2. (IF 1 > n THEN 0 ELSE n - 1 + 1) = n
    BY <1>1
  <2> HIDE DEF n
  <2>3. Cardinality(1 .. n) = n
    BY <2>1, <2>2
  <2> QED BY <1>1, <2>1, <2>3 DEF n
<1>3. CASE list = <<>>
  BY <1>3
<1>4. CASE list # <<>>
  <2>1. Summarize(list).valid = <<Cardinality(valid), Len(list)>>
    BY <1>4 DEF Summarize
  <2>2. valid \in SUBSET DOMAIN list
    OBVIOUS
  <2>3. /\ Cardinality(valid) =< Cardinality(DOMAIN list) /\ Cardinality(valid) \in Nat
        /\ Cardinality(DOMAIN list) = Cardinality(valid) => DOMAIN list = valid
    <3> HIDE DEF valid
    <3> QED BY <1>2, <2>2, FS_Subset, FS_CardinalityType
  <2>4. Cardinality(valid) >= Len(list)
    <3> HIDE DEF valid
    <3> QED BY <1>1, <2>1, <2>3 DEF AtLeast
  <2>5. DOMAIN list = valid
    <3> HIDE DEF valid
    <3> QED BY <1>1, <1>2, <2>3, <2>4
  <2> QED BY <2>5
<1> QED BY <1>3, <1>4

\* A ranking that puts a run within the budget second finds it no better in any measure.
LEMMA RanksAreEarned ==
    ASSUME NEW old, NEW new, NEW limit, \A m \in Measures : IsRate(old[m]) /\ IsRate(new[m]),
           \A m \in Measures : AtLeast(new[m], old[m]),
           WithinBudget(new, limit), RanksBefore(old, new, limit)
    PROVE  \A m \in Measures : AtLeast(old[m], new[m])
<1> DEFINE Same(m) == old[m][1] * new[m][2] = new[m][1] * old[m][2]
           cheaper == \E c \in old.cost : \A d \in new.cost : Above(d, c)
<1>1. ASSUME NEW m \in Measures PROVE /\ ~Above(old[m], new[m])
                                      /\ Same(m) => AtLeast(old[m], new[m])
  <2>1. old[m][1] * new[m][2] \in Int /\ new[m][1] * old[m][2] \in Int
    BY <1>1 DEF IsRate
  <2> QED BY <1>1, <2>1 DEF Above, AtLeast
<1>2. WithinBudget(old, limit)
  BY DEF RanksBefore
<1>3. \/ Above(old.accuracy, new.accuracy)
      \/ /\ Same("accuracy")
         /\ \/ Above(old.lineF1, new.lineF1)
            \/ /\ Same("lineF1")
               /\ \/ Above(old.evidence, new.evidence)
                  \/ Same("evidence") /\ cheaper
  <2> HIDE DEF cheaper
  <2> QED BY <1>2 DEF RanksBefore, cheaper
<1>4. Same("accuracy") /\ Same("lineF1") /\ Same("evidence")
  <2> HIDE DEF cheaper, Same
  <2> QED BY <1>1, <1>3 DEF Measures
<1> QED BY <1>1, <1>4 DEF Measures

-----------------------------------------------------------------------------
\* How the rows of the runs change: no transition leaves the status of a completed one.
LEMMA HowRunsChange ==
    ASSUME LabStep
    PROVE  \/ UNCHANGED runs
           \/ \E p \in Runners, expected \in SUBSET {"queued", "running"} :
                 \E status, list : Transition(p, expected, status, list)
           \/ \E p \in Runners : \E v, limit, identity : CreateRun(p, v, limit, identity)
<1>1. ASSUME NEW p \in Runners, RunnerStep(p)
      PROVE  \/ UNCHANGED runs
             \/ \E expected \in SUBSET {"queued", "running"} :
                   \E status, list : Transition(p, expected, status, list)
             \/ \E v, limit, identity : CreateRun(p, v, limit, identity)
  <2>1. CASE \E v \in Variants, limit \in Limits, identity \in 1 .. manifest :
                CreateRun(p, v, limit, identity)
    BY <2>1
  <2>2. CASE MarkRunRunning(p) \/ FailRun(p) \/ CancelRun(p) \/ CompleteRun(p)
    <3>1. /\ MarkRunRunning(p) => Transition(p, {"queued"}, "running", <<>>)
          /\ FailRun(p) => Transition(p, {"queued", "running"}, "failed", <<>>)
          /\ CancelRun(p) => Transition(p, {"queued", "running"}, "cancelled", <<>>)
          /\ CompleteRun(p) => Transition(p, {"running"}, "completed", runner[p].done)
      BY DEF MarkRunRunning, FailRun, CancelRun, Cancelled, CompleteRun
    <3>2. {"queued"} \in SUBSET {"queued", "running"} /\ {"running"} \in SUBSET {"queued", "running"}
      OBVIOUS
    <3> QED BY <2>2, <3>1, <3>2
  <2>3. CASE CheckIdentity(p) \/ Lookup(p) \/ ResumeOrSubmit(p) \/ PutPending(p) \/ Poll(p)
    BY <2>3 DEF CheckIdentity, Lookup, ResumeOrSubmit, PutPending, Poll
  <2>4. CASE PutMetadata(p) \/ PutArchive(p) \/ RemovePending(p) \/ Normalize(p) \/ Return(p)
             \/ EvaluationFails(p) \/ Interrupt(p) \/ Die(p)
    BY <2>4 DEF PutMetadata, PutArchive, RemovePending, Normalize, Return,
                   EvaluationFails, Interrupt, Die
  <2> QED BY <1>1, <2>1, <2>2, <2>3, <2>4 DEF RunnerStep
<1> QED BY <1>1 DEF LabStep, ServiceDecides, EditManifest, Decide

\* Runs are added, never removed, and a completed one stays as it is.
LEMMA CompletedStay ==
    ASSUME LabInv, [Next]_<<labVars, feedbackVars>>, NEW r \in DOMAIN runs
    PROVE  r \in DOMAIN runs' /\ (runs[r].status = "completed" => runs'[r] = runs[r])
<1>1. runs \in Seq(RunRows)
  BY DEF LabInv, LabTypes
<1>2. ASSUME NEW p \in Runners, NEW expected \in SUBSET {"queued", "running"},
             NEW status, NEW list, Transition(p, expected, status, list)
      PROVE  r \in DOMAIN runs' /\ (runs[r].status = "completed" => runs'[r] = runs[r])
  <2>1. CASE ~InStatus(runner[p].run, expected)
    BY <1>2, <2>1 DEF Transition
  <2>2. CASE InStatus(runner[p].run, expected)
    <3>1. runs[r].status = "completed" => runner[p].run # r
      BY <2>2 DEF InStatus
    <3>2. runs' = [runs EXCEPT ![runner[p].run].status = status,
                               ![runner[p].run].evaluations = list]
      BY <1>2, <2>2 DEF Transition
    <3> QED BY <3>1, <3>2
  <2> QED BY <2>1, <2>2
<1>3. ASSUME NEW p, NEW v, NEW limit, NEW identity, CreateRun(p, v, limit, identity)
      PROVE  r \in DOMAIN runs' /\ runs'[r] = runs[r]
  <2> DEFINE new == [variant |-> v, identity |-> identity, limit |-> limit,
                     status |-> "queued", evaluations |-> <<>>]
  <2>1. runs' = Append(runs, new)
    BY <1>3 DEF CreateRun
  <2> HIDE DEF new
  <2> QED BY <1>1, <2>1
<1>4. ASSUME UNCHANGED runs PROVE r \in DOMAIN runs' /\ runs'[r] = runs[r]
  BY <1>4
<1> QED BY <1>2, <1>3, <1>4, HowRunsChange DEF Next, labVars

(* A decision names two runs, and one that recommends two completed runs   *)
(* of one dataset, of which it would be taken again.                       *)
Recommends(x) ==
    /\ runs[x.baseline].status = "completed" /\ runs[x.candidate].status = "completed"
    /\ runs[x.baseline].identity = runs[x.candidate].identity
    /\ DecidePromotion(runs[x.baseline], runs[x.candidate], TRUE, Thresholds) = "recommended"
DecisionsStand ==
    \A x \in decisions :
        /\ x.baseline \in DOMAIN runs /\ x.candidate \in DOMAIN runs
        /\ x.outcome = "recommended" => Recommends(x)

\* Only the administrator's request takes decisions.
LEMMA OnlyDecidingDecides ==
    ASSUME LabStep
    PROVE  UNCHANGED decisions \/ \E b, c \in DOMAIN runs : Decide(b, c)
<1>1. ASSUME NEW p \in Runners, RunnerStep(p) PROVE UNCHANGED decisions
  <2>1. CASE \E v \in Variants, limit \in Limits, identity \in 1 .. manifest :
                CreateRun(p, v, limit, identity)
    BY <2>1 DEF CreateRun
  <2>2. CASE MarkRunRunning(p) \/ FailRun(p) \/ CancelRun(p) \/ CompleteRun(p)
    BY <2>2 DEF MarkRunRunning, FailRun, CancelRun, CompleteRun
  <2>3. CASE CheckIdentity(p) \/ Lookup(p) \/ ResumeOrSubmit(p) \/ PutPending(p) \/ Poll(p)
    BY <2>3 DEF CheckIdentity, Lookup, ResumeOrSubmit, PutPending, Poll
  <2>4. CASE PutMetadata(p) \/ PutArchive(p) \/ RemovePending(p) \/ Normalize(p) \/ Return(p)
             \/ EvaluationFails(p) \/ Interrupt(p) \/ Die(p)
    BY <2>4 DEF PutMetadata, PutArchive, RemovePending, Normalize, Return,
                   EvaluationFails, Interrupt, Die
  <2> QED BY <1>1, <2>1, <2>2, <2>3, <2>4 DEF RunnerStep
<1> QED BY <1>1 DEF LabStep, ServiceDecides, EditManifest

LEMMA DecisionsStandStep ==
    ASSUME LabInv, DecisionsStand, [Next]_<<labVars, feedbackVars>>
    PROVE  DecisionsStand'
<1>1. ASSUME NEW r \in DOMAIN runs
      PROVE  r \in DOMAIN runs' /\ (runs[r].status = "completed" => runs'[r] = runs[r])
  BY CompletedStay
<1>2. ASSUME NEW x, x.baseline \in DOMAIN runs, x.candidate \in DOMAIN runs,
             x.outcome = "recommended" => Recommends(x)
      PROVE  /\ x.baseline \in DOMAIN runs' /\ x.candidate \in DOMAIN runs'
             /\ x.outcome = "recommended" => Recommends(x)'
  <2>1. x.baseline \in DOMAIN runs' /\ x.candidate \in DOMAIN runs'
    BY <1>1, <1>2
  <2>2. ASSUME x.outcome = "recommended" PROVE Recommends(x)'
    <3>1. Recommends(x)
      BY <1>2, <2>2
    <3>2. runs'[x.baseline] = runs[x.baseline] /\ runs'[x.candidate] = runs[x.candidate]
      BY <1>1, <1>2, <3>1 DEF Recommends
    <3> QED BY <3>1, <3>2 DEF Recommends
  <2> QED BY <2>1, <2>2
<1>3. ASSUME NEW b \in DOMAIN runs, NEW c \in DOMAIN runs, Decide(b, c) PROVE DecisionsStand'
  <2> DEFINE x == [baseline |-> b, candidate |-> c,
                   outcome |-> DecidePromotion(runs[b], runs[c],
                                               runs[b].identity = runs[c].identity, Thresholds)]
  <2>1. decisions' = decisions \cup {x}
    BY <1>3 DEF Decide
  <2>2. x.baseline = b /\ x.candidate = c
    OBVIOUS
  <2>3. ASSUME x.outcome = "recommended" PROVE Recommends(x)
    <3> DEFINE same == runs[b].identity = runs[c].identity
    <3>1. DecidePromotion(runs[b], runs[c], same, Thresholds) = "recommended"
      BY <2>3
    <3>2. same \in BOOLEAN
      OBVIOUS
    <3> HIDE DEF same, x
    <3>3. same /\ runs[b].status = "completed" /\ runs[c].status = "completed"
      BY <3>1, RecommendedMeans
    <3>4. same = TRUE
      BY <3>2, <3>3
    <3>5. DecidePromotion(runs[b], runs[c], TRUE, Thresholds) = "recommended"
      BY <3>1, <3>4
    <3> QED BY <2>2, <3>3, <3>5 DEF Recommends, same
  <2> HIDE DEF x
  <2>4. \A y \in decisions' : y \in decisions \/ y = x
    BY <2>1
  <2>5. ASSUME NEW y \in decisions'
        PROVE  /\ y.baseline \in DOMAIN runs' /\ y.candidate \in DOMAIN runs'
               /\ y.outcome = "recommended" => Recommends(y)'
    <3>1. CASE y \in decisions
      BY <1>2, <3>1 DEF DecisionsStand
    <3>2. CASE y = x
      BY <1>2, <2>2, <2>3, <3>2
    <3> QED BY <2>4, <3>1, <3>2
  <2> QED BY <2>5 DEF DecisionsStand
<1>4. ASSUME UNCHANGED decisions PROVE DecisionsStand'
  BY <1>2, <1>4 DEF DecisionsStand
<1>5. LabStep => UNCHANGED decisions \/ \E b, c \in DOMAIN runs : Decide(b, c)
  BY OnlyDecidingDecides
<1> QED BY <1>3, <1>4, <1>5 DEF Next, labVars

(* A recommendation stays founded: its runs are completed, are of one      *)
(* dataset and stay as they were, the decision would be taken again, the   *)
(* candidate is no worse in any measure, and the ranking by cost and       *)
(* quality does not prefer the baseline unless all qualities are equal;    *)
(* for any documents, thresholds and number of runs (decide_promotion,     *)
(* rank_variants).                                                         *)
THEOREM RecommendationsCorrect == Spec => []RecommendationsAreFounded
<1>1. Init => DecisionsStand
  BY DEF Init, LabInit, DecisionsStand
<1>2. LabInv /\ DecisionsStand /\ [Next]_<<labVars, feedbackVars>> => DecisionsStand'
  BY DecisionsStandStep
<1>3. LabInv /\ DecisionsStand => RecommendationsAreFounded
  <2> SUFFICES ASSUME LabInv, DecisionsStand, NEW x \in decisions, x.outcome = "recommended"
               PROVE  LET b == runs[x.baseline]
                          c == runs[x.candidate]
                          old == Summarize(b.evaluations)
                          new == Summarize(c.evaluations)
                      IN  /\ b.status = "completed" /\ c.status = "completed"
                          /\ b.identity = c.identity
                          /\ DecidePromotion(b, c, TRUE, Thresholds) = "recommended"
                          /\ Thresholds.validFloor = <<1, 1>> =>
                                \A j \in DOMAIN c.evaluations : c.evaluations[j].valid
                          /\ \A m \in {"accuracy", "lineF1", "evidence"} : AtLeast(new[m], old[m])
                          /\ \A limit \in Thresholds.costLimit :
                                RanksBefore(old, new, limit) =>
                                    \A m \in {"accuracy", "lineF1", "evidence"} :
                                        AtLeast(old[m], new[m])
    BY DEF RecommendationsAreFounded
  <2> DEFINE b == runs[x.baseline]
             c == runs[x.candidate]
             old == Summarize(b.evaluations)
             new == Summarize(c.evaluations)
  <2>1. x.baseline \in DOMAIN runs /\ x.candidate \in DOMAIN runs /\ Recommends(x)
    BY DEF DecisionsStand
  <2>2. b.evaluations \in Seq(Findings) /\ c.evaluations \in Seq(Findings)
    <3>1. runs \in Seq(RunRows)
      BY DEF LabInv, LabTypes
    <3>2. b \in RunRows /\ c \in RunRows
      BY <2>1, <3>1
    <3> HIDE DEF b, c
    <3> QED BY <3>2 DEF RunRows
  <2>3. /\ AtLeast(new.valid, Thresholds.validFloor)
        /\ \A m \in Measures : AtLeast(new[m], old[m])
        /\ \A limit \in Thresholds.costLimit : WithinBudget(new, limit)
    <3>1. DecidePromotion(b, c, TRUE, Thresholds) = "recommended"
      BY <2>1 DEF Recommends
    <3> HIDE DEF b, c
    <3> QED BY <3>1, RecommendedMeans DEF Measures
  <2>4. \A m \in Measures : IsRate(old[m]) /\ IsRate(new[m])
    BY <2>2, SummariesAreRates
  <2>5. Thresholds.validFloor = <<1, 1>> => \A j \in DOMAIN c.evaluations : c.evaluations[j].valid
    BY <2>2, <2>3, AllAreValid
  <2>6. ASSUME NEW limit \in Thresholds.costLimit, RanksBefore(old, new, limit)
        PROVE  \A m \in Measures : AtLeast(old[m], new[m])
    <3> HIDE DEF old, new
    <3> QED BY <2>3, <2>4, <2>6, RanksAreEarned
  <2> HIDE DEF old, new
  <2> QED BY <2>1, <2>3, <2>5, <2>6 DEF Recommends, Measures, old, new
<1> QED BY <1>1, <1>2, <1>3, LabInvariant, PTL DEF Spec
=============================================================================
