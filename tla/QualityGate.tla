---------------------------- MODULE QualityGate ----------------------------
(***************************************************************************)
(* The measures of an extraction experiment and the rules that turn two    *)
(* measured runs into a promotion decision:                                *)
(* app/evaluation/field_metrics.py, _summarize of app/evaluation/runner.py,*)
(* app/evaluation/comparison.py, app/experiments/slicing.py and            *)
(* app/experiments/promotion.py.                                           *)
(*                                                                         *)
(* A document is [header, lines]: header maps a field to its value, "none" *)
(* when absent; a line is [key, qty], its key the normalized SKU or else   *)
(* description.  Rates are fractions <<numerator, denominator>>.  Costs    *)
(* are sets of at most one number, the empty one being unknown.            *)
(***************************************************************************)
EXTENDS Integers, Sequences, FiniteSets, FiniteSetsExt

CONSTANT HeaderFields

LineFields == {"key", "qty"}

NoPrediction == [header |-> [f \in HeaderFields |-> "none"], lines |-> <<>>]

-----------------------------------------------------------------------------
(* compare_documents.                                                      *)

LineKeys(doc) == {doc.lines[j].key : j \in DOMAIN doc.lines}

\* Lines are collected in a dict: of several with one key the last one counts.
LineOf(doc, key) ==
    doc.lines[CHOOSE j \in DOMAIN doc.lines :
                 /\ doc.lines[j].key = key
                 /\ \A l \in DOMAIN doc.lines : doc.lines[l].key = key => l <= j]

\* Only the fields of lines that both sides have enter the totals.
CompareDocuments(predicted, gold, evidence) ==
    LET matched == LineKeys(predicted) \cap LineKeys(gold)
        wrong   == {f \in HeaderFields : predicted.header[f] # gold.header[f]}
        wrongLines == {k \in matched : LineOf(predicted, k) # LineOf(gold, k)}
        wanted  == {<<f>> : f \in HeaderFields} \cup (matched \X LineFields)
    IN  [correct |-> Cardinality(wanted) - Cardinality(wrong) - Cardinality(wrongLines),
         total   |-> Cardinality(wanted),
         matched |-> Cardinality(matched),
         missing |-> Cardinality(LineKeys(gold) \ matched),
         extra   |-> Cardinality(LineKeys(predicted) \ matched),
         evidenceCovered |-> Cardinality(wanted \cap evidence),
         evidenceTotal   |-> Cardinality(wanted),
         wrongFields     |-> wrong,
         wrongLines      |-> Cardinality(wrongLines)]

-----------------------------------------------------------------------------
(* _summarize: an evaluation of a document is [valid, cost, counts, kind]. *)

\* Of one number for each evaluation.
Total(numbers) == MapThenSumSet(LAMBDA j : numbers[j], DOMAIN numbers)

Known(evaluations) == {j \in DOMAIN evaluations : evaluations[j].cost # {}}
Rate(part, whole)  == IF whole = 0 THEN <<1, 1>> ELSE <<part, whole>>
NoRate             == <<0, 1>>

Summarize(evaluations) ==
    LET sum(C(_)) == Total([j \in DOMAIN evaluations |-> C(evaluations[j].counts)])
        matched   == sum(LAMBDA c : c.matched)
        empty     == evaluations = <<>>
    IN  [count    |-> Len(evaluations),
         valid    |-> IF empty THEN NoRate
                      ELSE <<Cardinality({j \in DOMAIN evaluations : evaluations[j].valid}),
                             Len(evaluations)>>,
         accuracy |-> IF empty THEN NoRate
                      ELSE Rate(sum(LAMBDA c : c.correct), sum(LAMBDA c : c.total)),
         lineF1   |-> IF empty THEN NoRate
                      ELSE Rate(2 * matched,
                                2 * matched + sum(LAMBDA c : c.missing + c.extra)),
         evidence |-> IF empty THEN NoRate
                      ELSE Rate(sum(LAMBDA c : c.evidenceCovered),
                                sum(LAMBDA c : c.evidenceTotal)),
         \* The average over the documents whose cost is known.
         cost     |-> IF Known(evaluations) = {} THEN {}
                      ELSE {<<MapThenSumSet(LAMBDA j : CHOOSE n \in evaluations[j].cost : TRUE,
                                            Known(evaluations)),
                              Cardinality(Known(evaluations))>>}]

AtLeast(a, b) == a[1] * b[2] >= b[1] * a[2]
Above(a, b)   == a[1] * b[2] > b[1] * a[2]

(* rank_variants: within the budget first, then by quality, then by cost.  *)
WithinBudget(summary, limit) == \E c \in summary.cost : AtLeast(limit, c)
RanksBefore(a, b, limit) ==
    LET better(f, g, otherwise) == Above(f, g) \/ (f[1] * g[2] = g[1] * f[2] /\ otherwise)
        cheaper == \E c \in a.cost : \A d \in b.cost : Above(d, c)
        quality == better(a.accuracy, b.accuracy,
                      better(a.lineF1, b.lineF1,
                         better(a.evidence, b.evidence, cheaper)))
    IN  IF WithinBudget(a, limit) = WithinBudget(b, limit) THEN quality
        ELSE WithinBudget(a, limit)

-----------------------------------------------------------------------------
(* build_error_slices: the errors of one slice, over all documents.        *)

GroupOf(f) == IF f \in {"total"} THEN "amount" ELSE "identity"

DocumentErrors(e) ==
    Cardinality(e.counts.wrongFields) + e.counts.wrongLines + e.counts.missing
        + e.counts.extra + (IF e.valid THEN 0 ELSE 1)

SliceErrors(slice, evaluations) ==
    LET count(e) ==
          CASE slice = "schema_failure"   -> IF e.valid THEN 0 ELSE 1
            [] slice = "missing_line"     -> e.counts.missing
            [] slice = "extra_line"       -> e.counts.extra
            [] slice = "line_item"        -> e.counts.wrongLines
            [] slice = "evidence_missing" ->
                   e.counts.evidenceTotal - e.counts.evidenceCovered
            [] slice \in {"identity", "amount"} ->
                   Cardinality({f \in e.counts.wrongFields : GroupOf(f) = slice})
            [] OTHER -> IF e.kind = slice THEN DocumentErrors(e) ELSE 0
    IN  Total([j \in DOMAIN evaluations |-> count(evaluations[j])])

-----------------------------------------------------------------------------
(* _build_checks and decide_promotion.  A completed run has a summary.     *)

\* Errors at a critical path; a line that is missing or too many has none.
CriticalErrors(evaluations, critical) ==
    Total([j \in DOMAIN evaluations |->
              LET counts == evaluations[j].counts
              IN  Cardinality(counts.wrongFields \cap critical)
                     + (IF "items" \in critical THEN counts.wrongLines ELSE 0)])

Check(name, passed, hard, missing) ==
    [name |-> name, passed |-> passed, hard |-> hard, missing |-> missing]

Improved(baseline, candidate, thresholds) ==
    IF thresholds.targets # {}
    THEN \E s \in thresholds.targets :
            SliceErrors(s, candidate.evaluations) < SliceErrors(s, baseline.evaluations)
    ELSE LET b == Summarize(baseline.evaluations)
             c == Summarize(candidate.evaluations)
         IN  \/ Above(c.accuracy, b.accuracy)
             \/ Above(c.lineF1, b.lineF1)
             \/ Above(c.evidence, b.evidence)

MeasureChecks(baseline, candidate, thresholds) ==
    LET b == Summarize(baseline.evaluations)
        c == Summarize(candidate.evaluations)
        noWorse(new, old, floor) == AtLeast(new, old) /\ AtLeast(new, floor)
        limited == thresholds.costLimit # {}
    IN  {Check("schema_valid_rate", AtLeast(c.valid, thresholds.validFloor), TRUE, FALSE),
         Check("critical_fields",
               CriticalErrors(candidate.evaluations, thresholds.critical)
                   <= CriticalErrors(baseline.evaluations, thresholds.critical), TRUE, FALSE),
         Check("field_accuracy", noWorse(c.accuracy, b.accuracy, thresholds.floor),
               FALSE, FALSE),
         Check("line_item_f1", noWorse(c.lineF1, b.lineF1, thresholds.floor), FALSE, FALSE),
         Check("evidence_coverage", noWorse(c.evidence, b.evidence, thresholds.floor),
               FALSE, FALSE),
         Check("cost_known", c.cost # {} \/ ~thresholds.costRequired, FALSE,
               thresholds.costRequired /\ c.cost = {}),
         Check("cost_limit",
               \A limit \in thresholds.costLimit : WithinBudget(c, limit),
               limited, limited /\ c.cost = {}),
         Check("target_slice_improved", Improved(baseline, candidate, thresholds),
               FALSE, FALSE)}

Checks(baseline, candidate, sameDataset, thresholds) ==
    LET complete == baseline.status = "completed" /\ candidate.status = "completed"
    IN  {Check("dataset_identity", sameDataset, FALSE, ~sameDataset),
         Check("runs_complete", complete, FALSE, ~complete)}
            \cup (IF complete THEN MeasureChecks(baseline, candidate, thresholds) ELSE {})

\* MUTANT: only the hard gates count.
HardGatesOnly(checks) ==
    IF \E c \in checks : ~c.passed /\ c.missing THEN "inconclusive"
    ELSE IF \E c \in checks : ~c.passed /\ c.hard THEN "rejected"
    ELSE "recommended"

OutcomeOf(checks) ==
    IF \E c \in checks : ~c.passed /\ c.missing THEN "inconclusive"
    ELSE IF \E c \in checks : ~c.passed /\ (c.hard \/ c.name # "target_slice_improved")
    THEN "rejected"
    ELSE IF \E c \in checks : ~c.passed THEN "inconclusive"
    ELSE "recommended"

DecidePromotion(baseline, candidate, sameDataset, thresholds) ==
    OutcomeOf(Checks(baseline, candidate, sameDataset, thresholds))
=============================================================================
