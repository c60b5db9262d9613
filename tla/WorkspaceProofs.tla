--------------------------- MODULE WorkspaceProofs ---------------------------
(***************************************************************************)
(* Proofs about the workspace, for every value of the constants: first who *)
(* holds which records and what a command may do, then that what was read  *)
(* or computed earlier is still true when it is used.                      *)
(***************************************************************************)
EXTENDS WorkspaceProperties, SequenceTheorems, TLAPS

ReviewStates == {"open", "investigating", "completed"}

-----------------------------------------------------------------------------
(* Selections.                                                             *)

\* A proposal only selects among the records it was given.
LEMMA SelectionAmongNotes ==
    ASSUME NEW inv, NEW notes, NEW used
    PROVE  SelectCandidates(inv, notes, used).selected \subseteq DOMAIN notes
  BY DEF SelectCandidates

\* An input only offers records: those that are ready, or a manual choice.
InputAmongNotes(input) ==
    /\ {"notes", "manual"} \subseteq DOMAIN input
    /\ DOMAIN input.notes \subseteq Notes
    /\ \A S \in input.manual : S \subseteq Notes

LEMMA ProposalAmongNotes ==
    ASSUME NEW input, InputAmongNotes(input)
    PROVE  ProposalOf(input).selected \subseteq Notes
  <1>1. CASE input.manual = {}
    <2>1. ProposalOf(input) =
            SelectCandidates(input.invoice.payload, Payloads(input.notes), input.used)
      BY <1>1 DEF ProposalOf
    <2>2. DOMAIN Payloads(input.notes) = DOMAIN input.notes
      BY DEF Payloads
    <2>. QED BY <2>1, <2>2, SelectionAmongNotes DEF InputAmongNotes
  <1>2. CASE input.manual # {}
    <2>1. (CHOOSE S \in input.manual : TRUE) \in input.manual
      BY <1>2
    <2>. QED BY <1>2, <2>1 DEF ProposalOf, InputAmongNotes
  <1>. QED BY <1>1, <1>2

\* The worker only holds inputs and proposals of that kind.
WorkerAmongNotes ==
    /\ worker = [stage |-> worker.stage, inputs |-> worker.inputs]
    /\ worker.stage = "listed" => \A input \in worker.inputs : InputAmongNotes(input)
    /\ worker.stage = "computed" =>
          \A work \in worker.inputs : work.proposal.selected \subseteq Notes

SelectionsTyped == selected \in [Invoices -> SUBSET Notes] /\ WorkerAmongNotes

LEMMA InputOfAmongNotes ==
    ASSUME SelectionsTyped, NEW i \in Invoices
    PROVE  InputAmongNotes(InputOf(i))
  BY DEF SelectionsTyped, InputAmongNotes, InputOf, ReadyNotes

LEMMA SelectionsTypedInit == Init => SelectionsTyped
  BY DEF Init, SelectionsTyped, WorkerAmongNotes, Idle

LEMMA SelectionsTypedNext == SelectionsTyped /\ [Next]_vars => SelectionsTyped'
  <1>. SUFFICES ASSUME SelectionsTyped, [Next]_vars PROVE SelectionsTyped'
    OBVIOUS
  <1>. USE DEF SelectionsTyped
  <1>1. CASE UserStep \/ SourceStep \/ FaultStep
    <2>1. ASSUME NEW k \in Keys, NEW i \in Invoices, NEW ids \in SUBSET Notes,
                 SelectNotes(k, i, ids)
          PROVE  SelectionsTyped'
      BY <2>1 DEF SelectNotes, actorVars, WorkerAmongNotes
    <2>2. ASSUME UNCHANGED <<selected, worker>> PROVE SelectionsTyped'
      BY <2>2 DEF WorkerAmongNotes
    <2>3. ASSUME WorkerCrash \/ \E i \in Invoices : MarkLost(i) PROVE SelectionsTyped'
      BY <2>3 DEF WorkerCrash, MarkLost, invoiceVars, WorkerAmongNotes, Idle
    <2>4. UserStep => UNCHANGED <<selected, worker>>
                      \/ \E k \in Keys, i \in Invoices : \E ids \in SUBSET Notes :
                            SelectNotes(k, i, ids)
      BY DEF UserStep, Upload, CommandStep, Intake, OpenDocument, EditDocument, Investigate, Confirm,
             ConfirmRefusedStale, MarkStale, Reopen, ClaimsWithout, VoidDocument, RetryExtraction,
             invoiceVars, actorVars
    <2>5. SourceStep => UNCHANGED <<selected, worker>>
      BY DEF SourceStep, StoreDraft, DecideRun, ImportVersion, invoiceVars, actorVars
    <2>. QED BY <1>1, <2>1, <2>2, <2>3, <2>4, <2>5 DEF FaultStep
  <1>2. ASSUME NEW failing \in SUBSET Docs, SyncSources(failing) PROVE SelectionsTyped'
    BY <1>2 DEF SyncSources, WorkerAmongNotes, Idle
  <1>3. CASE ListPending
    <2>1. \A i \in PendingPreviews : InputAmongNotes(InputOf(i))
      BY InputOfAmongNotes DEF PendingPreviews
    <2>. QED BY <1>3, <2>1 DEF ListPending, invoiceVars, WorkerAmongNotes, Idle
  <1>4. CASE ReadAndCompute
    <2>. DEFINE refreshed == {[listed EXCEPT !.gen = generation, !.used = Used] :
                                 listed \in worker.inputs}
    <2>1. \A input \in refreshed : ProposalOf(input).selected \subseteq Notes
      <3>. SUFFICES ASSUME NEW listed \in worker.inputs
                    PROVE  LET input == [listed EXCEPT !.gen = generation, !.used = Used]
                           IN  ProposalOf(input).selected \subseteq Notes
        OBVIOUS
      <3>1. InputAmongNotes(listed)
        BY <1>4 DEF ReadAndCompute, WorkerAmongNotes
      <3>2. InputAmongNotes([listed EXCEPT !.gen = generation, !.used = Used])
        BY <3>1 DEF InputAmongNotes
      <3>. QED BY <3>2, ProposalAmongNotes
    <2>2. /\ worker'.stage = "computed"
          /\ worker'.inputs = {[input |-> input, proposal |-> ProposalOf(input),
                                compared |-> ComparisonOf(input, ProposalOf(input).selected)] :
                                  input \in refreshed}
          /\ worker' = [stage |-> worker'.stage, inputs |-> worker'.inputs]
          /\ selected' = selected
      BY <1>4 DEF ReadAndCompute, invoiceVars
    <2>. HIDE DEF refreshed
    <2>3. \A work \in worker'.inputs : work.proposal.selected \subseteq Notes
      BY <2>1, <2>2
    <2>. QED BY <2>2, <2>3 DEF WorkerAmongNotes
  <1>5. ASSUME NEW work \in worker.inputs, SavePreview(work) PROVE SelectionsTyped'
    <2>. DEFINE ids == work.proposal.selected
    <2>1. selected' = [selected EXCEPT ![work.input.id] = ids] /\ ids \in SUBSET Notes
      BY <1>5 DEF SavePreview, WorkerAmongNotes
    <2>2. WorkerAmongNotes'
      BY <1>5 DEF SavePreview, WorkerAmongNotes, Without, Idle
    <2>. QED BY <2>1, <2>2
  <1>6. ASSUME NEW work \in worker.inputs, DiscardPreview(work) PROVE SelectionsTyped'
    BY <1>6 DEF DiscardPreview, WorkerAmongNotes, Without, Idle, invoiceVars
  <1>7. CASE UNCHANGED vars
    BY <1>7 DEF vars, invoiceVars, actorVars, WorkerAmongNotes
  <1>. QED BY <1>1, <1>2, <1>3, <1>4, <1>5, <1>6, <1>7 DEF Next, WorkerTick
-----------------------------------------------------------------------------
(* The claims.                                                             *)

\* The rows of a confirmation: append-only, over a table of previews that
\* only grows.
ConfirmationsTyped ==
    /\ review \in [Invoices -> ReviewStates]
    /\ preview \in [Invoices -> previews \cup {Null}]
    /\ confirmations \in Seq([invoice : Invoices, preview : previews])
    /\ confirmation \in [Invoices -> 0 .. Len(confirmations)]
    /\ \A i \in Invoices : review[i] = "completed" => confirmation[i] # 0

ClaimsInv == SelectionsTyped /\ ConfirmationsTyped /\ ClaimsAreTheConfirmedSelections

LEMMA SeqGrows ==
    ASSUME NEW S, NEW T, S \subseteq T, NEW s \in Seq(S)
    PROVE  s \in Seq(T)
  BY SeqDef

reviewVars == <<claims, review, selected, preview, previews, confirmation, confirmations>>

\* The steps that matter to the claims are few.
LEMMA StepsOnReviews ==
    ASSUME [Next]_vars
    PROVE  \/ UNCHANGED reviewVars
           \/ \E k \in Keys, i \in Invoices : \E ids \in SUBSET Notes : SelectNotes(k, i, ids)
           \/ \E k \in Keys, i \in Invoices : Investigate(k, i)
           \/ \E k \in Keys, i \in Invoices : Confirm(k, i)
           \/ \E k \in Keys, i \in Invoices : Reopen(k, i)
           \/ \E work \in worker.inputs : SavePreview(work)
  <1>1. UserStep => \/ UNCHANGED reviewVars
                    \/ \E k \in Keys, i \in Invoices : \E ids \in SUBSET Notes :
                          SelectNotes(k, i, ids)
                    \/ \E k \in Keys, i \in Invoices : Investigate(k, i)
                    \/ \E k \in Keys, i \in Invoices : Confirm(k, i)
                    \/ \E k \in Keys, i \in Invoices : Reopen(k, i)
    BY DEF UserStep, Upload, CommandStep, Intake, OpenDocument, EditDocument, ConfirmRefusedStale, MarkStale,
           VoidDocument, RetryExtraction, invoiceVars, tableVars, reviewVars
  <1>2. SourceStep => UNCHANGED reviewVars
    BY DEF SourceStep, StoreDraft, DecideRun, ImportVersion, invoiceVars, tableVars, reviewVars
  <1>3. FaultStep => UNCHANGED reviewVars
    BY DEF FaultStep, WorkerCrash, MarkLost, invoiceVars, tableVars, reviewVars
  <1>4. (\E failing \in SUBSET Docs : SyncSources(failing)) => UNCHANGED reviewVars
    BY DEF SyncSources, reviewVars
  <1>5. ListPending \/ ReadAndCompute \/ (\E work \in worker.inputs : DiscardPreview(work))
            => UNCHANGED reviewVars
    BY DEF ListPending, ReadAndCompute, DiscardPreview, invoiceVars, tableVars, reviewVars
  <1>6. UNCHANGED vars => UNCHANGED reviewVars
    BY DEF vars, invoiceVars, tableVars, reviewVars
  <1>. QED BY <1>1, <1>2, <1>3, <1>4, <1>5, <1>6 DEF Next, WorkerTick

LEMMA ConfirmationsTypedInit == Init => ConfirmationsTyped
  BY DEF Init, ConfirmationsTyped, ReviewStates

LEMMA ConfirmationsTypedNext ==
    ASSUME ConfirmationsTyped, [Next]_vars
    PROVE  ConfirmationsTyped'
  <1>. USE DEF ConfirmationsTyped, ReviewStates
  <1>1. CASE UNCHANGED reviewVars
    BY <1>1 DEF reviewVars
  <1>2. ASSUME NEW k \in Keys, NEW i \in Invoices, NEW ids \in SUBSET Notes,
               SelectNotes(k, i, ids)
        PROVE  ConfirmationsTyped'
    BY <1>2 DEF SelectNotes
  <1>3. ASSUME NEW k \in Keys, NEW i \in Invoices, Investigate(k, i)
        PROVE  ConfirmationsTyped'
    BY <1>3 DEF Investigate
  <1>4. ASSUME NEW k \in Keys, NEW i \in Invoices, Confirm(k, i)
        PROVE  ConfirmationsTyped'
    <2>1. preview[i] \in previews
      BY <1>4 DEF Confirm, StillAsShown, PreviewMovedOn
    <2>2. /\ confirmations' = Append(confirmations, [invoice |-> i, preview |-> preview[i]])
          /\ previews' = previews /\ preview' = preview
          /\ review' = [review EXCEPT ![i] = "completed"]
          /\ confirmation' = [confirmation EXCEPT ![i] = Len(confirmations) + 1]
      BY <1>4 DEF Confirm
    <2>3. /\ confirmations' \in Seq([invoice : Invoices, preview : previews'])
          /\ Len(confirmations') = Len(confirmations) + 1 /\ Len(confirmations) \in Nat
      BY <2>1, <2>2
    <2>. QED BY <2>2, <2>3
  <1>5. ASSUME NEW k \in Keys, NEW i \in Invoices, Reopen(k, i)
        PROVE  ConfirmationsTyped'
    BY <1>5 DEF Reopen, ClaimsWithout
  <1>6. ASSUME NEW work \in worker.inputs, SavePreview(work)
        PROVE  ConfirmationsTyped'
    <2>1. previews \subseteq previews'
          /\ preview' \in [Invoices -> previews' \cup {Null}]
      BY <1>6 DEF SavePreview
    <2>2. confirmations \in Seq([invoice : Invoices, preview : previews'])
      BY <2>1, SeqGrows, [invoice : Invoices, preview : previews]
                            \subseteq [invoice : Invoices, preview : previews']
    <2>. QED BY <1>6, <2>1, <2>2 DEF SavePreview
  <1>. QED BY <1>1, <1>2, <1>3, <1>4, <1>5, <1>6, StepsOnReviews

LEMMA ClaimsInit == Init => ClaimsAreTheConfirmedSelections
  BY DEF Init, ClaimsAreTheConfirmedSelections

LEMMA ClaimsNext ==
    ASSUME ClaimsInv, [Next]_vars
    PROVE  ClaimsAreTheConfirmedSelections'
  <1>. USE DEF ClaimsInv, ConfirmationsTyped, ClaimsAreTheConfirmedSelections
  <1>1. CASE UNCHANGED reviewVars
    BY <1>1 DEF reviewVars
  <1>2. ASSUME NEW k \in Keys, NEW i \in Invoices, NEW ids \in SUBSET Notes,
               SelectNotes(k, i, ids)
        PROVE  ClaimsAreTheConfirmedSelections'
    BY <1>2 DEF SelectNotes, UnderReview, SelectionsTyped
  <1>3. ASSUME NEW k \in Keys, NEW i \in Invoices, Investigate(k, i)
        PROVE  ClaimsAreTheConfirmedSelections'
    BY <1>3 DEF Investigate, UnderReview
  <1>4. ASSUME NEW k \in Keys, NEW i \in Invoices, Confirm(k, i)
        PROVE  ClaimsAreTheConfirmedSelections'
    <2>. DEFINE new == {[note |-> n, invoice |-> i, by |-> Len(confirmations) + 1] :
                           n \in selected[i]}
    <2>1. /\ claims' = claims \cup new
          /\ review' = [review EXCEPT ![i] = "completed"] /\ selected' = selected
          /\ confirmation' = [confirmation EXCEPT ![i] = Len(confirmations) + 1]
          /\ Len(confirmations') = Len(confirmations) + 1 /\ Len(confirmations) \in Nat
          /\ review[i] # "completed" /\ ClaimInsertable(i)
      BY <1>4 DEF Confirm, ConfirmAttempt, UnderReview
    <2>2. \A c1, c2 \in claims' : c1.note = c2.note => c1 = c2
      BY <2>1 DEF ClaimInsertable
    <2>3. ASSUME NEW c \in claims'
          PROVE  /\ c \in [note : Notes, invoice : Invoices, by : 1 .. Len(confirmations')]
                 /\ review'[c.invoice] = "completed"
                 /\ c.note \in selected'[c.invoice]
                 /\ c.by = confirmation'[c.invoice]
      <3>1. CASE c \in claims
        BY <2>1, <3>1
      <3>2. CASE c \in new
        BY <2>1, <3>2 DEF SelectionsTyped
      <3>. QED BY <2>1, <3>1, <3>2
    <2>4. ASSUME NEW c \in [note : Notes, invoice : Invoices, by : 1 .. Len(confirmations')],
                 review'[c.invoice] = "completed",
                 c.note \in selected'[c.invoice], c.by = confirmation'[c.invoice]
          PROVE  c \in claims'
      <3>1. CASE c.invoice = i
        BY <2>1, <2>4, <3>1
      <3>2. CASE c.invoice # i
        BY <2>1, <2>4, <3>2
      <3>. QED BY <3>1, <3>2
    <2>. QED BY <2>2, <2>3, <2>4
  <1>5. ASSUME NEW k \in Keys, NEW i \in Invoices, Reopen(k, i)
        PROVE  ClaimsAreTheConfirmedSelections'
    BY <1>5 DEF Reopen, ClaimsWithout
  <1>6. ASSUME NEW work \in worker.inputs, SavePreview(work)
        PROVE  ClaimsAreTheConfirmedSelections'
    <2>1. /\ UnderReview(work.input.id) /\ UNCHANGED <<claims, review, confirmation, confirmations>>
          /\ \E ids : selected' = [selected EXCEPT ![work.input.id] = ids]
      BY <1>6 DEF SavePreview, InputCurrent
    <2>. QED BY <2>1 DEF UnderReview, SelectionsTyped
  <1>. QED BY <1>1, <1>2, <1>3, <1>4, <1>5, <1>6, StepsOnReviews

(* A receiving record is used by at most one invoice, and the claims are   *)
(* exactly what the completed invoices hold under their confirmations      *)
(* (_confirm and reopen), for any number of invoices, records and users.   *)
THEOREM ClaimsCorrect == Spec => []ClaimsAreTheConfirmedSelections
  <1>1. Init => ClaimsInv
    BY SelectionsTypedInit, ConfirmationsTypedInit, ClaimsInit DEF ClaimsInv
  <1>2. ClaimsInv /\ [Next]_vars => ClaimsInv'
    BY SelectionsTypedNext, ConfirmationsTypedNext, ClaimsNext DEF ClaimsInv
  <1>3. ClaimsInv => ClaimsAreTheConfirmedSelections
    BY DEF ClaimsInv
  <1>. QED BY <1>1, <1>2, <1>3, PTL DEF Spec
-----------------------------------------------------------------------------
(* The workspace implements ReceivingClaims.                               *)

HolderIn(C, n) == IF \E c \in C : c.note = n THEN (CHOOSE c \in C : c.note = n).invoice
                  ELSE Null

LEMMA HolderInUnique ==
    ASSUME NEW C, \A c1, c2 \in C : c1.note = c2.note => c1 = c2,
           NEW c \in C
    PROVE  HolderIn(C, c.note) = c.invoice
  BY DEF HolderIn

LEMMA HolderInFree ==
    ASSUME NEW C, NEW n, \A c \in C : c.note # n
    PROVE  HolderIn(C, n) = Null
  BY DEF HolderIn

LEMMA HolderIsHolderIn ==
    /\ Holder = [n \in Notes |-> HolderIn(claims, n)]
    /\ Holder' = [n \in Notes |-> HolderIn(claims', n)]
  BY DEF Holder, HolderIn

LEMMA ConfirmTakes ==
    ASSUME ClaimsInv, ClaimsInv', NEW k \in Keys, NEW i \in Invoices, Confirm(k, i)
    PROVE  Abstract!Take(i, selected[i])
  <1>. DEFINE new == {[note |-> n, invoice |-> i, by |-> Len(confirmations) + 1] :
                         n \in selected[i]}
  <1>1. /\ claims' = claims \cup new
        /\ review' = [review EXCEPT ![i] = "completed"]
        /\ review[i] # "completed" /\ ClaimInsertable(i)
        /\ selected[i] # {}
    BY DEF Confirm, ConfirmAttempt, UnderReview, StillAsShown, Unresolved, PreviewNoLongerHolds
  <1>2. /\ \A c1, c2 \in claims : c1.note = c2.note => c1 = c2
        /\ \A c1, c2 \in claims' : c1.note = c2.note => c1 = c2
        /\ selected[i] \subseteq Notes
    BY DEF ClaimsInv, ClaimsAreTheConfirmedSelections, SelectionsTyped
  <1>3. \A n \in selected[i] : Holder[n] = Null
    BY <1>1, <1>2, HolderIsHolderIn, HolderInFree DEF ClaimInsertable
  <1>4. Holder' = [n \in Notes |-> IF n \in selected[i] THEN i ELSE Holder[n]]
    <2>1. ASSUME NEW n \in selected[i] PROVE HolderIn(claims', n) = i
      <3>. DEFINE c == [note |-> n, invoice |-> i, by |-> Len(confirmations) + 1]
      <3>1. c \in claims' /\ c.note = n /\ c.invoice = i
        BY <1>1
      <3>. QED BY <3>1, <1>2, HolderInUnique
    <2>2. ASSUME NEW n \in Notes \ selected[i] PROVE HolderIn(claims', n) = HolderIn(claims, n)
      <3>1. \A c \in claims' : c.note = n => c \in claims
        BY <1>1
      <3>2. CASE \E c \in claims : c.note = n
        <4>1. PICK c \in claims : c.note = n
          BY <3>2
        <4>. QED BY <4>1, <1>1, <1>2, HolderInUnique
      <3>3. CASE \A c \in claims : c.note # n
        BY <3>1, <3>3, HolderInFree
      <3>. QED BY <3>2, <3>3
    <2>. QED BY <2>1, <2>2, HolderIsHolderIn
  <1>5. i \notin Closed /\ Closed' = Closed \cup {i}
    BY <1>1 DEF Closed, ClaimsInv, ConfirmationsTyped
  <1>. QED BY <1>1, <1>3, <1>4, <1>5 DEF Abstract!Take

LEMMA ReopenReleases ==
    ASSUME ClaimsInv, NEW k \in Keys, NEW i \in Invoices, Reopen(k, i)
    PROVE  Abstract!Release(i)
  <1>1. /\ claims' = {c \in claims : c.invoice # i}
        /\ review' = [review EXCEPT ![i] = "open"] /\ review[i] = "completed"
    BY DEF Reopen, ClaimsWithout
  <1>2. \A c1, c2 \in claims : c1.note = c2.note => c1 = c2
    BY DEF ClaimsInv, ClaimsAreTheConfirmedSelections
  <1>3. ASSUME NEW n \in Notes
        PROVE  HolderIn(claims', n) = IF Holder[n] = i THEN Null ELSE Holder[n]
    <2>1. CASE \E c \in claims : c.note = n
      <3>1. PICK c \in claims : c.note = n
        BY <2>1
      <3>2. Holder[n] = c.invoice
        BY <3>1, <1>2, HolderInUnique, HolderIsHolderIn
      <3>3. CASE c.invoice = i
        <4>1. \A d \in claims' : d.note # n
          BY <1>1, <1>2, <3>1, <3>3
        <4>. QED BY <4>1, <3>2, <3>3, HolderInFree
      <3>4. CASE c.invoice # i
        <4>1. c \in claims' /\ \A c1, c2 \in claims' : c1.note = c2.note => c1 = c2
          BY <1>1, <1>2, <3>1, <3>4
        <4>. QED BY <4>1, <3>1, <3>2, <3>4, HolderInUnique
      <3>. QED BY <3>3, <3>4
    <2>2. CASE \A c \in claims : c.note # n
      <3>1. Holder[n] = Null /\ HolderIn(claims', n) = Null
        BY <1>1, <2>2, HolderInFree, HolderIsHolderIn
      <3>. QED BY <3>1
    <2>. QED BY <2>1, <2>2
  <1>4. Holder' = [n \in Notes |-> IF Holder[n] = i THEN Null ELSE Holder[n]]
    BY <1>3, HolderIsHolderIn
  <1>5. i \in Closed /\ Closed' = Closed \ {i}
    BY <1>1 DEF Closed, ClaimsInv, ConfirmationsTyped
  <1>. QED BY <1>4, <1>5 DEF Abstract!Release

LEMMA StepImplements ==
    ASSUME ClaimsInv, ClaimsInv', [Next]_vars
    PROVE  [Abstract!Next]_<<Holder, Closed>>
  <1>1. ASSUME UNCHANGED <<claims, Closed>> PROVE UNCHANGED <<Holder, Closed>>
    BY <1>1 DEF Holder
  <1>2. CASE UNCHANGED reviewVars
    BY <1>1, <1>2 DEF reviewVars, Closed
  <1>3. ASSUME NEW k \in Keys, NEW i \in Invoices, NEW ids \in SUBSET Notes,
               SelectNotes(k, i, ids)
        PROVE  UNCHANGED <<claims, Closed>>
    BY <1>3 DEF SelectNotes, Closed
  <1>4. ASSUME NEW k \in Keys, NEW i \in Invoices, Investigate(k, i)
        PROVE  UNCHANGED <<claims, Closed>>
    BY <1>4 DEF Investigate, UnderReview, Closed, ClaimsInv, ConfirmationsTyped
  <1>5. ASSUME NEW k \in Keys, NEW i \in Invoices, Confirm(k, i) PROVE Abstract!Next
    <2>1. selected[i] \in SUBSET Notes
      BY DEF ClaimsInv, SelectionsTyped
    <2>. QED BY <1>5, <2>1, ConfirmTakes DEF Abstract!Next
  <1>6. ASSUME NEW k \in Keys, NEW i \in Invoices, Reopen(k, i) PROVE Abstract!Next
    BY <1>6, ReopenReleases DEF Abstract!Next
  <1>7. ASSUME NEW work \in worker.inputs, SavePreview(work) PROVE UNCHANGED <<claims, Closed>>
    BY <1>7 DEF SavePreview, Closed
  <1>. QED BY <1>1, <1>2, <1>3, <1>4, <1>5, <1>6, <1>7, StepsOnReviews

(* Seen through the claims, the workspace takes the records of an invoice  *)
(* in one step, while they are free, and gives all of them back in one     *)
(* step (_confirm, reopen).                                                *)
THEOREM WorkspaceImplementsReceivingClaims == Spec => ImplementsReceivingClaims
  <1>1. Init => ClaimsInv
    BY SelectionsTypedInit, ConfirmationsTypedInit, ClaimsInit DEF ClaimsInv
  <1>2. ClaimsInv /\ [Next]_vars => ClaimsInv'
    BY SelectionsTypedNext, ConfirmationsTypedNext, ClaimsNext DEF ClaimsInv
  <1>3. Init => Abstract!Init
    BY DEF Init, Abstract!Init, Holder, Closed
  <1>4. ClaimsInv /\ ClaimsInv' /\ [Next]_vars => [Abstract!Next]_<<Holder, Closed>>
    BY StepImplements
  <1>. QED BY <1>1, <1>2, <1>3, <1>4, PTL DEF Spec, ImplementsReceivingClaims, Abstract!Spec
-----------------------------------------------------------------------------
(* What a completed invoice confirmed stays as it was, or the invoice is   *)
(* flagged.                                                                *)

ProcStates == {"absent", "processing", "ready", "failed", "cancelled", "voided"}

DocumentsTyped ==
    /\ cur = [d \in Docs |-> cur[d]]
    /\ proc \in [Docs -> ProcStates]
    /\ sourceChanged \in [Invoices -> BOOLEAN]

SourcesInv == ClaimsInv /\ DocumentsTyped /\ ConfirmedSourcesUnchanged

LEMMA DocumentsAreDocs == Invoices \subseteq Docs /\ Notes \subseteq Docs /\ Uploads \subseteq Docs
  BY DEF Docs, Notes, Uploads

LEMMA InvalidateFlags ==
    ASSUME NEW sources, NEW touched, NEW stale0, NEW flags0 \in [Invoices -> BOOLEAN],
           Invalidate(sources, touched, stale0, flags0)
    PROVE  /\ sourceChanged' \in [Invoices -> BOOLEAN]
           /\ \A i \in Invoices : flags0[i] => sourceChanged'[i]
           /\ \A i \in Invoices : review'[i] = "completed" =>
                 (sourceChanged'[i] <=> flags0[i] \/ sources \cap ({i} \cup selected[i]) # {})
  BY DEF Invalidate, Live, Flagged, NextGeneration

LEMMA DocumentsTypedInit == Init => DocumentsTyped
  BY DEF Init, DocumentsTyped, ProcStates

LEMMA DocumentsTypedNext ==
    ASSUME DocumentsTyped, [Next]_vars
    PROVE  DocumentsTyped'
  <1>. USE DEF DocumentsTyped, ProcStates
  <1>1. ASSUME NEW k \in Keys, NEW d \in Uploads, Intake(k, d) PROVE DocumentsTyped'
    BY <1>1, InvalidateFlags DEF Intake, docVars, invoiceVars
  <1>2. ASSUME NEW k \in Keys, NEW d \in Uploads, NEW p \in Corrections[d],
               EditDocument(k, d, p)
        PROVE  DocumentsTyped'
    BY <1>2, InvalidateFlags DEF EditDocument
  <1>3. ASSUME NEW k \in Keys, NEW i \in Invoices, Confirm(k, i) PROVE DocumentsTyped'
    <2>1. [sourceChanged EXCEPT ![i] = FALSE] \in [Invoices -> BOOLEAN]
      OBVIOUS
    <2>2. sourceChanged' \in [Invoices -> BOOLEAN]
      BY <1>3, <2>1, InvalidateFlags DEF Confirm
    <2>. QED BY <1>3, <2>2 DEF Confirm
  <1>4. ASSUME NEW k \in Keys, NEW i \in Invoices, Reopen(k, i) PROVE DocumentsTyped'
    <2>1. [sourceChanged EXCEPT ![i] = FALSE] \in [Invoices -> BOOLEAN]
      OBVIOUS
    <2>2. sourceChanged' \in [Invoices -> BOOLEAN]
      BY <1>4, <2>1, InvalidateFlags DEF Reopen, ClaimsWithout
    <2>. QED BY <1>4, <2>2 DEF Reopen, ClaimsWithout
  <1>5. ASSUME NEW k \in Keys, NEW d \in Uploads, VoidDocument(k, d) PROVE DocumentsTyped'
    BY <1>5, InvalidateFlags DEF VoidDocument
  <1>6. ASSUME NEW k \in Keys, NEW d \in Uploads, RetryExtraction(k, d) PROVE DocumentsTyped'
    BY <1>6 DEF RetryExtraction, invoiceVars
  <1>7. ASSUME NEW failing \in SUBSET Docs, SyncSources(failing) PROVE DocumentsTyped'
    <2>1. sourceChanged' \in [Invoices -> BOOLEAN]
      BY <1>7, InvalidateFlags DEF SyncSources
    <2>2. cur' = [d \in Docs |-> cur'[d]]
      BY <1>7 DEF SyncSources
    <2>3. proc' \in [Docs -> ProcStates]
      BY <1>7 DEF SyncSources
    <2>. QED BY <2>1, <2>2, <2>3
  <1>8. ASSUME UNCHANGED <<cur, proc, sourceChanged>> PROVE DocumentsTyped'
    BY <1>8
  <1>9. UserStep =>
          \/ UNCHANGED <<cur, proc, sourceChanged>>
          \/ \E k \in Keys, d \in Uploads : Intake(k, d)
          \/ \E k \in Keys, d \in Uploads : \E p \in Corrections[d] : EditDocument(k, d, p)
          \/ \E k \in Keys, i \in Invoices : Confirm(k, i)
          \/ \E k \in Keys, i \in Invoices : Reopen(k, i)
          \/ \E k \in Keys, d \in Uploads : VoidDocument(k, d)
          \/ \E k \in Keys, d \in Uploads : RetryExtraction(k, d)
    BY DEF UserStep, Upload, CommandStep, OpenDocument, SelectNotes, Investigate, ConfirmRefusedStale, MarkStale,
           docVars, invoiceVars
  <1>10. SourceStep \/ FaultStep \/ ListPending \/ ReadAndCompute
            \/ (\E work \in worker.inputs : SavePreview(work) \/ DiscardPreview(work))
            \/ UNCHANGED vars
         => UNCHANGED <<cur, proc, sourceChanged>>
    BY DEF SourceStep, StoreDraft, DecideRun, ImportVersion, FaultStep, WorkerCrash, MarkLost,
           ListPending, ReadAndCompute, SavePreview, DiscardPreview, vars, docVars, invoiceVars
  <1>. QED BY <1>1, <1>2, <1>3, <1>4, <1>5, <1>6, <1>7, <1>8, <1>9, <1>10 DEF Next, WorkerTick

\* What a step may do to an invoice that is completed before and after it.
Held(i) ==
    /\ selected'[i] = selected[i] /\ confirmation'[i] = confirmation[i]
    /\ sourceChanged[i] => sourceChanged'[i]
    /\ \A n \in selected[i] \cup {i} :
          cur'[n] # cur[n] \/ proc'[n] # proc[n] => sourceChanged'[i]
    /\ confirmation[i] \in 1 .. Len(confirmations)
    /\ confirmations'[confirmation[i]] = confirmations[confirmation[i]]

LEMMA HeldRecordsAreUsed ==
    ASSUME ClaimsInv, NEW i \in Invoices, review[i] = "completed", NEW n \in selected[i]
    PROVE  n \in Used
  <1>. DEFINE c == [note |-> n, invoice |-> i, by |-> confirmation[i]]
  <1>1. c \in [note : Notes, invoice : Invoices, by : 1 .. Len(confirmations)]
    BY DEF ClaimsInv, SelectionsTyped, ConfirmationsTyped
  <1>2. c \in claims
    BY <1>1 DEF ClaimsInv, ClaimsAreTheConfirmedSelections
  <1>. QED BY <1>2 DEF Used

LEMMA CompletedStaysHeld ==
    ASSUME SourcesInv, [Next]_vars,
           NEW i \in Invoices, review[i] = "completed", review'[i] = "completed"
    PROVE  Held(i)
  <1>. USE DEF Held, SourcesInv
  <1>0. /\ confirmation[i] \in 1 .. Len(confirmations) /\ Len(confirmations) \in Nat
        /\ i \in Docs /\ selected[i] \subseteq Docs
        /\ selected \in [Invoices -> SUBSET Notes]
        /\ review \in [Invoices -> ReviewStates]
    BY DocumentsAreDocs DEF ClaimsInv, ConfirmationsTyped, SelectionsTyped
  <1>1. ASSUME UNCHANGED <<review, selected, confirmation, confirmations>>,
               NEW sources, NEW touched, NEW stale0,
               Invalidate(sources, touched, stale0, sourceChanged),
               \A n \in selected[i] \cup {i} :
                  cur'[n] # cur[n] \/ proc'[n] # proc[n] => n \in sources
        PROVE  Held(i)
    BY <1>0, <1>1, InvalidateFlags DEF DocumentsTyped
  <1>2. ASSUME NEW k \in Keys, NEW d \in Uploads, Intake(k, d) PROVE Held(i)
    <2>1. CASE UNCHANGED <<docVars, invoiceVars>>
      BY <1>0, <1>2, <2>1 DEF Intake, docVars, invoiceVars
    <2>2. CASE Invalidate({d}, {d}, stale, sourceChanged)
               /\ proc' = [proc EXCEPT ![d] = "processing"]
               /\ UNCHANGED <<cur, review, selected, confirmation>>
      BY <1>0, <1>1, <1>2, <2>2 DEF Intake, DocumentsTyped
    <2>. QED BY <1>2, <2>1, <2>2 DEF Intake
  <1>3. ASSUME NEW k \in Keys, NEW d \in Uploads, NEW p \in Corrections[d],
               EditDocument(k, d, p)
        PROVE  Held(i)
    BY <1>0, <1>1, <1>3 DEF EditDocument, DocumentsTyped
  <1>4. ASSUME NEW k \in Keys, NEW j \in Invoices, NEW ids \in SUBSET Notes,
               SelectNotes(k, j, ids)
        PROVE  Held(i)
    BY <1>0, <1>4 DEF SelectNotes, UnderReview
  <1>5. ASSUME NEW k \in Keys, NEW j \in Invoices, Confirm(k, j) PROVE Held(i)
    <2>1. j # i /\ confirmation' = [confirmation EXCEPT ![j] = Len(confirmations) + 1]
          /\ UNCHANGED <<proc, cur, selected>>
      BY <1>5 DEF Confirm, ConfirmAttempt, UnderReview
    <2>2. confirmations'[confirmation[i]] = confirmations[confirmation[i]]
      BY <1>0, <1>5 DEF Confirm, ClaimsInv, ConfirmationsTyped
    <2>3. [sourceChanged EXCEPT ![j] = FALSE] \in [Invoices -> BOOLEAN]
      BY DEF DocumentsTyped
    <2>4. sourceChanged[i] => sourceChanged'[i]
      BY <1>5, <2>1, <2>3, InvalidateFlags DEF Confirm, DocumentsTyped
    <2>. QED BY <1>0, <2>1, <2>2, <2>4 DEF ClaimsInv, ConfirmationsTyped
  <1>6. ASSUME NEW k \in Keys, NEW j \in Invoices, Reopen(k, j) PROVE Held(i)
    <2>1. j # i /\ confirmation' = [confirmation EXCEPT ![j] = 0]
          /\ UNCHANGED <<proc, cur, selected, confirmations>>
      BY <1>0, <1>6 DEF Reopen, ClaimsWithout
    <2>2. [sourceChanged EXCEPT ![j] = FALSE] \in [Invoices -> BOOLEAN]
      BY DEF DocumentsTyped
    <2>3. sourceChanged[i] => sourceChanged'[i]
      BY <1>6, <2>1, <2>2, InvalidateFlags DEF Reopen, ClaimsWithout, DocumentsTyped
    <2>. QED BY <1>0, <2>1, <2>3 DEF ClaimsInv, ConfirmationsTyped
  <1>7. ASSUME NEW k \in Keys, NEW d \in Uploads, VoidDocument(k, d) PROVE Held(i)
    <2>1. d # i /\ d \notin selected[i]
      BY <1>7, HeldRecordsAreUsed DEF VoidDocument
    <2>. QED BY <1>0, <1>1, <1>7, <2>1 DEF VoidDocument, DocumentsTyped
  <1>8. ASSUME NEW k \in Keys, NEW d \in Uploads, RetryExtraction(k, d) PROVE Held(i)
    <2>1. UNCHANGED <<selected, confirmation, confirmations, sourceChanged, cur>>
          /\ proc' = [proc EXCEPT ![d] = "processing"] /\ proc[d] # "ready"
      BY <1>8 DEF RetryExtraction, invoiceVars
    <2>2. ~sourceChanged[i] => \A n \in selected[i] \cup {i} : proc[n] = "ready"
      BY DEF ConfirmedSourcesUnchanged
    <2>. QED BY <1>0, <2>1, <2>2 DEF DocumentsTyped
  <1>9. ASSUME NEW failing \in SUBSET Docs, SyncSources(failing) PROVE Held(i)
    BY <1>0, <1>1, <1>9 DEF SyncSources, DocumentsTyped
  <1>10. ASSUME NEW work \in worker.inputs, SavePreview(work) PROVE Held(i)
    BY <1>0, <1>10 DEF SavePreview, InputCurrent, UnderReview
  <1>11. ASSUME UNCHANGED <<selected, confirmation, confirmations, cur, proc, sourceChanged>>
         PROVE  Held(i)
    BY <1>0, <1>11
  <1>12. UserStep =>
          \/ UNCHANGED <<selected, confirmation, confirmations, cur, proc, sourceChanged>>
          \/ \E k \in Keys, d \in Uploads : Intake(k, d)
          \/ \E k \in Keys, d \in Uploads : \E p \in Corrections[d] : EditDocument(k, d, p)
          \/ \E k \in Keys, j \in Invoices : \E ids \in SUBSET Notes : SelectNotes(k, j, ids)
          \/ \E k \in Keys, j \in Invoices : Confirm(k, j)
          \/ \E k \in Keys, j \in Invoices : Reopen(k, j)
          \/ \E k \in Keys, d \in Uploads : VoidDocument(k, d)
          \/ \E k \in Keys, d \in Uploads : RetryExtraction(k, d)
    BY DEF UserStep, Upload, CommandStep, OpenDocument, Investigate, ConfirmRefusedStale, MarkStale,
           docVars, invoiceVars, tableVars
  <1>13. SourceStep \/ FaultStep \/ ListPending \/ ReadAndCompute
            \/ (\E work \in worker.inputs : DiscardPreview(work)) \/ UNCHANGED vars
         => UNCHANGED <<selected, confirmation, confirmations, cur, proc, sourceChanged>>
    BY DEF SourceStep, StoreDraft, DecideRun, ImportVersion, FaultStep, WorkerCrash, MarkLost,
           ListPending, ReadAndCompute, DiscardPreview, vars, docVars, invoiceVars, tableVars
  <1>. QED BY <1>2, <1>3, <1>4, <1>5, <1>6, <1>7, <1>8, <1>9, <1>10, <1>11, <1>12, <1>13
           DEF Next, WorkerTick

LEMMA ConfirmFreezesSources ==
    ASSUME SourcesInv, NEW k \in Keys, NEW i \in Invoices, Confirm(k, i)
    PROVE  LET digest == confirmations'[confirmation'[i]].preview.digest
           IN  /\ cur'[i] = digest.revision /\ proc'[i] = "ready"
               /\ selected'[i] = DOMAIN digest.notes
               /\ \A n \in selected'[i] : cur'[n] = digest.notes[n] /\ proc'[n] = "ready"
  <1>. DEFINE input == InputOf(i)
  <1>1. /\ preview[i].digest = DigestOf(input, selected[i])
        /\ SourcesCurrent({i} \cup selected[i])
        /\ confirmations' = Append(confirmations, [invoice |-> i, preview |-> preview[i]])
        /\ confirmation' = [confirmation EXCEPT ![i] = Len(confirmations) + 1]
        /\ UNCHANGED <<cur, proc, selected>>
    BY DEF Confirm, StillAsShown, SourcesMovedOn, PreviewNoLongerHolds
  <1>2. preview[i] \in previews
    BY DEF Confirm, StillAsShown, PreviewMovedOn, SourcesInv, ClaimsInv, ConfirmationsTyped
  <1>3. confirmations'[confirmation'[i]].preview = preview[i]
    BY <1>1, <1>2 DEF SourcesInv, ClaimsInv, ConfirmationsTyped
  <1>4. proc[i] = "ready" /\ \A n \in selected[i] : proc[n] = "ready"
    BY <1>1 DEF SourcesCurrent
  <1>5. selected[i] \subseteq ReadyNotes
    BY <1>4 DEF ReadyNotes, SourcesInv, ClaimsInv, SelectionsTyped
  <1>6. /\ preview[i].digest.revision = cur[i]
        /\ preview[i].digest.notes = [n \in selected[i] |-> cur[n]]
    BY <1>1, <1>5 DEF DigestOf, InputOf, Restricted
  <1>. QED BY <1>1, <1>3, <1>4, <1>6

LEMMA ConfirmedSourcesNext ==
    ASSUME SourcesInv, [Next]_vars
    PROVE  ConfirmedSourcesUnchanged'
  <1>. SUFFICES ASSUME NEW i \in Invoices, review'[i] = "completed", ~sourceChanged'[i]
                PROVE  LET digest == confirmations'[confirmation'[i]].preview.digest
                       IN  /\ cur'[i] = digest.revision /\ proc'[i] = "ready"
                           /\ selected'[i] = DOMAIN digest.notes
                           /\ \A n \in selected'[i] :
                                 cur'[n] = digest.notes[n] /\ proc'[n] = "ready"
    BY DEF ConfirmedSourcesUnchanged
  <1>1. CASE review[i] = "completed"
    <2>1. Held(i)
      BY <1>1, CompletedStaysHeld
    <2>2. LET digest == confirmations[confirmation[i]].preview.digest
          IN  /\ cur[i] = digest.revision /\ proc[i] = "ready"
              /\ selected[i] = DOMAIN digest.notes
              /\ \A n \in selected[i] : cur[n] = digest.notes[n] /\ proc[n] = "ready"
      BY <1>1, <2>1 DEF Held, SourcesInv, ConfirmedSourcesUnchanged
    <2>. QED BY <2>1, <2>2 DEF Held
  <1>2. CASE review[i] # "completed"
    <2>1. \E k \in Keys : Confirm(k, i)
      <3>. USE DEF SourcesInv, ClaimsInv, ConfirmationsTyped
      <3>1. ~UNCHANGED reviewVars
        BY <1>2 DEF reviewVars
      <3>2. ~\E k \in Keys, j \in Invoices : \E ids \in SUBSET Notes : SelectNotes(k, j, ids)
        BY <1>2 DEF SelectNotes
      <3>3. ~\E k \in Keys, j \in Invoices : Investigate(k, j)
        BY <1>2 DEF Investigate
      <3>4. ~\E k \in Keys, j \in Invoices : Reopen(k, j)
        BY <1>2 DEF Reopen, ClaimsWithout
      <3>5. ~\E work \in worker.inputs : SavePreview(work)
        BY <1>2 DEF SavePreview
      <3>6. ASSUME NEW k \in Keys, NEW j \in Invoices, Confirm(k, j) PROVE j = i
        BY <1>2, <3>6 DEF Confirm
      <3>. QED BY <3>1, <3>2, <3>3, <3>4, <3>5, <3>6, StepsOnReviews
    <2>. QED BY <2>1, ConfirmFreezesSources
  <1>. QED BY <1>1, <1>2

LEMMA SourcesInvariant == Spec => []SourcesInv
  <1>1. Init => SourcesInv
    <2>1. Init => ConfirmedSourcesUnchanged
      BY DEF Init, ConfirmedSourcesUnchanged
    <2>. QED BY <2>1, SelectionsTypedInit, ConfirmationsTypedInit, ClaimsInit,
                DocumentsTypedInit DEF SourcesInv, ClaimsInv
  <1>2. SourcesInv /\ [Next]_vars => SourcesInv'
    BY SelectionsTypedNext, ConfirmationsTypedNext, ClaimsNext, DocumentsTypedNext,
       ConfirmedSourcesNext DEF SourcesInv, ClaimsInv
  <1>. QED BY <1>1, <1>2, PTL DEF Spec

(* As long as a completed invoice is not flagged source_changed, the       *)
(* revisions its confirmation froze are the current ones (_invalidate).    *)
THEOREM ConfirmedSourcesCorrect == Spec => []ConfirmedSourcesUnchanged
  <1>1. SourcesInv => ConfirmedSourcesUnchanged
    BY DEF SourcesInv
  <1>. QED BY <1>1, SourcesInvariant, PTL

(* Nothing a completed invoice holds changes without the invoice being     *)
(* flagged in the same step, and its selection does not change at all.     *)
THEOREM HeldRecordsCorrect == Spec => HeldRecordsChangeVisibly
  <1>1. SourcesInv /\ [Next]_vars =>
          [\A i \in Invoices : review[i] = "completed" /\ review'[i] = "completed" =>
              /\ selected'[i] = selected[i] /\ confirmation'[i] = confirmation[i]
              /\ (\E n \in selected[i] \cup {i} : cur'[n] # cur[n] \/ proc'[n] # proc[n])
                    => sourceChanged'[i]]_vars
    BY CompletedStaysHeld DEF Held
  <1>. QED BY <1>1, SourcesInvariant, PTL DEF Spec, HeldRecordsChangeVisibly
-----------------------------------------------------------------------------
(* Types.                                                                  *)

RunStates == {"none", "active", "ready", "failed", "cancelled"}

\* What the documents are projected from.
SourcesTyped ==
    /\ run = [d \in Uploads |-> run[d]]
    /\ \A d \in Uploads :
          run[d] \in [no : Nat, status : RunStates, draft : Extracted[d] \cup {Null}]
    /\ upstream = [n \in UpstreamNotes |-> upstream[n]]
    /\ \A n \in UpstreamNotes : /\ upstream[n].version \in Nat
                                /\ upstream[n].version > 0 =>
                                      upstream[n].payload \in UpstreamPayloads(n)

LEMMA SourcesTypedInit == Init => SourcesTyped
  BY DEF Init, SourcesTyped, RunStates, QueuedRun, NoRun, NoVersion

LEMMA SourcesTypedNext ==
    ASSUME SourcesTyped, [Next]_vars
    PROVE  SourcesTyped'
  <1>. USE DEF SourcesTyped, RunStates
  <1>1. ASSUME NEW k \in Keys, NEW d \in Uploads, Intake(k, d) PROVE SourcesTyped'
    BY <1>1 DEF Intake, QueuedRun
  <1>2. ASSUME NEW k \in Keys, NEW d \in Uploads, RetryExtraction(k, d) PROVE SourcesTyped'
    BY <1>2 DEF RetryExtraction, QueuedRun
  <1>3. ASSUME NEW d \in Uploads, NEW p \in Extracted[d], StoreDraft(d, p) PROVE SourcesTyped'
    BY <1>3 DEF StoreDraft
  <1>4. ASSUME NEW d \in Uploads, NEW s \in {"active", "ready"} \cup Failures, DecideRun(d, s)
        PROVE  SourcesTyped'
    BY <1>4, DocumentKinds DEF DecideRun
  <1>5. ASSUME NEW n \in UpstreamNotes, NEW v \in Imported[n], ImportVersion(n, v)
        PROVE  SourcesTyped'
    <2>. DEFINE new == [version |-> upstream[n].version + 1, voided |-> v.voided,
                        payload |-> v.payload]
    <2>1. upstream' = [upstream EXCEPT ![n] = new] /\ run' = run
      BY <1>5 DEF ImportVersion
    <2>2. new.version \in Nat /\ new.payload \in UpstreamPayloads(n)
      BY DEF UpstreamPayloads
    <2>. HIDE DEF new
    <2>. QED BY <2>1, <2>2
  <1>6. ASSUME UNCHANGED sourceVars PROVE SourcesTyped'
    BY <1>6 DEF sourceVars
  <1>7. UserStep => \/ UNCHANGED sourceVars
                    \/ \E k \in Keys, d \in Uploads : Intake(k, d)
                    \/ \E k \in Keys, d \in Uploads : RetryExtraction(k, d)
    BY DEF UserStep, Upload, CommandStep, OpenDocument, EditDocument, SelectNotes, Investigate, Confirm,
           ConfirmRefusedStale, MarkStale, Reopen, ClaimsWithout, VoidDocument
  <1>8. WorkerTick \/ FaultStep \/ UNCHANGED vars => UNCHANGED sourceVars
    BY DEF WorkerTick, SyncSources, ListPending, ReadAndCompute, SavePreview, DiscardPreview,
           FaultStep, WorkerCrash, MarkLost, vars
  <1>. QED BY <1>1, <1>2, <1>3, <1>4, <1>5, <1>6, <1>7, <1>8 DEF Next, SourceStep

\* A ready document has a revision.
RevisionsTyped ==
    /\ cur \in [Docs -> Revisions \cup {Null}]
    /\ \A d \in Docs : proc[d] = "ready" => cur[d] \in Revisions

LEMMA PayloadsAreTyped ==
    /\ \A d \in Uploads : \A p \in Extracted[d], seq \in Nat, no \in Nat :
          Revision(seq, "extracted", no, p, p) \in Revisions
    /\ \A n \in UpstreamNotes : \A p \in UpstreamPayloads(n), seq \in Nat, v \in Nat :
          Revision(seq, "upstream", v, p, p) \in Revisions
    /\ \A d \in Uploads : \A p \in Corrections[d], old \in Revisions, seq \in Nat :
          Revision(seq, "manual", old.source, p, old.base) \in Revisions
  <1>. DEFINE Any == SourcePayloads \cup (UNION {Corrections[d] : d \in Uploads})
  <1>1. /\ \A d \in Uploads : Extracted[d] \subseteq SourcePayloads
        /\ \A n \in UpstreamNotes : UpstreamPayloads(n) \subseteq SourcePayloads
        /\ SourcePayloads \subseteq Any
        /\ \A d \in Uploads : Corrections[d] \subseteq Any
    BY DEF SourcePayloads
  <1>2. Revisions = [seq : Nat, kind : {"extracted", "manual", "upstream"}, source : Nat,
                     base : SourcePayloads, payload : Any]
    BY DEF Revisions
  <1>. HIDE DEF Any
  <1>3. \A d \in Uploads : \A p \in Extracted[d], seq \in Nat, no \in Nat :
          Revision(seq, "extracted", no, p, p) \in Revisions
    BY <1>1, <1>2 DEF Revision
  <1>4. \A n \in UpstreamNotes : \A p \in UpstreamPayloads(n), seq \in Nat, v \in Nat :
          Revision(seq, "upstream", v, p, p) \in Revisions
    BY <1>1, <1>2 DEF Revision
  <1>5. \A d \in Uploads : \A p \in Corrections[d], old \in Revisions, seq \in Nat :
          Revision(seq, "manual", old.source, p, old.base) \in Revisions
    BY <1>1, <1>2 DEF Revision
  <1>. QED BY <1>3, <1>4, <1>5

LEMMA NextSeqIsNat ==
    ASSUME RevisionsTyped, NEW d \in Docs
    PROVE  NextSeq(d) \in Nat
  BY DEF RevisionsTyped, NextSeq, Revisions

LEMMA RevisionsTypedInit == Init => RevisionsTyped
  BY DEF Init, RevisionsTyped

LEMMA RevisionsTypedNext ==
    ASSUME RevisionsTyped, SourcesTyped, DocumentsTyped, [Next]_vars
    PROVE  RevisionsTyped'
  <1>. USE DEF RevisionsTyped, DocumentsTyped
  <1>1. ASSUME NEW k \in Keys, NEW d \in Uploads, Intake(k, d) PROVE RevisionsTyped'
    BY <1>1 DEF Intake, docVars
  <1>2. ASSUME NEW k \in Keys, NEW d \in Uploads, NEW p \in Corrections[d],
               EditDocument(k, d, p)
        PROVE  RevisionsTyped'
    <2>1. d \in Docs /\ cur[d] \in Revisions
      BY <1>2, DocumentsAreDocs DEF EditDocument
    <2>2. Correction(d, p) \in Revisions
      BY <2>1, NextSeqIsNat, PayloadsAreTyped DEF Correction
    <2>. QED BY <1>2, <2>1, <2>2 DEF EditDocument
  <1>3. ASSUME NEW k \in Keys, NEW d \in Uploads, VoidDocument(k, d) PROVE RevisionsTyped'
    BY <1>3 DEF VoidDocument
  <1>4. ASSUME NEW k \in Keys, NEW d \in Uploads, RetryExtraction(k, d) PROVE RevisionsTyped'
    BY <1>4 DEF RetryExtraction
  <1>5. ASSUME NEW failing \in SUBSET Docs, SyncSources(failing) PROVE RevisionsTyped'
    <2>. DEFINE moved == {n \in UpstreamNotes :
                            /\ upstream[n].version > 0
                            /\ Present(n) \/ ~upstream[n].voided
                            /\ cur[n] = Null \/ cur[n].source # upstream[n].version}
                imported == moved \ failing
                new(d) == IF d \in imported
                          THEN Revision(NextSeq(d), "upstream", upstream[d].version,
                                        upstream[d].payload, upstream[d].payload)
                          ELSE Revision(NextSeq(d), "extracted", run[d].no, run[d].draft,
                                        run[d].draft)
    <2>1. \A d \in imported : new(d) \in Revisions
      BY NextSeqIsNat, PayloadsAreTyped DEF SourcesTyped, Docs, Notes
    <2>2. \A d \in Uploads \ imported : DraftReady(d) => new(d) \in Revisions
      BY NextSeqIsNat, PayloadsAreTyped DEF SourcesTyped, DraftReady, Docs, Notes, Uploads
    <2>3. \A d \in Docs :
            \/ cur'[d] = cur[d] /\ proc'[d] \in {proc[d], "failed", "cancelled", "processing"}
            \/ d \in imported /\ cur'[d] = new(d)
            \/ d \in Uploads \ imported /\ DraftReady(d) /\ cur'[d] = new(d)
      BY <1>5 DEF SyncSources, SyncedUploads
    <2>4. cur' = [d \in Docs |-> cur'[d]]
      BY <1>5 DEF SyncSources
    <2>. HIDE DEF imported, new
    <2>. QED BY <2>1, <2>2, <2>3, <2>4
  <1>6. ASSUME UNCHANGED <<cur, proc>> PROVE RevisionsTyped'
    BY <1>6
  <1>7. UserStep => \/ UNCHANGED <<cur, proc>>
                    \/ \E k \in Keys, d \in Uploads : Intake(k, d)
                    \/ \E k \in Keys, d \in Uploads : \E p \in Corrections[d] :
                          EditDocument(k, d, p)
                    \/ \E k \in Keys, d \in Uploads : VoidDocument(k, d)
                    \/ \E k \in Keys, d \in Uploads : RetryExtraction(k, d)
    BY DEF UserStep, Upload, CommandStep, OpenDocument, SelectNotes, Investigate, Confirm, ConfirmRefusedStale,
           MarkStale, Reopen, ClaimsWithout, docVars
  <1>8. SourceStep \/ FaultStep \/ ListPending \/ ReadAndCompute
            \/ (\E work \in worker.inputs : SavePreview(work) \/ DiscardPreview(work))
            \/ UNCHANGED vars
         => UNCHANGED <<cur, proc>>
    BY DEF SourceStep, StoreDraft, DecideRun, ImportVersion, FaultStep, WorkerCrash, MarkLost,
           ListPending, ReadAndCompute, SavePreview, DiscardPreview, vars, docVars
  <1>. QED BY <1>1, <1>2, <1>3, <1>4, <1>5, <1>6, <1>7, <1>8 DEF Next, WorkerTick

MatchStates == {"selected", "needs_selection", "waiting_counterpart"}
Stages == {"idle", "synced", "listed", "computed"}

\* The other columns, and the stage of the worker.
ColumnsTyped ==
    /\ rev \in [Docs -> Nat]
    /\ err \in [Docs -> {"none", "EXTRACTION_FAILED", "SOURCE_REVIEW_REQUIRED"}]
    /\ origin \in [Invoices -> {"none", "automatic", "manual"}]
    /\ match \in [Invoices -> MatchStates]
    /\ stale \in [Invoices -> BOOLEAN]
    /\ generation \in Nat /\ served \subseteq Keys /\ marking \subseteq Invoices

WorkerTyped ==
    /\ worker = [stage |-> worker.stage, inputs |-> worker.inputs]
    /\ worker.stage \in Stages
    /\ worker.stage = "computed" =>
          \A work \in worker.inputs : work.proposal.status \in MatchStates

LEMMA TouchTyped ==
    ASSUME rev \in [Docs -> Nat], NEW touched, Touch(touched)
    PROVE  rev' \in [Docs -> Nat]
  BY DEF Touch

LEMMA InvalidateTyped ==
    ASSUME ColumnsTyped, NEW sources, NEW touched, NEW stale0 \in [Invoices -> BOOLEAN], NEW flags0,
           Invalidate(sources, touched, stale0, flags0)
    PROVE  rev' \in [Docs -> Nat] /\ generation' \in Nat /\ stale' \in [Invoices -> BOOLEAN]
  <1>1. \E all : Touch(all)
    BY DEF Invalidate, Live, Flagged, NextGeneration
  <1>. QED BY <1>1, TouchTyped DEF ColumnsTyped, Invalidate, Live, Flagged, NextGeneration

LEMMA TypedInit == Init => ColumnsTyped /\ WorkerTyped
  BY DEF Init, ColumnsTyped, WorkerTyped, MatchStates, Stages, Idle

LEMMA ProposalStatus ==
    ASSUME NEW input
    PROVE  ProposalOf(input).status \in MatchStates
  <1>1. \A inv, notes, used : SelectCandidates(inv, notes, used).status \in MatchStates
    BY DEF SelectCandidates, MatchStates
  <1>. QED BY <1>1 DEF ProposalOf, MatchStates

LEMMA WorkerTypedNext ==
    ASSUME WorkerTyped, [Next]_vars
    PROVE  WorkerTyped'
  <1>. USE DEF WorkerTyped, Stages
  <1>1. UserStep \/ SourceStep \/ UNCHANGED vars => worker' = worker
    BY DEF UserStep, Upload, CommandStep, Intake, OpenDocument, EditDocument, SelectNotes, Investigate, Confirm,
           ConfirmRefusedStale, MarkStale, Reopen, ClaimsWithout, VoidDocument, RetryExtraction,
           SourceStep, StoreDraft, DecideRun, ImportVersion, actorVars, vars
  <1>2. FaultStep => worker' = worker \/ worker' = Idle
    BY DEF FaultStep, WorkerCrash, MarkLost
  <1>3. ASSUME NEW failing \in SUBSET Docs, SyncSources(failing) PROVE WorkerTyped'
    BY <1>3 DEF SyncSources, Idle
  <1>4. CASE ListPending
    BY <1>4 DEF ListPending, Idle
  <1>5. CASE ReadAndCompute
    <2>. DEFINE refreshed == {[listed EXCEPT !.gen = generation, !.used = Used] :
                                 listed \in worker.inputs}
                works == {[input |-> input, proposal |-> ProposalOf(input),
                           compared |-> ComparisonOf(input, ProposalOf(input).selected)] :
                             input \in refreshed}
    <2>1. worker' = [stage |-> "computed", inputs |-> works]
      BY <1>5 DEF ReadAndCompute
    <2>. HIDE DEF refreshed
    <2>2. \A work \in works : work.proposal.status \in MatchStates
      BY ProposalStatus
    <2>. HIDE DEF works
    <2>. QED BY <2>1, <2>2
  <1>6. ASSUME NEW work \in worker.inputs, SavePreview(work) \/ DiscardPreview(work)
        PROVE  WorkerTyped'
    <2>1. worker' = Without(work)
      BY <1>6 DEF SavePreview, DiscardPreview
    <2>. QED BY <2>1 DEF Without, Idle
  <1>. QED BY <1>1, <1>2, <1>3, <1>4, <1>5, <1>6 DEF Next, WorkerTick, Idle

LEMMA ColumnsTypedNext ==
    ASSUME ColumnsTyped, WorkerTyped, ConfirmationsTyped, [Next]_vars
    PROVE  ColumnsTyped'
  <1>. USE DEF ColumnsTyped
  <1>0. \A i \in Invoices, b \in BOOLEAN : [stale EXCEPT ![i] = b] \in [Invoices -> BOOLEAN]
    OBVIOUS
  <1>1. ASSUME NEW k \in Keys, NEW d \in Uploads, Intake(k, d) PROVE ColumnsTyped'
    BY <1>1, InvalidateTyped DEF Intake, docVars, invoiceVars, actorVars
  <1>2. ASSUME NEW k \in Keys, NEW d \in Uploads, OpenDocument(k, d) PROVE ColumnsTyped'
    BY <1>2 DEF OpenDocument, docVars, invoiceVars, tableVars
  <1>3. ASSUME NEW k \in Keys, NEW d \in Uploads, NEW p \in Corrections[d],
               EditDocument(k, d, p)
        PROVE  ColumnsTyped'
    BY <1>3, InvalidateTyped DEF EditDocument, Command, actorVars
  <1>4. ASSUME NEW k \in Keys, NEW i \in Invoices, NEW ids \in SUBSET Notes,
               SelectNotes(k, i, ids)
        PROVE  ColumnsTyped'
    BY <1>4, TouchTyped DEF SelectNotes, Command, actorVars
  <1>5. ASSUME NEW k \in Keys, NEW i \in Invoices, Investigate(k, i) PROVE ColumnsTyped'
    BY <1>5, TouchTyped DEF Investigate, Command, actorVars
  <1>6. ASSUME NEW k \in Keys, NEW i \in Invoices, Confirm(k, i) PROVE ColumnsTyped'
    BY <1>6, InvalidateTyped DEF Confirm, Command, actorVars
  <1>7. ASSUME NEW k \in Keys, NEW i \in Invoices, ConfirmRefusedStale(k, i) PROVE ColumnsTyped'
    BY <1>7 DEF ConfirmRefusedStale, docVars, invoiceVars, tableVars
  <1>8. ASSUME NEW i \in Invoices, MarkStale(i) PROVE ColumnsTyped'
    BY <1>8 DEF MarkStale, docVars, tableVars, ConfirmationsTyped
  <1>9. ASSUME NEW k \in Keys, NEW i \in Invoices, Reopen(k, i) PROVE ColumnsTyped'
    BY <1>0, <1>9, InvalidateTyped DEF Reopen, ClaimsWithout, Command, actorVars
  <1>10. ASSUME NEW k \in Keys, NEW d \in Uploads, VoidDocument(k, d) PROVE ColumnsTyped'
    <2>1. [i \in Invoices |-> stale[i] \/ i = d] \in [Invoices -> BOOLEAN]
      OBVIOUS
    <2>2. rev' \in [Docs -> Nat] /\ generation' \in Nat /\ stale' \in [Invoices -> BOOLEAN]
      BY <1>10, <2>1, InvalidateTyped DEF VoidDocument
    <2>. QED BY <1>10, <2>2 DEF VoidDocument, Command, actorVars
  <1>11. ASSUME NEW k \in Keys, NEW d \in Uploads, RetryExtraction(k, d) PROVE ColumnsTyped'
    BY <1>11, TouchTyped DEF RetryExtraction, Command, invoiceVars, actorVars
  <1>12. SourceStep => UNCHANGED <<docVars, invoiceVars, tableVars, marking>>
    BY DEF SourceStep, StoreDraft, DecideRun, ImportVersion, actorVars
  <1>13. ASSUME NEW failing \in SUBSET Docs, SyncSources(failing) PROVE ColumnsTyped'
    <2>1. rev' \in [Docs -> Nat] /\ generation' \in Nat /\ stale' \in [Invoices -> BOOLEAN]
      BY <1>13, InvalidateTyped, TouchTyped DEF SyncSources
    <2>2. err' \in [Docs -> {"none", "EXTRACTION_FAILED", "SOURCE_REVIEW_REQUIRED"}]
      BY <1>13 DEF SyncSources
    <2>. QED BY <1>13, <2>1, <2>2 DEF SyncSources
  <1>14. ListPending \/ ReadAndCompute \/ (\E work \in worker.inputs : DiscardPreview(work))
            \/ UNCHANGED vars
         => UNCHANGED <<docVars, invoiceVars, tableVars, marking>>
    BY DEF ListPending, ReadAndCompute, DiscardPreview, vars, actorVars
  <1>15. ASSUME NEW work \in worker.inputs, SavePreview(work) PROVE ColumnsTyped'
    <2>1. work.proposal.status \in MatchStates
      BY <1>15 DEF SavePreview, WorkerTyped
    <2>. QED BY <1>15, <2>1, TouchTyped DEF SavePreview
  <1>16. FaultStep => UNCHANGED <<docVars, invoiceVars, tableVars>> /\ marking' \subseteq marking
    BY DEF FaultStep, WorkerCrash, MarkLost
  <1>. USE DEF docVars, invoiceVars, tableVars
  <1>17. CASE UserStep
    BY <1>1, <1>2, <1>3, <1>4, <1>5, <1>6, <1>7, <1>8, <1>9, <1>10, <1>11, <1>17 DEF UserStep, Upload, CommandStep
  <1>. QED BY <1>12, <1>13, <1>14, <1>15, <1>16, <1>17 DEF Next, WorkerTick

(* Every row keeps the type its table declares.                            *)
THEOREM TypeCorrect == Spec => []TypeOK
  <1>. DEFINE Types == SourcesTyped /\ RevisionsTyped /\ ColumnsTyped /\ WorkerTyped
  <1>1. Init => Types
    BY SourcesTypedInit, RevisionsTypedInit, TypedInit
  <1>2. SourcesInv /\ Types /\ [Next]_vars => Types'
    BY SourcesTypedNext, RevisionsTypedNext, ColumnsTypedNext, WorkerTypedNext
       DEF SourcesInv, ClaimsInv
  <1>3. SourcesInv /\ Types => TypeOK
    BY DEF SourcesInv, ClaimsInv, SelectionsTyped, ConfirmationsTyped, DocumentsTyped,
           RevisionsTyped, ColumnsTyped, WorkerTyped, ClaimsAreTheConfirmedSelections,
           TypeOK, ProcStates, ReviewStates, MatchStates, Stages
  <1>. HIDE DEF Types
  <1>. QED BY <1>1, <1>2, <1>3, SourcesInvariant, PTL DEF Spec
-----------------------------------------------------------------------------
(* The generation of the scope.                                            *)

LEMMA InvalidateAdvances ==
    ASSUME generation \in Nat, NEW sources, NEW touched, NEW stale0, NEW flags0,
           Invalidate(sources, touched, stale0, flags0)
    PROVE  generation' > generation
  BY DEF Invalidate, NextGeneration

LEMMA SameRowsSameInputs ==
    ASSUME UNCHANGED <<cur, proc, claims>>
    PROVE  MatchingInputs' = MatchingInputs
  BY DEF MatchingInputs, ReadyNotes, Used, Standing, Present

\* A retried extraction was not in force and is not.
LEMMA RetryKeepsInputs ==
    ASSUME DocumentsTyped, NEW k \in Keys, NEW d \in Uploads, RetryExtraction(k, d)
    PROVE  MatchingInputs' = MatchingInputs
  <1>1. /\ proc' = [proc EXCEPT ![d] = "processing"] /\ cur' = cur /\ claims' = claims
        /\ proc[d] \in {"failed", "cancelled"} /\ d \in Docs
    BY DocumentsAreDocs DEF RetryExtraction
  <1>2. /\ proc'[d] = "processing"
        /\ \A e \in Docs \ {d} : proc'[e] = proc[e]
    BY <1>1 DEF DocumentsTyped
  <1>3. ReadyNotes' = ReadyNotes
    BY <1>1, <1>2, DocumentsAreDocs DEF ReadyNotes
  <1>4. Used' = Used
    BY <1>1, <1>2, DocumentKinds, DocumentsAreDocs DEF Used, Present, Notes
  <1>5. Standing' = Standing
    BY <1>1, <1>2, DocumentsAreDocs DEF Standing
  <1>. QED BY <1>1, <1>3, <1>4, <1>5 DEF MatchingInputs

LEMMA SyncCoversInputs ==
    ASSUME DocumentsTyped, generation \in Nat, NEW failing \in SUBSET Docs, SyncSources(failing)
    PROVE  MatchingInputs' = MatchingInputs \/ generation' > generation
  <1>1. \/ \E changed, touched : Invalidate(changed, touched, stale, sourceChanged)
        \/ /\ cur' = [d \in Docs |-> cur[d]] /\ proc' = [d \in Docs |-> proc[d]]
           /\ claims' = claims
    BY DEF SyncSources
  <1>2. CASE \E changed, touched : Invalidate(changed, touched, stale, sourceChanged)
    BY <1>2, InvalidateAdvances
  <1>3. CASE /\ cur' = [d \in Docs |-> cur[d]] /\ proc' = [d \in Docs |-> proc[d]]
             /\ claims' = claims
    BY <1>3, SameRowsSameInputs DEF DocumentsTyped
  <1>. QED BY <1>1, <1>2, <1>3

LEMMA StepCoversInputs ==
    ASSUME DocumentsTyped, generation \in Nat, [Next]_vars
    PROVE  MatchingInputs' = MatchingInputs \/ generation' > generation
  <1>1. UserStep => \/ UNCHANGED <<cur, proc, claims>>
                    \/ \E sources, touched, stale0, flags0 :
                          Invalidate(sources, touched, stale0, flags0)
                    \/ \E k \in Keys, d \in Uploads : RetryExtraction(k, d)
    <2>1. ASSUME NEW k \in Keys, NEW d \in Uploads, Intake(k, d)
          PROVE  \/ UNCHANGED <<cur, proc, claims>>
                 \/ \E sources, touched, stale0, flags0 :
                       Invalidate(sources, touched, stale0, flags0)
      BY <2>1 DEF Intake, docVars
    <2>2. ASSUME NEW k \in Keys, NEW d \in Uploads, NEW p \in Corrections[d],
                 EditDocument(k, d, p)
          PROVE  \E sources, touched, stale0, flags0 :
                       Invalidate(sources, touched, stale0, flags0)
      BY <2>2 DEF EditDocument
    <2>3. ASSUME NEW k \in Keys, NEW i \in Invoices, Confirm(k, i) \/ Reopen(k, i)
          PROVE  \E sources, touched, stale0, flags0 :
                       Invalidate(sources, touched, stale0, flags0)
      BY <2>3 DEF Confirm, Reopen
    <2>4. ASSUME NEW k \in Keys, NEW d \in Uploads, VoidDocument(k, d)
          PROVE  \E sources, touched, stale0, flags0 :
                       Invalidate(sources, touched, stale0, flags0)
      BY <2>4 DEF VoidDocument
    <2>5. CommandStep => \/ UNCHANGED <<cur, proc, claims>>
                         \/ \E k \in Keys, d \in Uploads : \E p \in Corrections[d] :
                               EditDocument(k, d, p)
                         \/ \E k \in Keys, i \in Invoices : Confirm(k, i) \/ Reopen(k, i)
                         \/ \E k \in Keys, d \in Uploads :
                               VoidDocument(k, d) \/ RetryExtraction(k, d)
      BY DEF CommandStep, OpenDocument, SelectNotes, Investigate, ConfirmRefusedStale, MarkStale,
             docVars, tableVars
    <2>. QED BY <2>1, <2>2, <2>3, <2>4, <2>5 DEF UserStep, Upload
  <1>2. SourceStep \/ FaultStep \/ ListPending \/ ReadAndCompute
            \/ (\E work \in worker.inputs : SavePreview(work) \/ DiscardPreview(work))
            \/ UNCHANGED vars
         => UNCHANGED <<cur, proc, claims>>
    BY DEF SourceStep, StoreDraft, DecideRun, ImportVersion, FaultStep, WorkerCrash, MarkLost,
           ListPending, ReadAndCompute, SavePreview, DiscardPreview, vars, docVars, tableVars
  <1>. QED BY <1>1, <1>2, SameRowsSameInputs, InvalidateAdvances, RetryKeepsInputs,
              SyncCoversInputs DEF Next, WorkerTick

\* Every row is typed, and what an invoice confirmed is held.
RowsInv == /\ SourcesInv
           /\ SourcesTyped /\ RevisionsTyped /\ ColumnsTyped /\ WorkerTyped

LEMMA RowsInvNext ==
    ASSUME RowsInv, [Next]_vars
    PROVE  RowsInv'
  BY SelectionsTypedNext, ConfirmationsTypedNext, ClaimsNext, DocumentsTypedNext,
     ConfirmedSourcesNext, SourcesTypedNext, RevisionsTypedNext, ColumnsTypedNext, WorkerTypedNext
     DEF RowsInv, SourcesInv, ClaimsInv

LEMMA RowsInvariant == Spec => []RowsInv
  <1>. DEFINE Types == SourcesTyped /\ RevisionsTyped /\ ColumnsTyped /\ WorkerTyped
  <1>1. Init => Types
    BY SourcesTypedInit, RevisionsTypedInit, TypedInit
  <1>2. SourcesInv /\ Types /\ [Next]_vars => Types'
    BY SourcesTypedNext, RevisionsTypedNext, ColumnsTypedNext, WorkerTypedNext
       DEF SourcesInv, ClaimsInv
  <1>3. SourcesInv /\ Types => RowsInv
    BY DEF RowsInv
  <1>. HIDE DEF Types
  <1>. QED BY <1>1, <1>2, <1>3, SourcesInvariant, PTL DEF Spec

(* No command, synchronisation or fault changes what a proposal or a       *)
(* comparison reads without advancing the generation that the worker       *)
(* compares (_invalidate).                                                 *)
THEOREM GenerationCorrect == Spec => GenerationCoversInputs
  <1>1. RowsInv /\ [Next]_vars =>
           [MatchingInputs' # MatchingInputs => generation' > generation]_vars
    BY StepCoversInputs DEF RowsInv, SourcesInv, ColumnsTyped
  <1>. QED BY <1>1, RowsInvariant, PTL DEF Spec, GenerationCoversInputs
-----------------------------------------------------------------------------
(* Previews.                                                               *)

\* The rows a digest is completed with: those of the present.
Surroundings(digest) ==
    [id |-> digest.invoice, invoice |-> digest.revision,
     notes |-> [n \in ReadyNotes |-> cur[n]], used |-> Used]

ResultFor(digest) ==
    Completed(Compare(digest.revision.payload, Payloads(digest.notes)), Surroundings(digest),
              digest.ids)

\* A row of previews that belongs to the present generation is true.
PreviewsTrue ==
    \A p \in previews : /\ p = [digest |-> p.digest, result |-> p.result]
                        /\ p.digest.gen \in Nat /\ p.digest.gen <= generation
                        /\ p.digest.gen = generation => p.result = ResultFor(p.digest)

\* The worker has computed what it says.
WorkerTrue ==
    worker.stage = "computed" =>
        \A work \in worker.inputs :
            /\ work.proposal = ProposalOf(work.input)
            /\ work.compared = ComparisonOf(work.input, work.proposal.selected)

LEMMA ResultOfIsResultFor ==
    ASSUME NEW i, NEW ids
    PROVE  ResultOf(InputOf(i), ids) = ResultFor(DigestOf(InputOf(i), ids))
  <1>. DEFINE digest == DigestOf(InputOf(i), ids)
              compared == ComparisonOf(InputOf(i), ids)
  <1>1. compared = Compare(digest.revision.payload, Payloads(digest.notes))
    BY DEF ComparisonOf, DigestOf, InputOf
  <1>2. Completed(compared, InputOf(i), ids) = Completed(compared, Surroundings(digest), ids)
    BY DEF Completed, SameInvoiceElsewhere, Surroundings, DigestOf, InputOf
  <1>3. digest.ids = ids
    BY DEF DigestOf
  <1>. QED BY <1>1, <1>2, <1>3 DEF ResultOf, ResultFor

LEMMA CompletedStays ==
    ASSUME MatchingInputs' = MatchingInputs, NEW digest, NEW compared, NEW ids
    PROVE  Completed(compared, Surroundings(digest), ids)'
              = Completed(compared, Surroundings(digest), ids)
  <1>1. /\ ReadyNotes' = ReadyNotes /\ Used' = Used
        /\ [n \in ReadyNotes |-> cur[n]]' = [n \in ReadyNotes |-> cur[n]]
        /\ Standing' = Standing
    BY DEF MatchingInputs
  <1>2. \A j \in Invoices : /\ cur'[j] = cur[j]
                            /\ (proc'[j] = "voided") = (proc[j] = "voided")
    BY <1>1 DEF Standing
  <1>3. Surroundings(digest)' = Surroundings(digest)
    BY <1>1 DEF Surroundings
  <1>4. SameInvoiceElsewhere(Surroundings(digest))' = SameInvoiceElsewhere(Surroundings(digest))
    BY <1>2, <1>3 DEF SameInvoiceElsewhere
  <1>. QED BY <1>3, <1>4 DEF Completed

\* A step that leaves what a preview shows as it was, or asks for a new one.
Quiet ==
    /\ UNCHANGED <<generation, previews>>
    /\ MatchingInputs' = MatchingInputs
    /\ \A i \in Invoices : UnderReview(i)' /\ ~stale'[i] =>
          /\ UnderReview(i) /\ ~stale[i]
          /\ selected'[i] = selected[i] /\ origin'[i] = origin[i] /\ preview'[i] = preview[i]

\* A step that makes every preview stale.
Renewing ==
    /\ generation' > generation /\ previews' = previews
    /\ \A i \in Invoices : UnderReview(i)' => stale'[i]

LEMMA InvalidateRenews ==
    ASSUME generation \in Nat, NEW sources, NEW touched, NEW stale0, NEW flags0,
           Invalidate(sources, touched, stale0, flags0), previews' = previews
    PROVE  Renewing
  <1>1. generation' > generation
    BY InvalidateAdvances
  <1>2. \A i \in Invoices : UnderReview(i)' => stale'[i]
    BY DEF Invalidate, Live, UnderReview
  <1>. QED BY <1>1, <1>2 DEF Renewing

LEMMA StepsOnPreviews ==
    ASSUME RowsInv, [Next]_vars
    PROVE  Quiet \/ Renewing \/ \E work \in worker.inputs : SavePreview(work)
  <1>. USE DEF RowsInv, SourcesInv, ClaimsInv, SelectionsTyped, ConfirmationsTyped, ReviewStates,
               ColumnsTyped, DocumentsTyped
  <1>1. ASSUME UNCHANGED <<docVars, invoiceVars, tableVars>> PROVE Quiet
    BY <1>1, SameRowsSameInputs DEF Quiet, UnderReview, docVars, invoiceVars, tableVars
  <1>2. ASSUME NEW k \in Keys, NEW d \in Uploads, Intake(k, d) PROVE Quiet \/ Renewing
    <2>1. UNCHANGED <<previews, claims>>
      BY <1>2 DEF Intake
    <2>2. CASE Invalidate({d}, {d}, stale, sourceChanged)
      BY <2>1, <2>2, InvalidateRenews
    <2>3. CASE UNCHANGED <<docVars, invoiceVars, generation, run>>
      BY <2>1, <2>3, SameRowsSameInputs DEF Quiet, UnderReview, docVars, invoiceVars
    <2>. QED BY <1>2, <2>2, <2>3 DEF Intake
  <1>3. ASSUME NEW k \in Keys, NEW d \in Uploads, NEW p \in Corrections[d],
               EditDocument(k, d, p)
        PROVE  Renewing
    BY <1>3, InvalidateRenews DEF EditDocument
  <1>4. ASSUME NEW k \in Keys, NEW i \in Invoices, NEW ids \in SUBSET Notes,
               SelectNotes(k, i, ids)
        PROVE  Quiet
    <2>1. /\ UNCHANGED <<proc, cur, review, claims, generation, previews>>
          /\ stale' = [stale EXCEPT ![i] = TRUE]
          /\ \A j \in Invoices \ {i} : /\ selected'[j] = selected[j] /\ origin'[j] = origin[j]
                                       /\ preview'[j] = preview[j]
      BY <1>4 DEF SelectNotes
    <2>. QED BY <2>1, SameRowsSameInputs DEF Quiet, UnderReview
  <1>5. ASSUME NEW k \in Keys, NEW i \in Invoices, Investigate(k, i) PROVE Quiet
    <2>1. /\ UNCHANGED <<proc, cur, claims, generation, previews, selected, origin, preview, stale>>
          /\ review' = [review EXCEPT ![i] = "investigating"] /\ UnderReview(i)
      BY <1>5 DEF Investigate
    <2>. QED BY <2>1, SameRowsSameInputs DEF Quiet, UnderReview
  <1>6. ASSUME NEW k \in Keys, NEW i \in Invoices, Confirm(k, i) \/ Reopen(k, i) PROVE Renewing
    BY <1>6, InvalidateRenews DEF Confirm, Reopen
  <1>7. ASSUME NEW i \in Invoices, MarkStale(i) PROVE Quiet
    <2>1. /\ UNCHANGED <<proc, cur, claims, generation, previews, selected, origin, preview, review>>
          /\ stale' = [stale EXCEPT ![i] = stale[i] \/ review[i] # "completed"]
      BY <1>7 DEF MarkStale, docVars, tableVars
    <2>. QED BY <2>1, SameRowsSameInputs DEF Quiet, UnderReview
  <1>8. ASSUME NEW k \in Keys, NEW d \in Uploads, VoidDocument(k, d) PROVE Renewing
    BY <1>8, InvalidateRenews DEF VoidDocument
  <1>9. ASSUME NEW k \in Keys, NEW d \in Uploads, RetryExtraction(k, d) PROVE Quiet
    <2>1. /\ UNCHANGED <<invoiceVars, generation, previews>>
          /\ proc' = [proc EXCEPT ![d] = "processing"]
      BY <1>9 DEF RetryExtraction
    <2>. QED BY <1>9, <2>1, RetryKeepsInputs DEF Quiet, UnderReview, invoiceVars, ProcStates
  <1>10. ASSUME NEW failing \in SUBSET Docs, SyncSources(failing) PROVE Quiet \/ Renewing
    <2>1. /\ previews' = previews /\ claims' = claims /\ review' = review
          /\ UNCHANGED <<selected, origin, preview>>
      BY <1>10 DEF SyncSources
    <2>2. CASE \E changed, touched : Invalidate(changed, touched, stale, sourceChanged)
      BY <2>1, <2>2, InvalidateRenews
    <2>3. CASE /\ cur' = [d \in Docs |-> cur[d]] /\ proc' = [d \in Docs |-> proc[d]]
               /\ UNCHANGED <<generation, stale>>
      <3>1. cur' = cur /\ proc' = proc
        BY <2>3
      <3>. QED BY <2>1, <2>3, <3>1, SameRowsSameInputs DEF Quiet, UnderReview
    <2>4. \/ \E changed, touched : Invalidate(changed, touched, stale, sourceChanged)
          \/ /\ cur' = [d \in Docs |-> cur[d]] /\ proc' = [d \in Docs |-> proc[d]]
             /\ UNCHANGED <<generation, stale>>
      BY <1>10 DEF SyncSources
    <2>. QED BY <2>2, <2>3, <2>4
  <1>11. SourceStep \/ FaultStep \/ ListPending \/ ReadAndCompute
            \/ (\E work \in worker.inputs : DiscardPreview(work)) \/ UNCHANGED vars
         => UNCHANGED <<docVars, invoiceVars, tableVars>>
    BY DEF SourceStep, StoreDraft, DecideRun, ImportVersion, FaultStep, WorkerCrash, MarkLost,
           ListPending, ReadAndCompute, DiscardPreview, vars
  <1>12. CommandStep =>
            \/ UNCHANGED <<docVars, invoiceVars, tableVars>>
            \/ \E k \in Keys, d \in Uploads : \E p \in Corrections[d] : EditDocument(k, d, p)
            \/ \E k \in Keys, i \in Invoices : \E ids \in SUBSET Notes : SelectNotes(k, i, ids)
            \/ \E k \in Keys, i \in Invoices : Investigate(k, i)
            \/ \E k \in Keys, i \in Invoices : Confirm(k, i) \/ Reopen(k, i)
            \/ \E i \in Invoices : MarkStale(i)
            \/ \E k \in Keys, d \in Uploads : VoidDocument(k, d)
            \/ \E k \in Keys, d \in Uploads : RetryExtraction(k, d)
    BY DEF CommandStep, OpenDocument, ConfirmRefusedStale
  <1>13. CASE UserStep
    BY <1>1, <1>2, <1>3, <1>4, <1>5, <1>6, <1>7, <1>8, <1>9, <1>12, <1>13 DEF UserStep, Upload
  <1>. HIDE DEF RowsInv
  <1>. QED BY <1>1, <1>10, <1>11, <1>13 DEF Next, WorkerTick

LEMMA WorkerTrueNext ==
    ASSUME WorkerTrue, WorkerTyped, [Next]_vars
    PROVE  WorkerTrue'
  <1>. USE DEF WorkerTrue, WorkerTyped, Stages
  <1>1. UserStep \/ SourceStep \/ UNCHANGED vars => worker' = worker
    BY DEF UserStep, Upload, CommandStep, Intake, OpenDocument, EditDocument, SelectNotes, Investigate,
           Confirm, ConfirmRefusedStale, MarkStale, Reopen, ClaimsWithout, VoidDocument,
           RetryExtraction, SourceStep, StoreDraft, DecideRun, ImportVersion, actorVars, vars
  <1>2. FaultStep => worker' = worker \/ worker' = Idle
    BY DEF FaultStep, WorkerCrash, MarkLost
  <1>3. /\ (\E failing \in SUBSET Docs : SyncSources(failing)) => worker'.stage = "synced"
        /\ ListPending => worker'.stage \in {"idle", "listed"}
    <2>1. ASSUME NEW failing \in SUBSET Docs, SyncSources(failing) PROVE worker'.stage = "synced"
      BY <2>1 DEF SyncSources
    <2>. QED BY <2>1 DEF ListPending, Idle
  <1>4. CASE ReadAndCompute
    <2>. DEFINE refreshed == {[listed EXCEPT !.gen = generation, !.used = Used] :
                                 listed \in worker.inputs}
                works == {[input |-> input, proposal |-> ProposalOf(input),
                           compared |-> ComparisonOf(input, ProposalOf(input).selected)] :
                             input \in refreshed}
    <2>1. worker' = [stage |-> "computed", inputs |-> works]
      BY <1>4 DEF ReadAndCompute
    <2>. HIDE DEF refreshed
    <2>2. \A work \in works : /\ work.proposal = ProposalOf(work.input)
                              /\ work.compared
                                    = ComparisonOf(work.input, work.proposal.selected)
      OBVIOUS
    <2>. HIDE DEF works
    <2>. QED BY <2>1, <2>2
  <1>5. ASSUME NEW work \in worker.inputs, SavePreview(work) \/ DiscardPreview(work)
        PROVE  WorkerTrue'
    <2>1. worker' = Without(work)
      BY <1>5 DEF SavePreview, DiscardPreview
    <2>. QED BY <2>1 DEF Without, Idle
  <1>. QED BY <1>1, <1>2, <1>3, <1>4, <1>5 DEF Next, WorkerTick, Idle

LEMMA ResultForStays ==
    ASSUME MatchingInputs' = MatchingInputs, NEW digest
    PROVE  ResultFor(digest)' = ResultFor(digest)
  <1>. DEFINE compared == Compare(digest.revision.payload, Payloads(digest.notes))
  <1>1. Completed(compared, Surroundings(digest), digest.ids)'
           = Completed(compared, Surroundings(digest), digest.ids)
    BY CompletedStays
  <1>. QED BY <1>1 DEF ResultFor

\* What the worker saves: its input is the present one, so the row of
\* previews is true, found or made.
LEMMA SaveIsTrue ==
    ASSUME RowsInv, PreviewsTrue, WorkerTrue,
           NEW work \in worker.inputs, SavePreview(work)
    PROVE  LET i   == work.input.id
               ids == ProposalOf(InputOf(i)).selected
               row == [digest |-> DigestOf(InputOf(i), ids),
                       result |-> ResultFor(DigestOf(InputOf(i), ids))]
           IN  /\ selected' = [selected EXCEPT ![i] = ids]
               /\ origin' = [origin EXCEPT ![i] =
                     IF @ = "manual" THEN @ ELSE IF ids = {} THEN "none" ELSE "automatic"]
               /\ preview' = [preview EXCEPT ![i] = IF ids = {} THEN Null ELSE row]
               /\ previews' \subseteq previews \cup {row}
  <1>. DEFINE i      == work.input.id
              ids    == ProposalOf(InputOf(i)).selected
              digest == DigestOf(InputOf(i), ids)
              same   == {p \in previews : p.digest = digest}
              made   == [digest |-> digest, result |-> Completed(work.compared, work.input, ids)]
              row    == IF same # {} THEN CHOOSE p \in same : TRUE ELSE made
              true   == [digest |-> digest, result |-> ResultFor(digest)]
  <1>1. work.input = InputOf(i)
    BY DEF SavePreview, InputCurrent
  <1>2. work.proposal.selected = ids /\ work.compared = ComparisonOf(InputOf(i), ids)
    BY <1>1 DEF SavePreview, WorkerTrue
  <1>3. made = true
    BY <1>1, <1>2, ResultOfIsResultFor DEF ResultOf
  <1>4. \A p \in same : p = true
    <2>1. digest.gen = generation
      BY DEF DigestOf, InputOf
    <2>. QED BY <2>1 DEF PreviewsTrue
  <1>5. row = true
    BY <1>3, <1>4
  <1>6. /\ selected' = [selected EXCEPT ![i] = ids]
        /\ origin' = [origin EXCEPT ![i] =
              IF @ = "manual" THEN @ ELSE IF ids = {} THEN "none" ELSE "automatic"]
        /\ preview' = [preview EXCEPT ![i] = IF ids = {} THEN Null ELSE row]
        /\ previews' = IF ids = {} THEN previews ELSE previews \cup {row}
    BY <1>1, <1>2 DEF SavePreview
  <1>. QED BY <1>5, <1>6

LEMMA PreviewsTrueNext ==
    ASSUME RowsInv, PreviewsTrue, WorkerTrue, [Next]_vars
    PROVE  PreviewsTrue'
  <1>. USE DEF PreviewsTrue
  <1>1. generation \in Nat
    BY DEF RowsInv, ColumnsTyped
  <1>2. CASE Quiet
    BY <1>2, ResultForStays DEF Quiet
  <1>3. CASE Renewing
    <2>1. generation' \in Nat
      BY RowsInvNext DEF RowsInv, ColumnsTyped
    <2>. QED BY <1>1, <1>3, <2>1 DEF Renewing
  <1>4. ASSUME NEW work \in worker.inputs, SavePreview(work) PROVE PreviewsTrue'
    <2>. DEFINE i   == work.input.id
                ids == ProposalOf(InputOf(i)).selected
                digest == DigestOf(InputOf(i), ids)
                row == [digest |-> digest, result |-> ResultFor(digest)]
    <2>1. previews' \subseteq previews \cup {row}
      BY <1>4, SaveIsTrue
    <2>2. generation' = generation /\ MatchingInputs' = MatchingInputs
      BY <1>4, SameRowsSameInputs DEF SavePreview
    <2>3. digest.gen = generation
      BY DEF DigestOf, InputOf
    <2>. HIDE DEF digest
    <2>4. \A p \in previews \cup {row} :
              /\ p = [digest |-> p.digest, result |-> p.result]
              /\ p.digest.gen \in Nat /\ p.digest.gen <= generation
              /\ p.digest.gen = generation => p.result = ResultFor(p.digest)
      BY <1>1, <2>3
    <2>. QED BY <2>1, <2>2, <2>4, ResultForStays
  <1>. QED BY <1>2, <1>3, <1>4, StepsOnPreviews

\* FreshPreviewIsTrue, said of the digest.
PreviewFor(digest) == [digest |-> digest, result |-> ResultFor(digest)]
ShownFor(i, ids)   == IF ids = {} THEN Null ELSE PreviewFor(DigestOf(InputOf(i), ids))
Fresh(i) == /\ selected[i] = ProposalOf(InputOf(i)).selected
            /\ preview[i] = ShownFor(i, selected[i])
FreshAre == \A i \in Invoices : UnderReview(i) /\ ~stale[i] => Fresh(i)

LEMMA FreshAreTrue ==
    ASSUME FreshAre
    PROVE  FreshPreviewIsTrue
  BY ResultOfIsResultFor DEF FreshAre, Fresh, ShownFor, PreviewFor, FreshPreviewIsTrue

\* What a preview shows depends on the matching inputs, on the generation
\* and on what a person selected.
LEMMA ReadingStays ==
    ASSUME MatchingInputs' = MatchingInputs, generation' = generation, NEW i \in Invoices,
           InputOf(i).manual' = InputOf(i).manual, NEW ids
    PROVE  /\ ProposalOf(InputOf(i))' = ProposalOf(InputOf(i))
           /\ ShownFor(i, ids)' = ShownFor(i, ids)
  <1>1. /\ cur'[i] = cur[i] /\ Used' = Used
        /\ [n \in ReadyNotes |-> cur[n]]' = [n \in ReadyNotes |-> cur[n]]
    BY DEF MatchingInputs, Standing
  <1>2. /\ InputOf(i).id' = i /\ InputOf(i).id = i
        /\ InputOf(i).invoice' = InputOf(i).invoice
        /\ InputOf(i).notes' = InputOf(i).notes
        /\ InputOf(i).used' = InputOf(i).used
        /\ InputOf(i).gen' = InputOf(i).gen
    BY <1>1 DEF InputOf
  <1>3. /\ ProposalOf(InputOf(i))' = ProposalOf(InputOf(i))
        /\ DigestOf(InputOf(i), ids)' = DigestOf(InputOf(i), ids)
    BY <1>2 DEF ProposalOf, DigestOf
  <1>4. ASSUME NEW d PROVE PreviewFor(d)' = PreviewFor(d)
    BY ResultForStays DEF PreviewFor
  <1>5. PreviewFor(DigestOf(InputOf(i), ids))' = PreviewFor(DigestOf(InputOf(i), ids))
    BY <1>3, <1>4
  <1>. QED BY <1>3, <1>5 DEF ShownFor

LEMMA FreshAreNext ==
    ASSUME RowsInv, PreviewsTrue, WorkerTrue, FreshAre, [Next]_vars
    PROVE  FreshAre'
  <1>1. CASE Quiet
    <2>1. ASSUME NEW i \in Invoices, UnderReview(i)', ~stale'[i] PROVE Fresh(i)'
      <3>1. /\ UnderReview(i) /\ ~stale[i]
            /\ selected'[i] = selected[i] /\ origin'[i] = origin[i] /\ preview'[i] = preview[i]
            /\ generation' = generation /\ MatchingInputs' = MatchingInputs
        BY <1>1, <2>1 DEF Quiet
      <3>2. InputOf(i).manual' = InputOf(i).manual
        BY <3>1 DEF InputOf
      <3>3. Fresh(i)
        BY <3>1 DEF FreshAre
      <3>. QED BY <3>1, <3>2, <3>3, ReadingStays DEF Fresh
    <2>. QED BY <2>1 DEF FreshAre
  <1>2. CASE Renewing
    BY <1>2 DEF Renewing, FreshAre
  <1>3. ASSUME NEW work \in worker.inputs, SavePreview(work) PROVE FreshAre'
    <2>. DEFINE saved == work.input.id
                ids   == ProposalOf(InputOf(saved)).selected
    <2>1. /\ selected' = [selected EXCEPT ![saved] = ids]
          /\ origin' = [origin EXCEPT ![saved] =
                IF @ = "manual" THEN @ ELSE IF ids = {} THEN "none" ELSE "automatic"]
          /\ preview' = [preview EXCEPT ![saved] = ShownFor(saved, ids)]
      BY <1>3, SaveIsTrue DEF ShownFor, PreviewFor
    <2>2. /\ UNCHANGED <<cur, proc, review, claims, generation>>
          /\ stale' = [stale EXCEPT ![saved] = FALSE]
          /\ MatchingInputs' = MatchingInputs
      BY <1>3, SameRowsSameInputs DEF SavePreview
    <2>3. /\ selected \in [Invoices -> SUBSET Notes]
          /\ origin \in [Invoices -> {"none", "automatic", "manual"}]
          /\ preview \in [Invoices -> previews \cup {Null}]
          /\ stale \in [Invoices -> BOOLEAN]
      BY DEF RowsInv, SourcesInv, ClaimsInv, SelectionsTyped, ConfirmationsTyped, ColumnsTyped
    <2>4. ASSUME NEW i \in Invoices, i # saved, UnderReview(i)', ~stale'[i] PROVE Fresh(i)'
      <3>1. /\ selected'[i] = selected[i] /\ origin'[i] = origin[i] /\ preview'[i] = preview[i]
            /\ UnderReview(i) /\ ~stale[i]
        BY <2>1, <2>2, <2>3, <2>4 DEF UnderReview
      <3>2. InputOf(i).manual' = InputOf(i).manual
        BY <3>1 DEF InputOf
      <3>3. Fresh(i)
        BY <3>1 DEF FreshAre
      <3>. QED BY <2>2, <3>1, <3>2, <3>3, ReadingStays DEF Fresh
    <2>5. ASSUME saved \in Invoices PROVE Fresh(saved)'
      <3>1. /\ selected'[saved] = ids /\ preview'[saved] = ShownFor(saved, ids)
            /\ origin'[saved] = "manual" <=> origin[saved] = "manual"
        BY <2>1, <2>3, <2>5
      \* A manual selection proposes itself.
      <3>2. origin[saved] = "manual" => ids = selected[saved]
        <4>1. origin[saved] = "manual" => InputOf(saved).manual = {selected[saved]}
          BY DEF InputOf
        <4>. QED BY <4>1 DEF ProposalOf
      <3>3. InputOf(saved).manual' = InputOf(saved).manual
        BY <3>1, <3>2 DEF InputOf
      <3>4. /\ ProposalOf(InputOf(saved))' = ProposalOf(InputOf(saved))
            /\ \A S : ShownFor(saved, S)' = ShownFor(saved, S)
        BY <2>2, <2>5, <3>3, ReadingStays
      <3>. QED BY <3>1, <3>4 DEF Fresh
    <2>. QED BY <2>4, <2>5 DEF FreshAre
  <1>. QED BY <1>1, <1>2, <1>3, StepsOnPreviews

(* A preview that is not stale shows what the rows of now give, although   *)
(* it was computed from rows read earlier and saved later (save_preview,   *)
(* _invalidate).                                                           *)
THEOREM FreshPreviewCorrect == Spec => []FreshPreviewIsTrue
  <1>. DEFINE FreshInv == PreviewsTrue /\ WorkerTrue /\ FreshAre
  <1>1. Init => FreshInv
    BY DEF Init, PreviewsTrue, WorkerTrue, Idle, FreshAre
  <1>2. RowsInv /\ FreshInv /\ [Next]_vars => FreshInv'
    BY PreviewsTrueNext, WorkerTrueNext, FreshAreNext DEF RowsInv
  <1>3. FreshInv => FreshPreviewIsTrue
    BY FreshAreTrue
  <1>. HIDE DEF FreshInv
  <1>. QED BY <1>1, <1>2, <1>3, RowsInvariant, PTL DEF Spec
-----------------------------------------------------------------------------
(* Corrections.                                                            *)

\* The steps that replace a revision are two.
LEMMA StepsOnRevisions ==
    ASSUME DocumentsTyped, [Next]_vars
    PROVE  \/ cur' = cur
           \/ \E k \in Keys, d \in Uploads : \E p \in Corrections[d] : EditDocument(k, d, p)
           \/ \E failing \in SUBSET Docs : SyncSources(failing)
  <1>1. UserStep => \/ cur' = cur
                    \/ \E k \in Keys, d \in Uploads : \E p \in Corrections[d] :
                          EditDocument(k, d, p)
    BY DEF UserStep, Upload, CommandStep, Intake, OpenDocument, SelectNotes, Investigate, Confirm,
           ConfirmRefusedStale, MarkStale, Reopen, ClaimsWithout, VoidDocument, RetryExtraction,
           docVars
  <1>2. SourceStep \/ FaultStep \/ ListPending \/ ReadAndCompute
            \/ (\E work \in worker.inputs : SavePreview(work) \/ DiscardPreview(work))
            \/ UNCHANGED vars
         => cur' = cur
    BY DEF SourceStep, StoreDraft, DecideRun, ImportVersion, FaultStep, WorkerCrash, MarkLost,
           ListPending, ReadAndCompute, SavePreview, DiscardPreview, vars, docVars
  <1>. QED BY <1>1, <1>2 DEF Next, WorkerTick

\* An edit replaces one revision by a correction of it.
LEMMA EditCorrects ==
    ASSUME DocumentsTyped, NEW k \in Keys, NEW d \in Uploads, NEW p \in Corrections[d],
           EditDocument(k, d, p)
    PROVE  /\ d \in Docs /\ proc[d] = "ready" /\ k \in served' \ served
           /\ session[k] # Null /\ session[k].doc = d /\ session[k].rev = rev[d]
           /\ \A e \in Docs \ {d} : cur'[e] = cur[e]
           /\ cur'[d].kind = "manual" /\ cur'[d].base = cur[d].base
           /\ cur'[d].source = cur[d].source
  <1>1. /\ d \in Docs /\ proc[d] = "ready"
        /\ session[k] # Null /\ session[k].doc = d /\ k \notin served
        /\ served' = served \cup {k} /\ AtRevision(k, d)
        /\ cur' = [cur EXCEPT ![d] = Correction(d, p)]
    BY DocumentsAreDocs DEF EditDocument, Command
  <1>2. cur'[d] = Correction(d, p) /\ \A e \in Docs \ {d} : cur'[e] = cur[e]
    BY <1>1 DEF DocumentsTyped
  <1>. QED BY <1>1, <1>2 DEF AtRevision, Correction, Revision

\* A synchronisation replaces the revisions of sources that moved on: the
\* upstream records, and the uploads nobody corrected.
LEMMA SyncReplaces ==
    ASSUME DocumentsTyped, NEW failing \in SUBSET Docs, SyncSources(failing),
           NEW d \in Docs, cur'[d] # cur[d]
    PROVE  \/ d \in UpstreamNotes /\ cur'[d].kind = "upstream"
           \/ d \in Uploads /\ ~HandCorrected(d) /\ cur'[d].kind = "extracted"
  BY DEF SyncSources, SyncedUploads, Revision

(* A person's correction is never replaced by an extraction, and its base  *)
(* stays the extraction it started from (_append_revision, _sync_upload).  *)
THEOREM CorrectionsKept == Spec => CorrectionsAreKept
  <1>. DEFINE Kept(d) ==
                 cur'[d] # cur[d] /\ cur[d] # Null =>
                    /\ cur[d].kind = "manual" => cur'[d].kind = "manual"
                    /\ cur'[d].kind = "manual" =>
                          cur'[d].base = cur[d].base /\ cur'[d].source = cur[d].source
  <1>1. ASSUME DocumentsTyped, [Next]_vars, NEW d \in Uploads PROVE Kept(d)
    <2>0. d \in Docs /\ d \notin UpstreamNotes
      BY DocumentsAreDocs, DocumentKinds
    <2>1. ASSUME NEW k \in Keys, NEW e \in Uploads, NEW p \in Corrections[e],
                 EditDocument(k, e, p)
          PROVE  Kept(d)
      BY <1>1, <2>0, <2>1, EditCorrects
    <2>2. ASSUME NEW failing \in SUBSET Docs, SyncSources(failing) PROVE Kept(d)
      BY <1>1, <2>0, <2>2, SyncReplaces DEF HandCorrected
    <2>. QED BY <1>1, <2>1, <2>2, StepsOnRevisions
  <1>2. RowsInv /\ [Next]_vars => [\A d \in Uploads : Kept(d)]_vars
    BY <1>1 DEF RowsInv, SourcesInv
  <1>. QED BY <1>2, RowsInvariant, PTL DEF Spec, CorrectionsAreKept

\* A document's revision counter never goes back, and counts every new revision.
Counted(d) == rev'[d] >= rev[d] /\ (cur'[d] # cur[d] => rev'[d] > rev[d])

LEMMA TouchCounts ==
    ASSUME rev \in [Docs -> Nat], NEW touched, Touch(touched), NEW d \in Docs
    PROVE  rev'[d] >= rev[d] /\ (d \in touched => rev'[d] > rev[d])
  BY DEF Touch

LEMMA InvalidateCounts ==
    ASSUME rev \in [Docs -> Nat], NEW sources, NEW touched, NEW stale0, NEW flags0,
           Invalidate(sources, touched, stale0, flags0), NEW d \in Docs
    PROVE  rev'[d] >= rev[d] /\ (d \in touched => rev'[d] > rev[d])
  <1>. DEFINE all == touched \cup Live \cup Flagged(sources, flags0)
  <1>1. Touch(all)
    BY DEF Invalidate
  <1>2. d \in touched => d \in all
    OBVIOUS
  <1>. HIDE DEF all
  <1>. QED BY <1>1, <1>2, TouchCounts

LEMMA StepCounts ==
    ASSUME RowsInv, [Next]_vars, NEW d \in Docs
    PROVE  Counted(d)
  <1>. USE DEF Counted
  <1>0. rev \in [Docs -> Nat] /\ DocumentsTyped
    BY DEF RowsInv, ColumnsTyped, SourcesInv
  <1>1. ASSUME NEW k \in Keys, NEW e \in Uploads, NEW p \in Corrections[e], EditDocument(k, e, p)
        PROVE  Counted(d)
    <2>1. Invalidate({e}, {e}, stale, sourceChanged)
      BY <1>1 DEF EditDocument
    <2>. QED BY <1>0, <1>1, <2>1, InvalidateCounts, EditCorrects
  <1>2. ASSUME NEW failing \in SUBSET Docs, SyncSources(failing) PROVE Counted(d)
    <2>1. \/ /\ cur'[d] = cur[d]
             /\ \E touched : Touch(touched)
          \/ \E changed, touched : /\ Invalidate(changed, touched, stale, sourceChanged)
                                   /\ cur'[d] # cur[d] => d \in touched
      BY <1>2 DEF SyncSources
    <2>. QED BY <1>0, <2>1, TouchCounts, InvalidateCounts
  <1>3. CASE cur' = cur /\ rev' = rev
    BY <1>0, <1>3
  <1>4. CASE cur' = cur /\ \E touched : Touch(touched)
    BY <1>0, <1>4, TouchCounts
  <1>5. CASE cur' = cur /\ \E sources, touched, stale0, flags0 :
                              Invalidate(sources, touched, stale0, flags0)
    BY <1>0, <1>5, InvalidateCounts
  <1>6. UserStep =>
           \/ cur' = cur /\ rev' = rev
           \/ cur' = cur /\ \E touched : Touch(touched)
           \/ cur' = cur /\ \E sources, touched, stale0, flags0 :
                               Invalidate(sources, touched, stale0, flags0)
           \/ \E k \in Keys, e \in Uploads : \E p \in Corrections[e] : EditDocument(k, e, p)
    <2>1. ASSUME NEW k \in Keys, NEW e \in Uploads, Intake(k, e)
          PROVE  cur' = cur /\ (rev' = rev \/ \E sources, touched, stale0, flags0 :
                                                 Invalidate(sources, touched, stale0, flags0))
      BY <2>1 DEF Intake, docVars
    <2>2. ASSUME NEW k \in Keys, NEW i \in Invoices, Confirm(k, i) \/ Reopen(k, i)
          PROVE  cur' = cur /\ \E sources, touched, stale0, flags0 :
                                  Invalidate(sources, touched, stale0, flags0)
      BY <2>2 DEF Confirm, Reopen
    <2>3. ASSUME NEW k \in Keys, NEW e \in Uploads, VoidDocument(k, e)
          PROVE  cur' = cur /\ \E sources, touched, stale0, flags0 :
                                  Invalidate(sources, touched, stale0, flags0)
      BY <2>3 DEF VoidDocument
    <2>4. ASSUME NEW k \in Keys, NEW i \in Invoices,
                 \/ \E ids \in SUBSET Notes : SelectNotes(k, i, ids)
                 \/ Investigate(k, i)
          PROVE  cur' = cur /\ \E touched : Touch(touched)
      BY <2>4 DEF SelectNotes, Investigate
    <2>5. ASSUME NEW k \in Keys, NEW e \in Uploads, RetryExtraction(k, e)
          PROVE  cur' = cur /\ \E touched : Touch(touched)
      BY <2>5 DEF RetryExtraction
    <2>6. CommandStep =>
             \/ cur' = cur /\ rev' = rev
             \/ \E k \in Keys, e \in Uploads : \E p \in Corrections[e] : EditDocument(k, e, p)
             \/ \E k \in Keys, i \in Invoices : \/ Confirm(k, i) \/ Reopen(k, i)
                                                \/ \E ids \in SUBSET Notes : SelectNotes(k, i, ids)
                                                \/ Investigate(k, i)
             \/ \E k \in Keys, e \in Uploads : VoidDocument(k, e) \/ RetryExtraction(k, e)
      BY DEF CommandStep, OpenDocument, ConfirmRefusedStale, MarkStale, docVars
    <2>. QED BY <2>1, <2>2, <2>3, <2>4, <2>5, <2>6 DEF UserStep, Upload
  <1>7. SourceStep \/ FaultStep \/ ListPending \/ ReadAndCompute
            \/ (\E work \in worker.inputs : DiscardPreview(work)) \/ UNCHANGED vars
         => cur' = cur /\ rev' = rev
    BY DEF SourceStep, StoreDraft, DecideRun, ImportVersion, FaultStep, WorkerCrash, MarkLost,
           ListPending, ReadAndCompute, DiscardPreview, vars, docVars
  <1>8. (\E work \in worker.inputs : SavePreview(work))
         => cur' = cur /\ \E touched : Touch(touched)
    BY DEF SavePreview
  <1>. QED BY <1>1, <1>2, <1>3, <1>4, <1>5, <1>6, <1>7, <1>8 DEF Next, WorkerTick

\* What a client was shown is current while the counter is where it was.
SessionsTrue ==
    \A k \in Keys : session[k] # Null =>
        /\ session[k].doc \in Docs /\ session[k].rev \in Nat
        /\ session[k].rev <= rev[session[k].doc]
        /\ session[k].rev = rev[session[k].doc] => session[k].shown = cur[session[k].doc]

LEMMA SessionsTrueNext ==
    ASSUME RowsInv, SessionsTrue, session = [k \in Keys |-> session[k]], [Next]_vars
    PROVE  SessionsTrue' /\ session' = [k \in Keys |-> session'[k]]
  <1>. USE DEF SessionsTrue
  <1>0. rev \in [Docs -> Nat] /\ rev' \in [Docs -> Nat]
    BY RowsInvNext DEF RowsInv, ColumnsTyped
  <1>1. \A d \in Docs : Counted(d)
    BY StepCounts
  <1>2. CASE session' = session
    BY <1>0, <1>1, <1>2 DEF Counted
  <1>3. ASSUME NEW k \in Keys, NEW d \in Uploads, OpenDocument(k, d)
        PROVE  SessionsTrue' /\ session' = [l \in Keys |-> session'[l]]
    <2>. DEFINE opened == [doc |-> d, rev |-> rev[d], shown |-> cur[d],
                           preview |-> IF d \in Invoices THEN preview[d] ELSE Null]
    <2>1. session' = [session EXCEPT ![k] = opened] /\ rev' = rev /\ cur' = cur
      BY <1>3 DEF OpenDocument, docVars
    <2>2. /\ opened.doc \in Docs /\ opened.rev \in Nat
          /\ opened.rev <= rev[opened.doc] /\ opened.shown = cur[opened.doc]
      BY <1>0, DocumentsAreDocs
    <2>. HIDE DEF opened
    <2>3. session'[k] = opened /\ \A l \in Keys \ {k} : session'[l] = session[l]
      BY <2>1
    <2>. QED BY <2>1, <2>2, <2>3
  <1>4. UserStep => session' = session \/ \E k \in Keys, d \in Uploads : OpenDocument(k, d)
    BY DEF UserStep, Upload, CommandStep, Intake, EditDocument, SelectNotes, Investigate, Confirm,
           ConfirmRefusedStale, MarkStale, Reopen, ClaimsWithout, VoidDocument, RetryExtraction,
           actorVars
  <1>5. SourceStep \/ FaultStep \/ WorkerTick \/ UNCHANGED vars => session' = session
    BY DEF SourceStep, StoreDraft, DecideRun, ImportVersion, FaultStep, WorkerCrash, MarkLost,
           WorkerTick, SyncSources, ListPending, ReadAndCompute, SavePreview, DiscardPreview,
           vars, actorVars
  <1>. QED BY <1>2, <1>3, <1>4, <1>5 DEF Next

(* No edit is lost: a correction replaces the revision its author was      *)
(* shown, whatever ran in between (_mutate's revision check).              *)
THEOREM EditsCorrect == Spec => EditsReplaceWhatWasRead
  <1>. DEFINE Sessions == SessionsTrue /\ session = [k \in Keys |-> session[k]]
              Stacked(d) ==
                 cur'[d] # cur[d] /\ cur'[d] # Null /\ cur'[d].kind = "manual" =>
                    \E k \in served' \ served : session[k].doc = d /\ session[k].shown = cur[d]
  <1>1. Init => Sessions
    BY DEF Init, SessionsTrue
  <1>2. RowsInv /\ Sessions /\ [Next]_vars => Sessions'
    BY SessionsTrueNext
  <1>3. ASSUME RowsInv, Sessions, [Next]_vars, NEW d \in Docs PROVE Stacked(d)
    <2>0. DocumentsTyped
      BY <1>3 DEF RowsInv, SourcesInv
    <2>1. ASSUME NEW k \in Keys, NEW e \in Uploads, NEW p \in Corrections[e],
                 EditDocument(k, e, p)
          PROVE  Stacked(d)
      <3>1. cur'[d] # cur[d] => d = e
        BY <2>0, <2>1, EditCorrects
      <3>2. /\ session[k] # Null /\ session[k].doc = e /\ session[k].rev = rev[e]
            /\ k \in served' \ served
        BY <2>0, <2>1, EditCorrects
      <3>3. session[k].shown = cur[e]
        BY <1>3, <3>2 DEF SessionsTrue
      <3>. QED BY <3>1, <3>2, <3>3
    <2>2. ASSUME NEW failing \in SUBSET Docs, SyncSources(failing) PROVE Stacked(d)
      BY <2>0, <2>2, SyncReplaces
    <2>. QED BY <1>3, <2>0, <2>1, <2>2, StepsOnRevisions
  <1>4. RowsInv /\ Sessions /\ [Next]_vars => [\A d \in Docs : Stacked(d)]_vars
    BY <1>3
  <1>. HIDE DEF Sessions
  <1>. QED BY <1>1, <1>2, <1>4, RowsInvariant, PTL DEF Spec, EditsReplaceWhatWasRead
-----------------------------------------------------------------------------
(* Confirmations.                                                          *)

\* An upstream document is a projection of a version that was delivered.
UpstreamTrue ==
    \A n \in UpstreamNotes : Present(n) =>
        /\ cur[n].source \in 1 .. upstream[n].version
        /\ cur[n].source = upstream[n].version =>
              /\ cur[n].payload = upstream[n].payload
              /\ proc[n] = "ready" => ~upstream[n].voided

LEMMA UpstreamTrueNext ==
    ASSUME RowsInv, UpstreamTrue, [Next]_vars
    PROVE  UpstreamTrue'
  <1>. USE DEF UpstreamTrue, Present
  <1>0. /\ DocumentsTyped /\ UpstreamNotes \subseteq Docs /\ UpstreamNotes \cap Uploads = {}
        /\ \A n \in UpstreamNotes : upstream[n].version \in Nat
        /\ upstream = [n \in UpstreamNotes |-> upstream[n]]
    BY DocumentKinds DEF RowsInv, SourcesInv, SourcesTyped, Docs, Notes
  <1>1. CASE \A n \in UpstreamNotes : cur'[n] = cur[n] /\ proc'[n] = proc[n]
                                      /\ upstream'[n] = upstream[n]
    BY <1>1
  <1>2. ASSUME NEW n \in UpstreamNotes, NEW v \in Imported[n], ImportVersion(n, v)
        PROVE  UpstreamTrue'
    <2>1. /\ cur' = cur /\ proc' = proc
          /\ upstream'[n].version = upstream[n].version + 1
          /\ \A m \in UpstreamNotes \ {n} : upstream'[m] = upstream[m]
      BY <1>0, <1>2 DEF ImportVersion, docVars
    <2>. QED BY <1>0, <2>1
  <1>3. ASSUME NEW failing \in SUBSET Docs, SyncSources(failing) PROVE UpstreamTrue'
    <2>1. ASSUME NEW n \in UpstreamNotes
          PROVE  \/ cur'[n] = cur[n] /\ proc'[n] = proc[n]
                 \/ /\ upstream[n].version > 0
                    /\ cur'[n].source = upstream[n].version
                    /\ cur'[n].payload = upstream[n].payload
                    /\ proc'[n] = IF upstream[n].voided THEN "voided" ELSE "ready"
      BY <1>0, <1>3 DEF SyncSources, SyncedUploads, Revision
    <2>2. upstream' = upstream
      BY <1>3 DEF SyncSources, sourceVars
    <2>. QED BY <1>0, <2>1, <2>2
  <1>4. UserStep => \A n \in UpstreamNotes : /\ cur'[n] = cur[n] /\ proc'[n] = proc[n]
                                             /\ upstream'[n] = upstream[n]
    <2>1. ASSUME NEW k \in Keys, NEW d \in Uploads, NEW p \in Corrections[d],
                 EditDocument(k, d, p)
          PROVE  UNCHANGED <<proc, upstream>> /\ \A e \in Docs \ {d} : cur'[e] = cur[e]
      BY <1>0, <2>1, EditCorrects DEF EditDocument, sourceVars
    <2>2. ASSUME NEW k \in Keys, NEW d \in Uploads,
                 Intake(k, d) \/ VoidDocument(k, d) \/ RetryExtraction(k, d)
          PROVE  UNCHANGED <<cur, upstream>> /\ \A e \in Docs \ {d} : proc'[e] = proc[e]
      BY <1>0, <2>2 DEF Intake, VoidDocument, RetryExtraction, docVars, sourceVars, DocumentsTyped
    <2>3. CommandStep =>
             \/ UNCHANGED <<cur, proc, upstream>>
             \/ \E k \in Keys, d \in Uploads : \E p \in Corrections[d] : EditDocument(k, d, p)
             \/ \E k \in Keys, d \in Uploads : VoidDocument(k, d) \/ RetryExtraction(k, d)
      BY DEF CommandStep, OpenDocument, SelectNotes, Investigate, Confirm, ConfirmRefusedStale,
             MarkStale, Reopen, ClaimsWithout, docVars, sourceVars
    <2>. QED BY <1>0, <2>1, <2>2, <2>3 DEF UserStep, Upload
  <1>5. FaultStep \/ ListPending \/ ReadAndCompute
            \/ (\E work \in worker.inputs : SavePreview(work) \/ DiscardPreview(work))
            \/ (\E d \in Uploads : \E p \in Extracted[d] : StoreDraft(d, p))
            \/ (\E d \in Uploads, s \in {"active", "ready"} \cup Failures : DecideRun(d, s))
            \/ UNCHANGED vars
         => UNCHANGED <<cur, proc, upstream>>
    BY DEF FaultStep, WorkerCrash, MarkLost, ListPending, ReadAndCompute, SavePreview,
           DiscardPreview, StoreDraft, DecideRun, vars, docVars, sourceVars
  <1>. QED BY <1>1, <1>2, <1>3, <1>4, <1>5 DEF Next, WorkerTick, SourceStep

LEMMA ConfirmsWhatIsCurrent ==
    ASSUME RowsInv, UpstreamTrue, NEW k \in Keys, NEW i \in Invoices, Confirm(k, i)
    PROVE  LET digest == preview[i].digest
           IN  /\ digest.revision = cur[i]
               /\ \A n \in selected[i] : digest.notes[n] = cur[n]
               /\ \A n \in selected[i] \cap UpstreamNotes :
                     /\ ~upstream[n].voided
                     /\ upstream[n].payload = digest.notes[n].payload
  <1>. DEFINE digest == DigestOf(InputOf(i), selected[i])
  <1>1. preview[i].digest = digest /\ SourcesCurrent({i} \cup selected[i])
    BY DEF Confirm, StillAsShown, PreviewNoLongerHolds, SourcesMovedOn
  <1>2. selected[i] \subseteq Notes
    BY DEF RowsInv, SourcesInv, ClaimsInv, SelectionsTyped
  <1>3. \A n \in selected[i] : n \in ReadyNotes /\ Present(n)
    BY <1>1, <1>2 DEF SourcesCurrent, ReadyNotes, Present
  <1>4. digest.revision = cur[i] /\ \A n \in selected[i] : digest.notes[n] = cur[n]
    BY <1>3 DEF DigestOf, InputOf, Restricted
  <1>5. ASSUME NEW n \in selected[i] \cap UpstreamNotes
        PROVE  ~upstream[n].voided /\ upstream[n].payload = cur[n].payload
    <2>1. proc[n] = "ready" /\ cur[n].source \in 1 .. upstream[n].version
      BY <1>3, <1>5 DEF UpstreamTrue, ReadyNotes
    <2>2. upstream[n].version \in Nat
      BY DEF RowsInv, SourcesTyped
    <2>3. cur[n].source = upstream[n].version
      BY <1>1, <1>3, <2>1, <2>2 DEF SourcesCurrent
    <2>. QED BY <1>3, <2>1, <2>3 DEF UpstreamTrue
  <1>. QED BY <1>1, <1>4, <1>5

(* What is confirmed is what its author was shown: the preview their       *)
(* client read, made from the revisions that are current and from the      *)
(* latest version upstream has sent (_confirm, _sources_current).          *)
THEOREM ConfirmedAsShownCorrect == Spec => ConfirmedAsShown
  <1>. DEFINE AsShown(i) ==
                 review[i] # "completed" /\ review'[i] = "completed" =>
                    /\ \E k \in served' \ served :
                          session[k].doc = i /\ session[k].preview = preview[i]
                    /\ LET digest == preview[i].digest
                       IN  /\ digest.revision = cur[i]
                           /\ \A n \in selected[i] : digest.notes[n] = cur[n]
                           /\ \A n \in selected[i] \cap UpstreamNotes :
                                 /\ ~upstream[n].voided
                                 /\ upstream[n].payload = digest.notes[n].payload
  <1>1. Init => UpstreamTrue
    BY DocumentKinds DEF Init, UpstreamTrue, Present, Docs, Notes
  <1>2. RowsInv /\ UpstreamTrue /\ [Next]_vars => UpstreamTrue'
    BY UpstreamTrueNext
  <1>3. ASSUME RowsInv, UpstreamTrue, [Next]_vars, NEW i \in Invoices,
               review[i] # "completed", review'[i] = "completed"
        PROVE  AsShown(i)
    <2>0. review \in [Invoices -> ReviewStates]
      BY <1>3 DEF RowsInv, SourcesInv, ClaimsInv, ConfirmationsTyped
    <2>1. PICK k \in Keys, j \in Invoices : Confirm(k, j)
      <3>1. ~UNCHANGED reviewVars
        BY <1>3 DEF reviewVars
      <3>2. ~\E k \in Keys, j \in Invoices : \E ids \in SUBSET Notes : SelectNotes(k, j, ids)
        BY <1>3 DEF SelectNotes
      <3>3. ~\E k \in Keys, j \in Invoices : Investigate(k, j)
        BY <1>3, <2>0 DEF Investigate
      <3>4. ~\E k \in Keys, j \in Invoices : Reopen(k, j)
        BY <1>3, <2>0 DEF Reopen, ClaimsWithout
      <3>5. ~\E work \in worker.inputs : SavePreview(work)
        BY <1>3 DEF SavePreview
      <3>. QED BY <1>3, <3>1, <3>2, <3>3, <3>4, <3>5, StepsOnReviews
    <2>2. j = i
      BY <1>3, <2>0, <2>1 DEF Confirm
    <2>3. /\ k \in served' \ served /\ session[k].doc = i
          /\ session[k].preview = preview[i]
      BY <2>1, <2>2 DEF Confirm, Command, StillAsShown, PreviewMovedOn
    <2>. QED BY <1>3, <2>1, <2>2, <2>3, ConfirmsWhatIsCurrent
  <1>4. RowsInv /\ UpstreamTrue /\ [Next]_vars => [\A i \in Invoices : AsShown(i)]_vars
    BY <1>3
  <1>. QED BY <1>1, <1>2, <1>4, RowsInvariant, PTL DEF Spec, ConfirmedAsShown
=============================================================================
