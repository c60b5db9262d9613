------------------------ MODULE WorkspaceProperties ------------------------
(***************************************************************************)
(* What the workspace promises.                                            *)
(***************************************************************************)
EXTENDS Workspace

UpstreamPayloads(n) == {v.payload : v \in Imported[n]}
SourcePayloads == (UNION {Extracted[d] : d \in Uploads})
                      \cup (UNION {UpstreamPayloads(n) : n \in UpstreamNotes})
Revisions ==
    [seq : Nat, kind : {"extracted", "manual", "upstream"}, source : Nat, base : SourcePayloads,
     payload : SourcePayloads \cup (UNION {Corrections[d] : d \in Uploads})]

(* Types of the rows: the columns of app/infra/database_models.py.         *)
TypeOK ==
    /\ rev \in [Docs -> Nat]
    /\ proc \in [Docs -> {"absent", "processing", "ready", "failed", "cancelled", "voided"}]
    /\ err \in [Docs -> {"none", "EXTRACTION_FAILED", "SOURCE_REVIEW_REQUIRED"}]
    /\ cur \in [Docs -> Revisions \cup {Null}]
    /\ review \in [Invoices -> {"open", "investigating", "completed"}]
    /\ selected \in [Invoices -> SUBSET Notes]
    /\ origin \in [Invoices -> {"none", "automatic", "manual"}]
    /\ match \in [Invoices -> {"selected", "needs_selection", "waiting_counterpart"}]
    /\ \A i \in Invoices : preview[i] \in previews \cup {Null}
    /\ stale \in [Invoices -> BOOLEAN]
    /\ confirmation \in [Invoices -> 0 .. Len(confirmations)]
    /\ sourceChanged \in [Invoices -> BOOLEAN]
    /\ generation \in Nat
    /\ claims \subseteq [note : Notes, invoice : Invoices, by : 1 .. Len(confirmations)]
    /\ served \subseteq Keys
    /\ marking \subseteq Invoices
    /\ worker.stage \in {"idle", "synced", "listed", "computed"}

(* A receiving record is used by at most one invoice, and the claims are   *)
(* exactly the selections of the completed invoices under their current    *)
(* confirmations: nothing is held by an invoice that was reopened, and a   *)
(* completed invoice holds all it confirmed (_confirm, reopen).            *)
ClaimsAreTheConfirmedSelections ==
    /\ \A c1, c2 \in claims : c1.note = c2.note => c1 = c2
    /\ claims = {c \in [note : Notes, invoice : Invoices, by : 1 .. Len(confirmations)] :
                    /\ review[c.invoice] = "completed"
                    /\ c.note \in selected[c.invoice]
                    /\ c.by = confirmation[c.invoice]}

(* While a completed invoice is not flagged source_changed, the revisions  *)
(* its confirmation froze are still the current ones of the invoice and of *)
(* every record it holds, and all of them are still in force, whatever     *)
(* synchronisations, edits and voids ran since (_invalidate).              *)
ConfirmedSourcesUnchanged ==
    \A i \in Invoices : review[i] = "completed" /\ ~sourceChanged[i] =>
        LET digest == confirmations[confirmation[i]].preview.digest
        IN  /\ cur[i] = digest.revision /\ proc[i] = "ready"
            /\ selected[i] = DOMAIN digest.notes
            /\ \A n \in selected[i] : cur[n] = digest.notes[n] /\ proc[n] = "ready"

(* A preview that is not marked stale is true: recomputing the selection,  *)
(* the digest and the result from the rows as they are now gives what is   *)
(* shown, although it was computed outside the lock and saved later, and   *)
(* other invoices were confirmed, voided or edited in between.             *)
FreshPreviewIsTrue ==
    \A i \in Invoices : UnderReview(i) /\ ~stale[i] =>
        LET input == InputOf(i)
            ids   == selected[i]
        IN  /\ ids = ProposalOf(input).selected
            /\ preview[i] = IF ids = {} THEN Null
                            ELSE [digest |-> DigestOf(input, ids),
                                  result |-> ResultOf(input, ids)]

-----------------------------------------------------------------------------
(* The scope generation covers what a proposal and a result read: no step  *)
(* changes the ready records, the used ones, or another invoice's revision *)
(* or standing and leaves the generation as it was.                        *)
Standing == [i \in Invoices |-> <<cur[i], proc[i] = "voided">>]
MatchingInputs == <<[n \in ReadyNotes |-> cur[n]], Used, Standing>>
GenerationCoversInputs ==
    [][MatchingInputs' # MatchingInputs => generation' > generation]_vars

(* What is confirmed is what the person who confirms was shown: the        *)
(* preview their client read, of the revisions that are still current, and *)
(* none of the selected upstream records has a newer version by then.      *)
ConfirmedAsShown ==
    [][\A i \in Invoices : review[i] # "completed" /\ review'[i] = "completed" =>
        /\ \E k \in served' \ served :
              session[k].doc = i /\ session[k].preview = preview[i]
        /\ LET digest == preview[i].digest
           IN  /\ digest.revision = cur[i]
               /\ \A n \in selected[i] : digest.notes[n] = cur[n]
               /\ \A n \in selected[i] \cap UpstreamNotes :
                     /\ ~upstream[n].voided
                     /\ upstream[n].payload = digest.notes[n].payload]_vars

(* No edit is lost: a correction replaces the revision its author read.    *)
EditsReplaceWhatWasRead ==
    [][\A d \in Docs : cur'[d] # cur[d] /\ cur'[d] # Null /\ cur'[d].kind = "manual" =>
        \E k \in served' \ served : session[k].doc = d /\ session[k].shown = cur[d]]_vars

(* A person's correction is never silently replaced by a later extraction, *)
(* and corrections stack on the extraction they started from: it stays the *)
(* base the drift check compares with (_append_revision, _sync_upload).    *)
CorrectionsAreKept ==
    [][\A d \in Uploads : cur'[d] # cur[d] /\ cur[d] # Null =>
        /\ cur[d].kind = "manual" => cur'[d].kind = "manual"
        /\ cur'[d].kind = "manual" =>
              cur'[d].base = cur[d].base /\ cur'[d].source = cur[d].source]_vars

(* What a completed invoice holds stays as it is until it is reopened: its *)
(* records cannot be voided, edited or deselected, only a newer version    *)
(* from upstream or a late extraction write can change them, and then the  *)
(* invoice is flagged in the same step.                                    *)
HeldRecordsChangeVisibly ==
    [][\A i \in Invoices : review[i] = "completed" /\ review'[i] = "completed" =>
        /\ selected'[i] = selected[i] /\ confirmation'[i] = confirmation[i]
        /\ (\E n \in selected[i] \cup {i} : cur'[n] # cur[n] \/ proc'[n] # proc[n])
              => sourceChanged'[i]]_vars

-----------------------------------------------------------------------------
(* The abstract view of the claims: who holds a record, and which invoices *)
(* are completed.                                                          *)
Holder == [n \in Notes |-> IF \E c \in claims : c.note = n
                           THEN (CHOOSE c \in claims : c.note = n).invoice
                           ELSE Null]
Closed == {i \in Invoices : review[i] = "completed"}

Abstract == INSTANCE ReceivingClaims WITH Nobody <- Null, holder <- Holder, closed <- Closed

(* Seen through the claims alone, everything the workspace does is taking  *)
(* free records in one step and giving all of them back in one step.       *)
ImplementsReceivingClaims == Abstract!Spec

-----------------------------------------------------------------------------
(* Every invoice under review whose preview is stale gets a new one, or    *)
(* leaves review, provided the worker keeps ticking: discarded inputs,     *)
(* crashes and projection faults only delay it.                            *)
StalePreviewsAreRenewed ==
    \A i \in Invoices : (UnderReview(i) /\ stale[i]) ~> (~UnderReview(i) \/ ~stale[i])

(* What an extraction delivered reaches the workspace: the document of a   *)
(* ready run shows its draft, or is voided, or is held for review because  *)
(* a person corrected it, unless the run is overwritten or fails.          *)
DraftsAreProjected ==
    \A d \in Uploads : (Present(d) /\ DraftReady(d)) ~>
        (~DraftReady(d) \/ Projected(d) \/ proc[d] = "voided"
            \/ (cur[d] # Null /\ cur[d].kind = "manual"))

=============================================================================
