---------------------------- MODULE StorageProofs ----------------------------
(***************************************************************************)
(* Proofs about the originals of uploaded documents, for every value of    *)
(* the constants, and of the fact that the workspace composed with the     *)
(* object store is still the workspace.                                    *)
(***************************************************************************)
EXTENDS UploadStorage, WorkspaceProofs

Attempts == [key : Keys, file : {FileOf[d] : d \in Uploads}, object : Nat,
             stage : {"stored", "unused"}]

UploadNext == UploadStep \/ (WorkspaceStep /\ UNCHANGED storageVars)

\* An object's name is given out once: to one attempt, then to one document.
NamesAreFresh ==
    /\ puts \in Nat /\ objects \subseteq 1 .. puts
    /\ attempts \subseteq Attempts
    /\ \A a \in attempts : a.object \in 1 .. puts
    /\ \A a, b \in attempts : a.object = b.object => a = b
    /\ original \in [Uploads -> 0 .. puts]
    /\ \A d \in Uploads : Present(d) <=> original[d] # 0

\* What an attempt is going to delete is no document's original, unless the
\* commit that made it one was not heard of.
AttemptsOwnTheirObjects ==
    /\ \A a \in attempts : a.stage = "stored" =>
          a.object \in objects /\ \A d \in Uploads : original[d] # a.object
    /\ \A a \in attempts, d \in Uploads : original[d] = a.object => d \in misled

\* A client has opened what exists.
SessionsOpen ==
    /\ session = [k \in Keys |-> session[k]]
    /\ \A k \in Keys : session[k] # Null =>
          session[k].doc \in Uploads /\ Present(session[k].doc)

ObjectsInv == /\ NamesAreFresh /\ AttemptsOwnTheirObjects
              /\ OriginalsAreKept /\ OrphansHaveACause

LEMMA UploadStepsAreSteps ==
    ASSUME attempts \subseteq Attempts, [UploadNext]_uploadVars
    PROVE  [Next]_vars
  <1>1. \A a \in attempts : a.key \in Keys
    BY DEF Attempts
  <1>2. ASSUME NEW a \in attempts, NEW d \in Uploads,
               IntakeCommits(a, d) \/ IntakeCommitsUnheard(a, d)
        PROVE  Next
    BY <1>1, <1>2 DEF IntakeCommits, IntakeCommitsUnheard, IntakeOf, Next, UserStep, Upload
  <1>3. UploadStep => Next \/ UNCHANGED vars
    BY <1>2 DEF UploadStep, PrepareFails, Prepare, IntakeAnsweredFromCache, IntakeRollsBack,
                DeletePrepared, DeletePreparedFails, ProcessDies
  <1>4. WorkspaceStep => Next
    BY DEF WorkspaceStep, Next, UserStep
  <1>. QED BY <1>3, <1>4 DEF UploadNext, uploadVars

\* Only its intake makes an upload present, and nothing makes it absent.
LEMMA WorkspaceKeepsUploads ==
    ASSUME DocumentsTyped, SessionsOpen, WorkspaceStep, NEW d \in Uploads
    PROVE  Present(d)' <=> Present(d)
  <1>. USE DEF Present, DocumentsTyped, ProcStates
  <1>0. d \in Docs /\ d \notin UpstreamNotes
    BY DocumentsAreDocs, DocumentKinds
  <1>1. ASSUME NEW k \in Keys, NEW e \in Uploads, VoidDocument(k, e) \/ RetryExtraction(k, e)
        PROVE  proc'[d] = "absent" <=> proc[d] = "absent"
    <2>1. Present(e) /\ e \in Docs
      BY <1>1, DocumentsAreDocs DEF VoidDocument, RetryExtraction, Command, SessionsOpen
    <2>2. \E p \in {"voided", "processing"} : proc' = [proc EXCEPT ![e] = p]
      BY <1>1 DEF VoidDocument, RetryExtraction
    <2>. QED BY <1>0, <2>1, <2>2
  <1>2. ASSUME NEW failing \in SUBSET Docs, SyncSources(failing)
        PROVE  proc'[d] = "absent" <=> proc[d] = "absent"
    BY <1>0, <1>2 DEF SyncSources, SyncedUploads
  <1>3. CommandStep => \/ proc' = proc
                       \/ \E k \in Keys, e \in Uploads : VoidDocument(k, e) \/ RetryExtraction(k, e)
    BY DEF CommandStep, OpenDocument, EditDocument, SelectNotes, Investigate, Confirm,
           ConfirmRefusedStale, MarkStale, Reopen, ClaimsWithout, docVars
  <1>4. SourceStep \/ FaultStep \/ ListPending \/ ReadAndCompute
            \/ (\E work \in worker.inputs : SavePreview(work) \/ DiscardPreview(work))
         => proc' = proc
    BY DEF SourceStep, StoreDraft, DecideRun, ImportVersion, FaultStep, WorkerCrash, MarkLost,
           ListPending, ReadAndCompute, SavePreview, DiscardPreview, docVars
  <1>. QED BY <1>1, <1>2, <1>3, <1>4 DEF WorkspaceStep, WorkerTick

\* The two outcomes of an intake.
LEMMA IntakeOutcomes ==
    ASSUME DocumentsTyped, NEW k \in Keys, NEW d \in Uploads, Intake(k, d)
    PROVE  /\ session' = session
           /\ \/ ~Created(d) /\ proc' = proc
              \/ /\ Created(d) /\ ~Present(d) /\ Present(d)'
                 /\ \A e \in Docs \ {d} : proc'[e] = proc[e]
  <1>0. d \in Docs /\ session' = session
    BY DocumentsAreDocs DEF Intake, actorVars
  <1>1. CASE proc' = proc
    BY <1>0, <1>1 DEF Created, Present
  <1>2. CASE ~Present(d) /\ proc' = [proc EXCEPT ![d] = "processing"]
    BY <1>0, <1>2 DEF Created, Present, DocumentsTyped
  <1>. QED BY <1>0, <1>1, <1>2 DEF Intake, docVars

LEMMA SessionsOpenNext ==
    ASSUME DocumentsTyped, SessionsOpen, attempts \subseteq Attempts, [UploadNext]_uploadVars
    PROVE  SessionsOpen'
  <1>. USE DEF SessionsOpen
  <1>0. Uploads \subseteq Docs
    BY DocumentsAreDocs
  <1>1. ASSUME NEW k \in Keys, NEW d \in Uploads, Intake(k, d) PROVE SessionsOpen'
    <2>1. session' = session /\ \A e \in Uploads : Present(e) => Present(e)'
      BY <1>0, <1>1, IntakeOutcomes DEF Present
    <2>. QED BY <2>1
  <1>2. CASE WorkspaceStep
    <2>0. \A e \in Uploads : Present(e) => Present(e)'
      BY <1>2, WorkspaceKeepsUploads
    <2>1. ASSUME NEW k \in Keys, NEW d \in Uploads, OpenDocument(k, d) PROVE SessionsOpen'
      <3>. DEFINE opened == [doc |-> d, rev |-> rev[d], shown |-> cur[d],
                             preview |-> IF d \in Invoices THEN preview[d] ELSE Null]
      <3>1. session' = [session EXCEPT ![k] = opened] /\ Present(d) /\ opened.doc = d
        BY <2>1 DEF OpenDocument
      <3>. HIDE DEF opened
      <3>. QED BY <2>0, <3>1
    <2>2. CommandStep => session' = session \/ \E k \in Keys, d \in Uploads : OpenDocument(k, d)
      BY DEF CommandStep, EditDocument, SelectNotes, Investigate, Confirm, ConfirmRefusedStale,
             MarkStale, Reopen, ClaimsWithout, VoidDocument, RetryExtraction, actorVars
    <2>3. SourceStep \/ FaultStep \/ WorkerTick => session' = session
      BY DEF SourceStep, StoreDraft, DecideRun, ImportVersion, FaultStep, WorkerCrash, MarkLost,
             WorkerTick, SyncSources, ListPending, ReadAndCompute, SavePreview, DiscardPreview,
             actorVars
    <2>. QED BY <1>2, <2>0, <2>1, <2>2, <2>3 DEF WorkspaceStep
  <1>3. CASE UNCHANGED vars
    BY <1>3 DEF vars, docVars, actorVars, Present
  <1>4. UploadStep => UNCHANGED vars \/ \E k \in Keys, d \in Uploads : Intake(k, d)
    <2>1. ASSUME NEW a \in attempts, NEW d \in Uploads,
                 IntakeCommits(a, d) \/ IntakeCommitsUnheard(a, d)
          PROVE  \E k \in Keys : Intake(k, d)
      BY <2>1 DEF Attempts, IntakeCommits, IntakeCommitsUnheard, IntakeOf
    <2>. QED BY <2>1 DEF UploadStep, PrepareFails, Prepare, IntakeAnsweredFromCache,
                         IntakeRollsBack, DeletePrepared, DeletePreparedFails, ProcessDies
  <1>. QED BY <1>1, <1>2, <1>3, <1>4 DEF UploadNext, uploadVars

LEMMA ObjectsInit == Init /\ StorageInit => ObjectsInv
  <1>. SUFFICES ASSUME Init, StorageInit PROVE ObjectsInv
    OBVIOUS
  <1>1. \A d \in Uploads : ~Present(d)
    BY StartsEmpty, DocumentsAreDocs DEF Init, Present
  <1>. QED BY <1>1 DEF StorageInit, ObjectsInv, NamesAreFresh, AttemptsOwnTheirObjects,
                       OriginalsAreKept, OrphansHaveACause

\* An attempt whose object turns out not to be needed goes on with it.
LEMMA UnusedKeepsObjects ==
    ASSUME ObjectsInv, NEW a \in attempts, Unused(a),
           UNCHANGED <<objects, original, puts, leaked, misled>>,
           \A d \in Uploads : Present(d)' <=> Present(d)
    PROVE  ObjectsInv'
  <1>. DEFINE b == [a EXCEPT !.stage = "unused"]
  <1>1. attempts' = (attempts \ {a}) \cup {b}
    BY DEF Unused
  <1>2. b \in Attempts /\ b.object = a.object /\ b.stage = "unused"
    BY DEF ObjectsInv, NamesAreFresh, Attempts
  <1>. HIDE DEF b
  <1>3. {c.object : c \in attempts'} = {c.object : c \in attempts}
    BY <1>1, <1>2
  <1>4. Needed' = Needed
    BY DEF Needed
  <1>5. NamesAreFresh'
    BY <1>1, <1>2 DEF ObjectsInv, NamesAreFresh
  <1>6. AttemptsOwnTheirObjects'
    BY <1>1, <1>2 DEF ObjectsInv, NamesAreFresh, AttemptsOwnTheirObjects
  <1>7. OriginalsAreKept'
    BY DEF ObjectsInv, OriginalsAreKept
  <1>8. OrphansHaveACause'
    BY <1>3, <1>4 DEF ObjectsInv, OrphansHaveACause
  <1>. QED BY <1>5, <1>6, <1>7, <1>8 DEF ObjectsInv

\* The document that an intake creates gets the object of its attempt.
LEMMA CreationKeepsObjects ==
    ASSUME ObjectsInv, NEW a \in attempts, NEW d \in Uploads,
           a.stage = "stored", ~Present(d), Present(d)',
           \A e \in Uploads \ {d} : Present(e)' <=> Present(e),
           original' = [original EXCEPT ![d] = a.object],
           UNCHANGED <<objects, puts, leaked>>,
           \/ Ended(a) /\ misled' = misled
           \/ Unused(a) /\ misled' = misled \cup {d}
    PROVE  ObjectsInv'
  <1>. DEFINE b == [a EXCEPT !.stage = "unused"]
  <1>1. \/ attempts' = attempts \ {a} /\ misled' = misled
        \/ attempts' = (attempts \ {a}) \cup {b} /\ misled' = misled \cup {d}
    BY DEF Unused, Ended
  <1>2. b \in Attempts /\ b.object = a.object /\ b.stage = "unused"
    BY DEF ObjectsInv, NamesAreFresh, Attempts
  <1>. HIDE DEF b
  <1>3. /\ original[d] = 0 /\ original'[d] = a.object
        /\ \A e \in Uploads \ {d} : original'[e] = original[e] /\ original[e] # a.object
        /\ a.object \in objects /\ a.object \in 1 .. puts
    BY DEF ObjectsInv, NamesAreFresh, AttemptsOwnTheirObjects
  <1>4. NamesAreFresh'
    BY <1>1, <1>2, <1>3 DEF ObjectsInv, NamesAreFresh
  <1>5. AttemptsOwnTheirObjects'
    <2>1. \A c \in attempts' : \/ c \in attempts /\ c.object # a.object
                               \/ c = b /\ misled' = misled \cup {d}
      BY <1>1 DEF ObjectsInv, NamesAreFresh
    <2>. QED BY <1>1, <1>2, <1>3, <2>1 DEF ObjectsInv, AttemptsOwnTheirObjects
  <1>6. OriginalsAreKept'
    BY <1>1, <1>3 DEF ObjectsInv, OriginalsAreKept
  <1>7. OrphansHaveACause'
    <2>1. Needed \cup {a.object} \subseteq Needed'
      BY <1>3 DEF Needed
    <2>2. {c.object : c \in attempts} \subseteq {c.object : c \in attempts'} \cup {a.object}
      BY <1>1
    <2>3. \A e, f \in Uploads : Present(e)' /\ original'[e] = original'[f] => e = f
      BY <1>3 DEF ObjectsInv, OrphansHaveACause, NamesAreFresh
    <2>. QED BY <2>1, <2>2, <2>3 DEF ObjectsInv, OrphansHaveACause
  <1>. QED BY <1>4, <1>5, <1>6, <1>7 DEF ObjectsInv

\* A new object belongs to the attempt that stores it, or to nobody.
LEMMA StoringKeepsObjects ==
    ASSUME ObjectsInv, puts' = puts + 1, UNCHANGED <<original, misled>>,
           \A d \in Uploads : Present(d)' <=> Present(d),
           \/ \E k \in Keys, d \in Uploads :
                 /\ objects' = objects \cup {puts'} /\ leaked' = leaked
                 /\ attempts' = attempts \cup
                       {[key |-> k, file |-> FileOf[d], object |-> puts', stage |-> "stored"]}
           \/ /\ objects' \in {objects, objects \cup {puts'}} /\ leaked' = leaked \cup {puts'}
              /\ attempts' = attempts
    PROVE  ObjectsInv'
  <1>0. /\ puts \in Nat /\ puts' \in Nat /\ puts < puts' /\ 1 .. puts \subseteq 1 .. puts'
        /\ puts' \in 1 .. puts' /\ puts' \notin 1 .. puts
    BY DEF ObjectsInv, NamesAreFresh
  <1>1. Needed' = Needed
    BY DEF Needed
  <1>2. \A d \in Uploads : original[d] # puts'
    BY <1>0 DEF ObjectsInv, NamesAreFresh
  <1>3. ASSUME NEW a, a \in Attempts, a.object = puts', a.stage = "stored",
               attempts' = attempts \cup {a}, objects' = objects \cup {puts'},
               leaked' = leaked
        PROVE  ObjectsInv'
    <2>1. NamesAreFresh'
      BY <1>0, <1>3 DEF ObjectsInv, NamesAreFresh
    <2>2. AttemptsOwnTheirObjects'
      BY <1>2, <1>3 DEF ObjectsInv, AttemptsOwnTheirObjects
    <2>3. OriginalsAreKept'
      BY <1>3 DEF ObjectsInv, OriginalsAreKept
    <2>4. OrphansHaveACause'
      BY <1>1, <1>3 DEF ObjectsInv, OrphansHaveACause
    <2>. QED BY <2>1, <2>2, <2>3, <2>4 DEF ObjectsInv
  <1>4. CASE /\ objects' \in {objects, objects \cup {puts'}} /\ leaked' = leaked \cup {puts'}
             /\ attempts' = attempts
    <2>1. NamesAreFresh'
      BY <1>0, <1>4 DEF ObjectsInv, NamesAreFresh
    <2>2. AttemptsOwnTheirObjects'
      BY <1>4 DEF ObjectsInv, AttemptsOwnTheirObjects
    <2>3. OriginalsAreKept'
      BY <1>4 DEF ObjectsInv, OriginalsAreKept
    <2>4. OrphansHaveACause'
      BY <1>1, <1>4 DEF ObjectsInv, OrphansHaveACause
    <2>. QED BY <2>1, <2>2, <2>3, <2>4 DEF ObjectsInv
  <1>5. ASSUME NEW k \in Keys, NEW d \in Uploads
        PROVE  LET a == [key |-> k, file |-> FileOf[d], object |-> puts', stage |-> "stored"]
               IN  a \in Attempts /\ a.object = puts' /\ a.stage = "stored"
    BY <1>0 DEF Attempts
  <1>. QED BY <1>3, <1>4, <1>5

\* An attempt ends: with its object deleted, or with the object left behind.
LEMMA EndingKeepsObjects ==
    ASSUME ObjectsInv, NEW a \in attempts, Ended(a), UNCHANGED <<original, puts, misled>>,
           \A d \in Uploads : Present(d)' <=> Present(d),
           \/ a.stage = "unused" /\ objects' = objects \ {a.object} /\ leaked' = leaked
           \/ objects' = objects /\ leaked' = leaked \cup {a.object}
    PROVE  ObjectsInv'
  <1>1. /\ attempts' = attempts \ {a} /\ objects' \subseteq objects
        /\ {c.object : c \in attempts} \subseteq {c.object : c \in attempts'} \cup {a.object}
    BY DEF Ended
  <1>2. Needed' = Needed
    BY DEF Needed
  <1>3. \A c \in attempts' : c.object # a.object
    BY <1>1 DEF ObjectsInv, NamesAreFresh
  <1>4. NamesAreFresh'
    BY <1>1 DEF ObjectsInv, NamesAreFresh
  <1>5. AttemptsOwnTheirObjects'
    BY <1>1, <1>3 DEF ObjectsInv, AttemptsOwnTheirObjects
  <1>6. OriginalsAreKept'
    BY <1>1 DEF ObjectsInv, OriginalsAreKept, AttemptsOwnTheirObjects
  <1>7. OrphansHaveACause'
    BY <1>1, <1>2 DEF ObjectsInv, OrphansHaveACause
  <1>. QED BY <1>4, <1>5, <1>6, <1>7 DEF ObjectsInv

LEMMA ObjectsNext ==
    ASSUME DocumentsTyped, SessionsOpen, ObjectsInv, [UploadNext]_uploadVars
    PROVE  ObjectsInv'
  <1>0. /\ UNCHANGED vars => \A d \in Uploads : Present(d)' <=> Present(d)
        /\ \A a \in attempts : a.key \in Keys
    BY DEF vars, docVars, Present, ObjectsInv, NamesAreFresh, Attempts
  <1>1. CASE UNCHANGED storageVars /\ \A d \in Uploads : Present(d)' <=> Present(d)
    <2>1. Needed' = Needed
      BY <1>1 DEF Needed, storageVars
    <2>. QED BY <1>1, <2>1 DEF ObjectsInv, NamesAreFresh, AttemptsOwnTheirObjects,
                               OriginalsAreKept, OrphansHaveACause, storageVars
  <1>2. CASE WorkspaceStep /\ UNCHANGED storageVars
    BY <1>1, <1>2, WorkspaceKeepsUploads
  <1>3. CASE UNCHANGED uploadVars
    BY <1>0, <1>1, <1>3 DEF uploadVars
  <1>4. ASSUME NEW k \in Keys, PrepareFails(k) \/ \E d \in Uploads : Prepare(k, FileOf[d])
        PROVE  ObjectsInv'
    BY <1>0, <1>4, StoringKeepsObjects DEF PrepareFails, Prepare
  <1>5. ASSUME NEW a \in attempts, NEW d \in Uploads,
               IntakeCommits(a, d) \/ IntakeCommitsUnheard(a, d)
        PROVE  ObjectsInv'
    <2>1. Intake(a.key, d) /\ a.stage = "stored"
      BY <1>5 DEF IntakeCommits, IntakeCommitsUnheard, IntakeOf
    <2>2. CASE Created(d)
      <3>1. /\ ~Present(d) /\ Present(d)'
            /\ \A e \in Uploads \ {d} : Present(e)' <=> Present(e)
        BY <1>0, <2>1, <2>2, IntakeOutcomes, DocumentsAreDocs DEF Present
      <3>. QED BY <1>5, <2>1, <2>2, <3>1, CreationKeepsObjects
                  DEF IntakeCommits, IntakeCommitsUnheard
    <2>3. CASE ~Created(d)
      <3>1. \A e \in Uploads : Present(e)' <=> Present(e)
        BY <1>0, <2>1, <2>3, IntakeOutcomes DEF Present
      <3>. QED BY <1>5, <2>3, <3>1, UnusedKeepsObjects DEF IntakeCommits, IntakeCommitsUnheard
    <2>. QED BY <2>2, <2>3
  <1>6. ASSUME NEW a \in attempts, IntakeAnsweredFromCache(a) \/ IntakeRollsBack(a)
        PROVE  ObjectsInv'
    BY <1>0, <1>6, UnusedKeepsObjects DEF IntakeAnsweredFromCache, IntakeRollsBack
  <1>7. ASSUME NEW a \in attempts, DeletePrepared(a) \/ DeletePreparedFails(a) \/ ProcessDies(a)
        PROVE  ObjectsInv'
    BY <1>0, <1>7, EndingKeepsObjects DEF DeletePrepared, Prepared, DeletePreparedFails, ProcessDies
  <1>. QED BY <1>2, <1>3, <1>4, <1>5, <1>6, <1>7 DEF UploadNext, UploadStep

LEMMA StorageInvariant == UploadSpec => [](DocumentsTyped /\ SessionsOpen /\ ObjectsInv)
  <1>. DEFINE Inv == DocumentsTyped /\ SessionsOpen /\ ObjectsInv
  <1>1. Init /\ StorageInit => Inv
    BY DocumentsTypedInit, ObjectsInit DEF Init, SessionsOpen
  <1>2. Inv /\ [UploadNext]_uploadVars => Inv'
    <2>1. ObjectsInv => attempts \subseteq Attempts
      BY DEF ObjectsInv, NamesAreFresh
    <2>. QED BY <2>1, UploadStepsAreSteps, DocumentsTypedNext, SessionsOpenNext, ObjectsNext
  <1>. HIDE DEF Inv
  <1>3. UploadSpec => []Inv
    BY <1>1, <1>2, PTL DEF UploadSpec, UploadNext
  <1>. QED BY <1>3 DEF Inv

(* The original of an accepted document stays in the store: no clean-up    *)
(* removes what another attempt made an original (WorkspaceService.upload).*)
THEOREM OriginalsKept == UploadSpec => []OriginalsAreKept
  <1>1. ObjectsInv => OriginalsAreKept
    BY DEF ObjectsInv
  <1>. QED BY <1>1, StorageInvariant, PTL

(* Nothing is left behind but by a clean-up that was broken off, and no    *)
(* two documents share an object.                                          *)
THEOREM OrphansExplained == UploadSpec => []OrphansHaveACause
  <1>1. ObjectsInv => OrphansHaveACause
    BY DEF ObjectsInv
  <1>. QED BY <1>1, StorageInvariant, PTL

(* The object store adds nothing to what the workspace may do, so that     *)
(* every theorem about the workspace holds of the two together.            *)
THEOREM UploadsKeepTheWorkspace == UploadSpec => Spec
  <1>1. ObjectsInv /\ [UploadNext]_uploadVars => [Next]_vars
    BY UploadStepsAreSteps DEF ObjectsInv, NamesAreFresh
  <1>. QED BY <1>1, StorageInvariant, PTL DEF UploadSpec, UploadNext, Spec
=============================================================================
