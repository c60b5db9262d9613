---------------------------- MODULE UploadStorage ----------------------------
(***************************************************************************)
(* The originals of uploaded documents in the object store, composed with  *)
(* the workspace: WorkspaceService.upload, DocumentUploadService           *)
(* .prepare_upload and MinioObjectStorage.                                 *)
(*                                                                         *)
(* The object is stored before the intake transaction and no transaction   *)
(* spans the two: an upload whose object turns out not to be needed        *)
(* deletes it afterwards, in a step of its own that may fail or never come.*)
(* A client may send one request several times, at the same time as well;  *)
(* every attempt stores an object of its own.                              *)
(***************************************************************************)
EXTENDS WorkspaceProperties

CONSTANTS
    MaxPuts,        \* bound: objects ever stored
    MaxTroubles     \* bound: failures of the store, of commits and of API processes

ASSUME StartsEmpty == Uploaded = {}

VARIABLES
    objects,    \* names of the objects in the bucket
    original,   \* extraction_tasks.storage_object_key of a document, 0 before its intake
    attempts,   \* the upload requests being served
    puts,       \* object names given out so far: each carries a fresh task id
    troubles,
    leaked,     \* history: objects whose clean-up failed or died with its process
    misled      \* history: documents whose commit was reported as a failure

storageVars == <<objects, original, attempts, puts, troubles, leaked, misled>>
uploadVars  == <<vars, storageVars>>

StorageInit ==
    /\ objects = {} /\ attempts = {} /\ puts = 0 /\ troubles = 0
    /\ original = [d \in Uploads |-> 0]
    /\ leaked = {} /\ misled = {}

Trouble == troubles < MaxTroubles /\ troubles' = troubles + 1

\* A request with a served key is answered from the cache before it stores anything.
Accepted(k) == k \notin served /\ session[k] = Null /\ puts < MaxPuts

Prepare(k, file) ==
    /\ Accepted(k)
    /\ puts' = puts + 1
    /\ objects' = objects \cup {puts'}
    /\ attempts' = attempts \cup
          {[key |-> k, file |-> file, object |-> puts', stage |-> "stored"]}
    /\ UNCHANGED <<original, troubles, leaked, misled, vars>>

(* The store answers with an error: the request ends in 503 and nothing is *)
(* deleted, although the object may have been stored.                      *)
PrepareFails(k) ==
    /\ Accepted(k) /\ Trouble
    /\ puts' = puts + 1
    /\ objects' \in {objects, objects \cup {puts'}}
    /\ leaked' = leaked \cup {puts'}
    /\ UNCHANGED <<original, attempts, misled, vars>>

Ended(a)  == attempts' = attempts \ {a}
Unused(a) == attempts' = (attempts \ {a}) \cup {[a EXCEPT !.stage = "unused"]}

(* The intake transaction: it creates a document that keeps the object, or *)
(* answers with the document that holds the same file already.             *)
Created(d) == ~Present(d) /\ proc'[d] # "absent"

IntakeOf(a, d) == a.stage = "stored" /\ FileOf[d] = a.file /\ Intake(a.key, d)

IntakeCommits(a, d) ==
    /\ IntakeOf(a, d)
    /\ IF Created(d)
       THEN original' = [original EXCEPT ![d] = a.object] /\ Ended(a)
       ELSE Unused(a) /\ UNCHANGED original
    /\ UNCHANGED <<objects, puts, troubles, leaked, misled>>

(* The transaction commits but its answer is lost: the handler cannot tell *)
(* this from a failure.                                                    *)
IntakeCommitsUnheard(a, d) ==
    /\ IntakeOf(a, d) /\ Created(d) /\ Trouble
    /\ original' = [original EXCEPT ![d] = a.object]
    /\ misled' = misled \cup {d}
    /\ Unused(a)
    /\ UNCHANGED <<objects, puts, leaked>>

(* Another attempt of the same request was served meanwhile: its cached    *)
(* answer names another task, or the two differ and this one is refused.   *)
IntakeAnsweredFromCache(a) ==
    /\ a.stage = "stored" /\ a.key \in served
    /\ Unused(a)
    /\ UNCHANGED <<objects, original, puts, troubles, leaked, misled, vars>>

IntakeRollsBack(a) ==
    /\ a.stage = "stored" /\ Trouble
    /\ Unused(a)
    /\ UNCHANGED <<objects, original, puts, leaked, misled, vars>>

\* MUTANT: deletes the object of the task in the answer.
OfTheAnswer(a) ==
    {original[d] : d \in {e \in Uploads : Present(e) /\ FileOf[e] = a.file}}
Prepared(a) == {a.object}

DeletePrepared(a) ==
    /\ a.stage = "unused"
    /\ objects' = objects \ Prepared(a)
    /\ Ended(a)
    /\ UNCHANGED <<original, puts, troubles, leaked, misled, vars>>

\* The failure of a deletion is logged and swallowed.
DeletePreparedFails(a) ==
    /\ a.stage = "unused" /\ Trouble
    /\ leaked' = leaked \cup {a.object}
    /\ Ended(a)
    /\ UNCHANGED <<objects, original, puts, misled, vars>>

\* The API process dies; nothing looks for its objects later.
ProcessDies(a) ==
    /\ Trouble
    /\ leaked' = leaked \cup {a.object}
    /\ Ended(a)
    /\ UNCHANGED <<objects, original, puts, misled, vars>>

UploadStep ==
    \/ \E k \in Keys : PrepareFails(k) \/ \E d \in Uploads : Prepare(k, FileOf[d])
    \/ \E a \in attempts, d \in Uploads : IntakeCommits(a, d) \/ IntakeCommitsUnheard(a, d)
    \/ \E a \in attempts : \/ IntakeAnsweredFromCache(a)
                           \/ IntakeRollsBack(a)
                           \/ DeletePrepared(a)
                           \/ DeletePreparedFails(a)
                           \/ ProcessDies(a)

WorkspaceStep == CommandStep \/ SourceStep \/ WorkerTick \/ FaultStep

UploadSpec ==
    /\ Init /\ StorageInit
    /\ [][UploadStep \/ (WorkspaceStep /\ UNCHANGED storageVars)]_uploadVars

-----------------------------------------------------------------------------
(* Whatever retries, duplicates and failed deletions do, the original of   *)
(* an accepted document stays in the store: a clean-up never removes the   *)
(* object another attempt made the original.  The one exception is an      *)
(* upload whose commit was taken for a failure.                            *)
OriginalsAreKept ==
    \A d \in Uploads : Present(d) /\ d \notin misled => original[d] \in objects

(* Every object nobody needs is about to be deleted, unless its clean-up   *)
(* was broken off: duplicates, cached answers and failed transactions      *)
(* leave nothing behind, and no two documents share an object.             *)
Needed == {original[d] : d \in {e \in Uploads : Present(e)}}
OrphansHaveACause ==
    /\ objects \subseteq Needed \cup leaked \cup {a.object : a \in attempts}
    /\ \A d, e \in Uploads : Present(d) /\ original[d] = original[e] => d = e
=============================================================================
