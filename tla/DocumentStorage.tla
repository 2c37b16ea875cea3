--------------------------- MODULE DocumentStorage ---------------------------
(***************************************************************************)
(* A charity's stored documents: the reservation, the provider write and   *)
(* the record of an upload; removal, restoration, holds and the owner's    *)
(* purge of a removed document; the deletion jobs, the cleanup runs that   *)
(* work them, the alert for a dead letter and its recovery.                *)
(* routes/documents/index.ts, storage.service.ts, document.service.ts,     *)
(* document-recovery.service.ts, document-purge.service.ts and the         *)
(* triggers of the purge and deletion migrations.                          *)
(*                                                                         *)
(* A database transaction is one action.  The object store is outside any  *)
(* transaction: the write of an upload and the erase of a job are steps of *)
(* their own, and either may outlive the request that gave up on it.       *)
(*                                                                         *)
(* A storage path is fresh (time and UUID) and every upload has its own,   *)
(* so an upload, its reservation, its document and its object are all      *)
(* named by the path.  A path gets at most one deletion job in its life    *)
(* (of its reservation, or of its document's purge), named by it too; an   *)
(* operator may redirect that job elsewhere.                               *)
(***************************************************************************)
EXTENDS Naturals

CONSTANTS
    Upload,        \* paths issued to uploads
    Correctable,   \* paths an operator may redirect a dead letter to
    Worker,        \* cleanup runs (scheduler or command line)
    MaxAttempts,   \* DOCUMENT_STORAGE_DELETION_MAX_ATTEMPTS
    MaxRevision,   \* bound on the changes to one document
    None

Path == Upload \cup Correctable

TerminalReason == {"PERMANENT_STORAGE_PATH_REJECTED", "PROVIDER_NOT_ERASABLE",
                   "MAX_ATTEMPTS_EXHAUSTED"}

\* Recovery looks for a document and for another job at the corrected path, not
\* for a reservation: operators are taken not to name a path an upload owns.
ASSUME StorageAssumption ==
    /\ Correctable \cap Upload = {}
    /\ MaxAttempts \in Nat \ {0}
    /\ MaxRevision \in Nat
    /\ None \notin Worker \cup TerminalReason

VARIABLES
    intent,    \* DocumentUploadIntent.state
    aged,      \* unsettled reservations beyond UPLOAD_INTENT_STALE_AFTER_MS
    request,   \* the upload request of each path
    doc,       \* Document rows
    granted,   \* revisions under a DocumentPurgeAuthorization that can be claimed
    object,    \* paths that hold bytes
    late,      \* paths an abandoned erase may still reach
    job,       \* DocumentStorageDeletion rows
    worker,    \* what each cleanup run has in hand
    reviewed,  \* history: documents unchanged since their purge was authorized
    announced  \* history: jobs an operator heard of since they were dead-lettered

vars == <<intent, aged, request, doc, granted, object, late, job, worker,
          reviewed, announced>>
docVars == <<doc, granted, reviewed>>
uploadVars == <<intent, aged, request>>
jobVars == <<job, worker, announced>>

-----------------------------------------------------------------------------
Intent == {"NONE", "RESERVED", "ATTACHED", "CLEANUP_PENDING"}

\* unsure: the provider write timed out or failed, its bytes may still land.
Request == {"idle", "writing", "unsure", "written"}

\* removed: deletedAt is set.  rev: updatedAt.  elapsed: recoveryUntil passed.
NoDocument == [present |-> FALSE]
Document == [present: {TRUE}, removed: BOOLEAN, hold: BOOLEAN, elapsed: BOOLEAN, rev: Nat]
Present(p) == doc[p].present

\* claim: claimedAt, told apart by the run that set it.  alert: alertClaimToken,
\* likewise.  stale, alertStale: the claim is beyond its ten minutes.
Job == [state: {"NONE", "PENDING", "PROCESSED", "DEAD_LETTER"}, path: Path,
        attempts: 0 .. MaxAttempts, claim: Worker \cup {None}, stale: BOOLEAN,
        reason: TerminalReason \cup {None},
        alert: Worker \cup {None}, alertStale: BOOLEAN, alerted: BOOLEAN]

NoJob(p) == [state |-> "NONE", path |-> p, attempts |-> 0, claim |-> None,
             stale |-> FALSE, reason |-> None, alert |-> None,
             alertStale |-> FALSE, alerted |-> FALSE]
NewJob(p) == [NoJob(p) EXCEPT !.state = "PENDING"]

\* path: the storagePath the run read when it claimed the row.
Idle == [phase |-> "idle"]
Holding == [phase: {"claimed", "checked", "erased", "alerting", "delivered"},
            job: Upload, path: Path]
In(w, phase) == worker[w].phase = phase

\* Every variable has its type, and a deletion job is dead-lettered exactly when
\* it has a terminal reason, which is what its recovery goes by.
TypeOK ==
    /\ intent \in [Upload -> Intent]
    /\ aged \in SUBSET Upload
    /\ request \in [Upload -> Request]
    /\ doc \in [Upload -> {NoDocument} \cup Document]
    /\ granted \in [Upload -> SUBSET Nat]
    /\ object \in SUBSET Path
    /\ late \in SUBSET Path
    /\ job \in [Upload -> Job]
    /\ \A p \in Upload : job[p].state = "DEAD_LETTER" <=> job[p].reason # None
    /\ worker \in [Worker -> {Idle} \cup Holding]
    /\ reviewed \in SUBSET Upload
    /\ announced \in SUBSET Upload

\* The correctable paths hold bytes nothing refers to.
Init ==
    /\ intent = [p \in Upload |-> "NONE"]
    /\ aged = {}
    /\ request = [p \in Upload |-> "idle"]
    /\ doc = [p \in Upload |-> NoDocument]
    /\ granted = [p \in Upload |-> {}]
    /\ object = Correctable
    /\ late = {}
    /\ job = [p \in Upload |-> NoJob(p)]
    /\ worker = [w \in Worker |-> Idle]
    /\ reviewed = {}
    /\ announced = {}

-----------------------------------------------------------------------------
(* Uploads *)

\* The beforeWrite callback of uploadFile: the key is reserved before any
\* bytes are written.
Reserve(p) ==
    /\ intent[p] = "NONE"
    /\ intent' = [intent EXCEPT ![p] = "RESERVED"]
    /\ request' = [request EXCEPT ![p] = "writing"]
    /\ UNCHANGED <<aged, docVars, object, late, jobVars>>

WriteObject(p) ==
    /\ request[p] = "writing"
    /\ object' = object \cup {p}
    /\ request' = [request EXCEPT ![p] = "written"]
    /\ UNCHANGED <<intent, aged, docVars, late, jobVars>>

\* The provider errs, times out, or the process dies: the request is over, and
\* what it sent may still arrive.
WriteFails(p) ==
    /\ request[p] = "writing"
    /\ request' = [request EXCEPT ![p] = "unsure"]
    /\ UNCHANGED <<intent, aged, docVars, object, late, jobVars>>

WriteLandsLate(p) ==
    /\ request[p] = "unsure"
    /\ object' = object \cup {p}
    /\ request' = [request EXCEPT ![p] = "idle"]
    /\ UNCHANGED <<intent, aged, docVars, late, jobVars>>

\* Mutant: the record is made without attaching the reservation first.
CreateDocumentUnfenced(p) ==
    /\ request[p] = "written"
    /\ request' = [request EXCEPT ![p] = "idle"]
    /\ aged' = aged \ {p}
    /\ doc' = [doc EXCEPT ![p] = [present |-> TRUE, removed |-> FALSE,
                                  hold |-> FALSE, elapsed |-> FALSE, rev |-> 0]]
    /\ intent' = [intent EXCEPT ![p] = IF @ = "RESERVED" THEN "ATTACHED" ELSE @]
    /\ UNCHANGED <<granted, reviewed, object, late, jobVars>>

\* create: the record and the reservation's attachment commit together, and not
\* at all when reconciliation settled the reservation first.
CreateDocument(p) ==
    /\ request[p] = "written"
    /\ request' = [request EXCEPT ![p] = "idle"]
    /\ aged' = aged \ {p}
    /\ IF intent[p] = "RESERVED"
         THEN /\ doc' = [doc EXCEPT ![p] = [present |-> TRUE, removed |-> FALSE,
                                            hold |-> FALSE, elapsed |-> FALSE, rev |-> 0]]
              /\ intent' = [intent EXCEPT ![p] = "ATTACHED"]
         ELSE UNCHANGED <<doc, intent>>
    /\ UNCHANGED <<granted, reviewed, object, late, jobVars>>

\* The quota refuses the document, or the process dies before create.
CreateFails(p) ==
    /\ request[p] = "written"
    /\ request' = [request EXCEPT ![p] = "idle"]
    /\ UNCHANGED <<intent, aged, docVars, object, late, jobVars>>

\* An hour passes.  uploadTimeoutMs bounds the provider write well inside it:
\* bytes that have not landed by then never will.
Age(p) ==
    /\ intent[p] = "RESERVED" /\ p \notin aged
    /\ request[p] # "writing"
    /\ aged' = aged \cup {p}
    /\ request' = [request EXCEPT ![p] = IF @ = "unsure" THEN "idle" ELSE @]
    /\ UNCHANGED <<intent, docVars, object, late, jobVars>>

\* Mutant: fresh reservations are settled as well.
ReconcileFresh(p) ==
    /\ intent[p] = "RESERVED"
    /\ intent' = [intent EXCEPT ![p] = "CLEANUP_PENDING"]
    /\ job' = [job EXCEPT ![p] = NewJob(p)]
    /\ aged' = aged \ {p}
    /\ UNCHANGED <<request, docVars, object, late, worker, announced>>

\* reconcileStaleUploadIntents for one candidate.  Its transaction reads the
\* reservation and the document and then writes under the state it read: since
\* the document appears together with ATTACHED, that is one step.
Reconcile(p) ==
    /\ intent[p] = "RESERVED" /\ p \in aged
    /\ IF Present(p)
         THEN /\ intent' = [intent EXCEPT ![p] = "ATTACHED"]
              /\ UNCHANGED job
         ELSE /\ intent' = [intent EXCEPT ![p] = "CLEANUP_PENDING"]
              /\ job' = [job EXCEPT ![p] = NewJob(p)]
    /\ aged' = aged \ {p}
    /\ UNCHANGED <<request, docVars, object, late, worker, announced>>

-----------------------------------------------------------------------------
(* The document in the vault *)

\* The expectedUpdatedAt of these requests is the current one or the request is
\* refused: a change always starts from the revision it names.
Revise(p, new) ==
    /\ doc[p].rev < MaxRevision
    /\ doc' = [doc EXCEPT ![p] = [new EXCEPT !.rev = @ + 1]]
    /\ reviewed' = reviewed \ {p}
    /\ UNCHANGED <<granted, uploadVars, object, late, jobVars>>

\* DocumentRecoveryService.remove: to Deleted Items, for the policy's days.  It
\* reads the stored bytes for the checksum.
Remove(p) ==
    /\ Present(p) /\ ~doc[p].removed /\ ~doc[p].hold
    /\ p \in object
    /\ Revise(p, [doc[p] EXCEPT !.removed = TRUE, !.elapsed = FALSE])

\* DocumentRecoveryService.restore: a hold does not stand in its way.
Restore(p) ==
    /\ Present(p) /\ doc[p].removed /\ ~doc[p].elapsed
    /\ p \in object
    /\ Revise(p, [doc[p] EXCEPT !.removed = FALSE])

SetDeletionHold(p) ==
    /\ Present(p)
    /\ Revise(p, [doc[p] EXCEPT !.hold = ~@])

\* recoveryUntil passes.
Elapse(p) ==
    /\ Present(p) /\ doc[p].removed /\ ~doc[p].elapsed
    /\ doc' = [doc EXCEPT ![p].elapsed = TRUE]
    /\ UNCHANGED <<granted, reviewed, uploadVars, object, late, jobVars>>

-----------------------------------------------------------------------------
(* Purge of a removed document, on the owner's authority *)

\* authorize binds the revision the owner reviewed.
Authorize(p) ==
    /\ Present(p) /\ doc[p].removed /\ ~doc[p].hold
    /\ p \in object
    /\ doc[p].rev \notin granted[p]
    /\ granted' = [granted EXCEPT ![p] = @ \cup {doc[p].rev}]
    /\ reviewed' = reviewed \cup {p}
    /\ UNCHANGED <<doc, uploadVars, object, late, jobVars>>

Withdraw(p) == \E r \in granted[p] :
    /\ Present(p)
    /\ granted' = [granted EXCEPT ![p] = @ \ {r}]
    /\ reviewed' = IF doc[p].rev = r THEN reviewed \ {p} ELSE reviewed
    /\ UNCHANGED <<doc, uploadVars, object, late, jobVars>>

\* No upload may still write to the path, and no other job erase it.
Unfenced(p) ==
    /\ intent[p] = "ATTACHED"
    /\ \A q \in Upload : job[q].state # "NONE" => job[q].path # p

\* Mutant: any authorization of the document will do, whatever its revision.
PurgeClaimAnyRevision(p) ==
    /\ Present(p) /\ doc[p].removed /\ ~doc[p].hold /\ doc[p].elapsed
    /\ granted[p] # {}
    /\ p \in object
    /\ Unfenced(p)
    /\ doc' = [doc EXCEPT ![p] = NoDocument]
    /\ job' = [job EXCEPT ![p] = NewJob(p)]
    /\ granted' = [granted EXCEPT ![p] = {}]
    /\ reviewed' = reviewed \ {p}
    /\ UNCHANGED <<uploadVars, object, late, worker, announced>>

\* claim and its triggers: the record goes and the deletion job comes in one
\* transaction.  A document has one claim in its life, so every other
\* authorization of it is spent.
PurgeClaim(p) ==
    /\ Present(p) /\ doc[p].removed /\ ~doc[p].hold /\ doc[p].elapsed
    /\ doc[p].rev \in granted[p]
    /\ p \in object
    /\ Unfenced(p)
    /\ doc' = [doc EXCEPT ![p] = NoDocument]
    /\ job' = [job EXCEPT ![p] = NewJob(p)]
    /\ granted' = [granted EXCEPT ![p] = {}]
    /\ reviewed' = reviewed \ {p}
    /\ UNCHANGED <<uploadVars, object, late, worker, announced>>

-----------------------------------------------------------------------------
(* Cleanup runs *)

Take(w, phase, p) == [phase |-> phase, job |-> p, path |-> job[p].path]
Own(w) == job[worker[w].job]
BecomesIdle(w) == worker' = [worker EXCEPT ![w] = Idle]
Advances(w, phase) == worker' = [worker EXCEPT ![w].phase = phase]

\* Mutant: a claim is never taken over.
ClaimDeletionOnce(w, p) ==
    /\ In(w, "idle")
    /\ job[p].state = "PENDING" /\ job[p].attempts < MaxAttempts
    /\ job[p].claim = None
    /\ job' = [job EXCEPT ![p].claim = w, ![p].stale = FALSE]
    /\ worker' = [worker EXCEPT ![w] = Take(w, "claimed", p)]
    /\ UNCHANGED <<uploadVars, docVars, object, late, announced>>

\* claimPendingStorageDeletions.  The batch is worked one job at a time, and
\* the runs of the model hold one each.
ClaimDeletion(w, p) ==
    /\ In(w, "idle")
    /\ job[p].state = "PENDING" /\ job[p].attempts < MaxAttempts
    /\ job[p].claim = None \/ job[p].stale
    /\ job' = [job EXCEPT ![p].claim = w, ![p].stale = FALSE]
    /\ worker' = [worker EXCEPT ![w] = Take(w, "claimed", p)]
    /\ UNCHANGED <<uploadVars, docVars, object, late, announced>>

\* Ten minutes pass.
ClaimGoesStale(p) ==
    /\ job[p].claim # None /\ ~job[p].stale
    /\ job' = [job EXCEPT ![p].stale = TRUE]
    /\ UNCHANGED <<uploadVars, docVars, object, late, worker, announced>>

\* The provider removes the object and then reports it absent.
Erase(w) ==
    /\ In(w, "checked")
    /\ object' = object \ {worker[w].path}
    /\ Advances(w, "erased")
    /\ UNCHANGED <<uploadVars, docVars, late, job, announced>>

\* Still the claim this run made: state PENDING and claimedAt as claimed.
StillClaimed(w) == Own(w).state = "PENDING" /\ Own(w).claim = w

Processed(j) == [NoJob(j.path) EXCEPT !.state = "PROCESSED", !.attempts = j.attempts]

MarkProcessed(w) ==
    /\ In(w, "erased")
    /\ job' = IF StillClaimed(w)
                 THEN [job EXCEPT ![worker[w].job] = Processed(@)]
                 ELSE job
    /\ BecomesIdle(w)
    /\ UNCHANGED <<uploadVars, docVars, object, late, announced>>

\* Mutant: a job that ran out of attempts is dead-lettered without a reason.
FailedUnexplained(j, reason) ==
    LET dead == reason # None \/ j.attempts + 1 >= MaxAttempts
    IN  [NoJob(j.path) EXCEPT
           !.state = IF dead THEN "DEAD_LETTER" ELSE "PENDING",
           !.attempts = j.attempts + 1,
           !.reason = reason]

\* reason: the permanent one, or None for an error worth a retry.
Failed(j, reason) ==
    LET dead == reason # None \/ j.attempts + 1 >= MaxAttempts
    IN  [NoJob(j.path) EXCEPT
           !.state = IF dead THEN "DEAD_LETTER" ELSE "PENDING",
           !.attempts = j.attempts + 1,
           !.reason = IF dead /\ reason = None THEN "MAX_ATTEMPTS_EXHAUSTED" ELSE reason]

\* Mutant: a failure is recorded whoever holds the claim by now.
RecordFailureUnfenced(w, reason) ==
    LET p == worker[w].job
    IN  /\ job' = [job EXCEPT ![p] = Failed(@, reason)]
        /\ announced' = announced \ {p}
        /\ BecomesIdle(w)
        /\ UNCHANGED <<uploadVars, docVars, object>>

\* recordStorageDeletionFailure, ignored when the claim is no longer this run's.
RecordFailure(w, reason) ==
    LET p == worker[w].job
    IN  /\ IF StillClaimed(w)
              THEN /\ job' = [job EXCEPT ![p] = Failed(@, reason)]
                   /\ announced' = announced \ {p}
              ELSE UNCHANGED <<job, announced>>
        /\ BecomesIdle(w)
        /\ UNCHANGED <<uploadVars, docVars, object>>

NoEraser(w) ==
    /\ In(w, "claimed")
    /\ RecordFailure(w, "PROVIDER_NOT_ERASABLE")
    /\ UNCHANGED late

\* A record at the path, removed ones included.
Referenced(c) == c \in Upload /\ Present(c)

CheckTarget(w) ==
    /\ In(w, "claimed")
    /\ IF Referenced(worker[w].path)
         THEN RecordFailure(w, None)
         ELSE /\ Advances(w, "checked")
              /\ UNCHANGED <<uploadVars, docVars, object, job, announced>>
    /\ UNCHANGED late

PathRejected(w) ==
    /\ In(w, "checked")
    /\ RecordFailure(w, "PERMANENT_STORAGE_PATH_REJECTED")
    /\ UNCHANGED late

\* The provider errs, absence is not confirmed, or the attempt times out: the
\* request it sent may yet be carried out.
EraseFails(w) ==
    /\ In(w, "checked")
    /\ RecordFailure(w, None)
    /\ late' = late \cup {worker[w].path}

LateErase(c) ==
    /\ c \in late
    /\ late' = late \ {c}
    /\ object' = object \ {c}
    /\ UNCHANGED <<uploadVars, docVars, jobVars>>

\* The process dies; its claim stays behind.
Crash(w) ==
    /\ ~In(w, "idle")
    /\ late' = IF In(w, "checked") THEN late \cup {worker[w].path} ELSE late
    /\ BecomesIdle(w)
    /\ UNCHANGED <<uploadVars, docVars, object, job, announced>>

-----------------------------------------------------------------------------
(* The alert for a dead letter *)

ClaimAlert(w, p) ==
    /\ In(w, "idle")
    /\ job[p].state = "DEAD_LETTER" /\ ~job[p].alerted
    /\ job[p].alert = None \/ job[p].alertStale
    /\ job' = [job EXCEPT ![p].alert = w, ![p].alertStale = FALSE]
    /\ worker' = [worker EXCEPT ![w] = Take(w, "alerting", p)]
    /\ UNCHANGED <<uploadVars, docVars, object, late, announced>>

AlertGoesStale(p) ==
    /\ job[p].alert # None /\ ~job[p].alertStale
    /\ job' = [job EXCEPT ![p].alertStale = TRUE]
    /\ UNCHANGED <<uploadVars, docVars, object, late, worker, announced>>

\* sendJobFailureAlert reaches the operator.
DeliverAlert(w) ==
    /\ In(w, "alerting")
    /\ Advances(w, "delivered")
    /\ announced' = announced \cup
                      (IF Own(w).state = "DEAD_LETTER" THEN {worker[w].job} ELSE {})
    /\ UNCHANGED <<uploadVars, docVars, object, late, job>>

Alerting(w) ==
    /\ Own(w).state = "DEAD_LETTER" /\ ~Own(w).alerted
    /\ Own(w).alert = w

\* Mutant: the acknowledgement does not look at the claim token.
MarkAlertSentUnfenced(w) ==
    /\ In(w, "delivered")
    /\ job' = IF Own(w).state = "DEAD_LETTER"
                 THEN [job EXCEPT ![worker[w].job] = [@ EXCEPT
                         !.alerted = TRUE, !.alert = None, !.alertStale = FALSE]]
                 ELSE job
    /\ BecomesIdle(w)
    /\ UNCHANGED <<uploadVars, docVars, object, late, announced>>

MarkAlertSent(w) ==
    /\ In(w, "delivered")
    /\ job' = IF Alerting(w)
                 THEN [job EXCEPT ![worker[w].job] = [@ EXCEPT
                         !.alerted = TRUE, !.alert = None, !.alertStale = FALSE]]
                 ELSE job
    /\ BecomesIdle(w)
    /\ UNCHANGED <<uploadVars, docVars, object, late, announced>>

ReleaseAlert(w) ==
    /\ In(w, "alerting")
    /\ job' = IF Alerting(w)
                 THEN [job EXCEPT ![worker[w].job] = [@ EXCEPT
                         !.alert = None, !.alertStale = FALSE]]
                 ELSE job
    /\ BecomesIdle(w)
    /\ UNCHANGED <<uploadVars, docVars, object, late, announced>>

-----------------------------------------------------------------------------
(* recoverDeadLetterStorageDeletion *)

Recoverable(p) == job[p].state = "DEAD_LETTER" /\ job[p].alert = None

RequeueUnchanged(p) ==
    /\ Recoverable(p)
    /\ job[p].reason # "PERMANENT_STORAGE_PATH_REJECTED"
    /\ job' = [job EXCEPT ![p] = NewJob(@.path)]
    /\ UNCHANGED <<uploadVars, docVars, object, late, worker, announced>>

\* The path of a purge is pinned to its claim and cannot be corrected.
RequeueCorrectedPath(p, c) ==
    /\ Recoverable(p)
    /\ intent[p] = "CLEANUP_PENDING"
    /\ c # job[p].path
    /\ ~Referenced(c)
    /\ \A q \in Upload \ {p} : job[q].state # "NONE" => job[q].path # c
    /\ job' = [job EXCEPT ![p] = NewJob(c)]
    /\ UNCHANGED <<uploadVars, docVars, object, late, worker, announced>>

\* COMPLETE_EXTERNALLY_REMEDIATED: the operator removed the object first.
CompleteExternally(p) ==
    /\ Recoverable(p)
    /\ object' = object \ {job[p].path}
    /\ job' = [job EXCEPT ![p] = Processed(@)]
    /\ UNCHANGED <<uploadVars, docVars, late, worker, announced>>

-----------------------------------------------------------------------------
UploadStep(p) ==
    \/ Reserve(p) \/ WriteObject(p) \/ WriteFails(p) \/ WriteLandsLate(p)
    \/ CreateDocument(p) \/ CreateFails(p) \/ Age(p) \/ Reconcile(p)

VaultStep(p) ==
    \/ Remove(p) \/ Restore(p) \/ SetDeletionHold(p) \/ Elapse(p)
    \/ Authorize(p) \/ Withdraw(p) \/ PurgeClaim(p)

CleanupStep(w) ==
    \/ \E p \in Upload : ClaimDeletion(w, p) \/ ClaimAlert(w, p)
    \/ CheckTarget(w) \/ Erase(w) \/ MarkProcessed(w)
    \/ NoEraser(w) \/ PathRejected(w) \/ EraseFails(w)
    \/ DeliverAlert(w) \/ MarkAlertSent(w) \/ ReleaseAlert(w)
    \/ Crash(w)

RecoveryStep(p) ==
    \/ RequeueUnchanged(p) \/ CompleteExternally(p)
    \/ \E c \in Correctable : RequeueCorrectedPath(p, c)

Next ==
    \/ \E p \in Upload : \/ UploadStep(p) \/ VaultStep(p) \/ RecoveryStep(p)
                          \/ ClaimGoesStale(p) \/ AlertGoesStale(p)
    \/ \E w \in Worker : CleanupStep(w)
    \/ \E c \in Path : LateErase(c)

\* Provider writes are bounded, time passes, and the scheduler runs cleanup
\* again and again, taking the oldest work first.  A claim outlives the longest
\* batch (54 attempts of ten seconds), so a run that neither crashes nor stalls
\* settles what it claimed while the claim is its own: faults may strike any
\* number of times, but not at every attempt for ever, nor may the alert
\* channel refuse for ever.
Fairness ==
    /\ \A p \in Upload :
         /\ WF_vars(WriteObject(p) \/ WriteFails(p))
         /\ WF_vars(Age(p)) /\ WF_vars(Reconcile(p))
         /\ WF_vars(ClaimGoesStale(p)) /\ WF_vars(AlertGoesStale(p))
         /\ SF_vars(\E w \in Worker : ClaimDeletion(w, p))
         /\ SF_vars(\E w \in Worker : ClaimAlert(w, p))
    /\ WF_vars(\E w \in Worker : CheckTarget(w) \/ Erase(w) \/ EraseFails(w) \/ MarkProcessed(w)
                                   \/ DeliverAlert(w) \/ ReleaseAlert(w) \/ MarkAlertSent(w))
    /\ SF_vars(\E w \in Worker : CheckTarget(w) /\ StillClaimed(w))
    /\ SF_vars(\E w \in Worker : (Erase(w) \/ EraseFails(w)) /\ StillClaimed(w))
    /\ SF_vars(\E w \in Worker : MarkProcessed(w) /\ StillClaimed(w))
    /\ SF_vars(\E w \in Worker : DeliverAlert(w) /\ Alerting(w))
    /\ SF_vars(\E w \in Worker : MarkAlertSent(w) /\ Alerting(w))

Spec == Init /\ [][Next]_vars /\ Fairness

-----------------------------------------------------------------------------
(* Safety *)

\* A document, live or in Deleted Items, still has its bytes: neither a cleanup
\* run that checked its target earlier, nor an erase that outlived its attempt,
\* nor the reconciliation of a slow upload takes them away.
DocumentKeepsBytes == \A p \in Upload : Present(p) => p \in object

\* Bytes of an upload that no document refers to are never forgotten: the
\* reservation is still to be settled, or an unprocessed job still names them
\* (unless an operator pointed that job at another path).
NoOrphanForgotten == \A p \in Upload :
    p \in object /\ ~Present(p) =>
        \/ intent[p] = "RESERVED"
        \/ job[p].state \in {"PENDING", "DEAD_LETTER"}
        \/ job[p].path # p

\* A dead letter counts as alerted only if an operator heard of it after it was
\* dead-lettered this time: the acknowledgement of an older alert, sent before a
\* requeue, does not silence it.
AlertedWasAnnounced == \A p \in Upload : job[p].alerted => p \in announced

\* A document disappears only in the state the owner authorized: not after it
\* was restored, held or changed since, whatever older authorizations remain.
PurgeFollowsReview ==
    [][\A p \in Upload : Present(p) /\ ~Present(p)' => p \in reviewed]_vars

\* A processed deletion stays processed: the late failure of a run that lost its
\* claim does not bring the job back.
ProcessedIsFinal ==
    [][\A p \in Upload : job[p].state = "PROCESSED" => job'[p].state = "PROCESSED"]_vars

(* Liveness *)

\* Bytes without a document do not linger: they are erased, or they get their
\* document, or an operator is told of the dead letter or has pointed its job
\* elsewhere - however many runs die or stall holding a claim, and however often
\* the job is requeued.
OrphanErasedOrReported == \A p \in Upload :
    p \in object /\ ~Present(p) ~>
        p \notin object \/ Present(p) \/ job[p].alerted \/ job[p].path # p
=============================================================================
