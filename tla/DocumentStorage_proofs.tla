----------------------- MODULE DocumentStorage_proofs -----------------------
(***************************************************************************)
(* The theorems about DocumentStorage, for every set of uploads, correct-  *)
(* able paths and cleanup runs and for every bound.  Three inductive       *)
(* invariants: Custody says which paths can still be erased (those whose   *)
(* deletion job exists, which no document and no open reservation has),    *)
(* Alerts what a run that told the operator knows about its dead letter,   *)
(* and Review that a claimable authorization is of a revision reviewed.    *)
(***************************************************************************)
EXTENDS DocumentStorage, TLAPS

Cleaning(w) == worker[w].phase \in {"claimed", "checked", "erased"}

\* A job that is still to be worked has an attempt left.
Retriable == \A p \in Upload : job[p].state = "PENDING" => job[p].attempts < MaxAttempts

\* Only open reservations age, and a provider write is only under way for one
\* that is still fresh.
WritesAreFresh ==
    /\ \A p \in Upload : p \in aged => intent[p] = "RESERVED"
    /\ \A p \in Upload : request[p] \in {"writing", "unsure"} =>
         intent[p] = "RESERVED" /\ p \notin aged

\* A deletion job exists only for a settled reservation and without a document.
JobsAreDue ==
    \A p \in Upload :
        /\ Present(p) => intent[p] = "ATTACHED"
        /\ Present(p) \/ intent[p] \in {"NONE", "RESERVED"} => job[p].state = "NONE"

\* A job names its own path or one an operator corrected it to; nobody claims a
\* job that does not exist.
JobsKeepTheirPath ==
    \A p \in Upload :
        /\ job[p].path \in {p} \cup Correctable
        /\ job[p].state = "NONE" => job[p].path = p /\ job[p].claim = None /\ job[p].alert = None

\* Whatever can still erase a path of an upload follows from that path's job.
HoldsDueJob(w) ==
    worker[w] # Idle =>
        /\ worker[w].path \in {worker[w].job} \cup Correctable
        /\ job[worker[w].job].state # "NONE"
LateIsDue == \A p \in Upload : p \in late => job[p].state # "NONE"

\* Stored bytes stay until a job takes them.
BytesKept ==
    \A p \in Upload :
        Present(p) \/ (request[p] = "written" /\ intent[p] = "RESERVED") => p \in object

\* What a run erased does not come back, and its claim is for that path.
ErasedIsGone(w) ==
    /\ In(w, "erased") /\ worker[w].path \in Upload => worker[w].path \notin object
    /\ Cleaning(w) /\ StillClaimed(w) => worker[w].path = Own(w).path

\* The parts of Custody about rows and bytes, and about the runs.
RowCustody ==
    /\ WritesAreFresh
    /\ JobsAreDue
    /\ JobsKeepTheirPath
    /\ BytesKept
    /\ NoOrphanForgotten
RunCustody(w) == HoldsDueJob(w) /\ ErasedIsGone(w)

Custody ==
    /\ RowCustody
    /\ LateIsDue
    /\ \A w \in Worker : RunCustody(w)

\* A run that delivered the alert of its claim told an operator of this death.
Alerts ==
    /\ AlertedWasAnnounced
    /\ \A w \in Worker : In(w, "delivered") /\ Alerting(w) => worker[w].job \in announced

\* An authorization of the current revision means nothing changed since.
Review ==
    \A p \in Upload :
        /\ ~Present(p) => granted[p] = {}
        /\ Present(p) => \A r \in granted[p] : r <= doc[p].rev
        /\ Present(p) /\ doc[p].rev \in granted[p] => p \in reviewed

-----------------------------------------------------------------------------
(* Type correctness *)

\* A record is there or it is not.
LEMMA DocType ==
    ASSUME TypeOK, NEW p \in Upload
    PROVE  /\ Present(p) => doc[p] \in Document
           /\ ~Present(p) => doc[p] = NoDocument
<1>1. doc[p] = NoDocument \/ doc[p] \in Document
  BY DEF TypeOK
<1>2. ASSUME doc[p] = NoDocument PROVE ~Present(p)
  <2>1. NoDocument.present = FALSE
    BY DEF NoDocument
  <2> QED
    BY <1>2, <2>1, Zenon DEF Present
<1>3. ASSUME doc[p] \in Document PROVE Present(p)
  <2>1. doc[p].present = TRUE
    BY <1>3 DEF Document
  <2> QED
    BY <2>1, Zenon DEF Present
<1> QED
  BY <1>1, <1>2, <1>3, Zenon

\* A run that is not idle holds a job.
LEMMA WorkerType ==
    ASSUME TypeOK, NEW w \in Worker
    PROVE  /\ worker[w] # Idle <=> ~In(w, "idle")
           /\ worker[w] # Idle =>
                /\ worker[w] \in Holding
                /\ worker[w].job \in Upload /\ worker[w].path \in Path
                /\ Own(w) \in Job
BY DEF TypeOK, In, Idle, Holding, Own

\* Moving on keeps what a run holds.
LEMMA AdvanceType ==
    ASSUME TypeOK, NEW w \in Worker, worker[w] # Idle,
           NEW phase \in {"claimed", "checked", "erased", "alerting", "delivered"},
           Advances(w, phase)
    PROVE  worker' \in [Worker -> {Idle} \cup Holding]
<1>1. worker[w] \in Holding
  BY WorkerType
<1>2. [worker[w] EXCEPT !.phase = phase] \in Holding
  BY <1>1 DEF Holding
<1> QED
  BY <1>2 DEF Advances, TypeOK

\* The operators that make job rows make job rows.
LEMMA JobType ==
    ASSUME NEW j \in Job
    PROVE  /\ \A p \in Path : NewJob(p) \in Job /\ NoJob(p) \in Job
           /\ Processed(j) \in Job
           /\ \A w \in Worker : [j EXCEPT !.claim = w, !.stale = FALSE] \in Job
           /\ \A w \in Worker : [j EXCEPT !.alert = w, !.alertStale = FALSE] \in Job
           /\ [j EXCEPT !.stale = TRUE] \in Job
           /\ [j EXCEPT !.alertStale = TRUE] \in Job
           /\ [j EXCEPT !.alerted = TRUE, !.alert = None, !.alertStale = FALSE] \in Job
           /\ [j EXCEPT !.alert = None, !.alertStale = FALSE] \in Job
<1>1. 0 \in 0 .. MaxAttempts /\ FALSE \in BOOLEAN /\ TRUE \in BOOLEAN
  BY StorageAssumption
<1>2. ASSUME NEW p \in Path, NEW a \in 0 .. MaxAttempts,
             NEW s \in {"NONE", "PENDING", "PROCESSED", "DEAD_LETTER"}
      PROVE  [NoJob(p) EXCEPT !.state = s, !.attempts = a] \in Job
  BY <1>1 DEF Job, NoJob
<1>3. ASSUME NEW p \in Path PROVE NewJob(p) \in Job /\ NoJob(p) \in Job
  BY <1>1 DEF Job, NoJob, NewJob
<1>4. Processed(j) \in Job
  <2>1. j.path \in Path /\ j.attempts \in 0 .. MaxAttempts
    BY DEF Job
  <2> QED
    BY <1>2, <2>1 DEF Processed
<1>5. ASSUME NEW w \in Worker
      PROVE  /\ [j EXCEPT !.claim = w, !.stale = FALSE] \in Job
             /\ [j EXCEPT !.alert = w, !.alertStale = FALSE] \in Job
  BY DEF Job
<1>6. /\ [j EXCEPT !.stale = TRUE] \in Job
      /\ [j EXCEPT !.alertStale = TRUE] \in Job
      /\ [j EXCEPT !.alerted = TRUE, !.alert = None, !.alertStale = FALSE] \in Job
      /\ [j EXCEPT !.alert = None, !.alertStale = FALSE] \in Job
  BY DEF Job
<1> QED
  BY <1>3, <1>4, <1>5, <1>6

\* A failed attempt leaves a retry, or a dead letter that says why.
LEMMA FailedType ==
    ASSUME NEW j \in Job, j.attempts < MaxAttempts, NEW reason \in TerminalReason \cup {None}
    PROVE  /\ Failed(j, reason) \in Job
           /\ Failed(j, reason).state \in {"PENDING", "DEAD_LETTER"}
           /\ Failed(j, reason).state = "DEAD_LETTER" <=> Failed(j, reason).reason # None
           /\ Failed(j, reason).state = "PENDING" => Failed(j, reason).attempts < MaxAttempts
           /\ Failed(j, reason).path = j.path
           /\ Failed(j, reason).claim = None /\ Failed(j, reason).alert = None
           /\ ~Failed(j, reason).alerted
<1>1. j.attempts \in Nat /\ j.attempts + 1 \in 0 .. MaxAttempts /\ MaxAttempts \in Nat
      /\ j.path \in Path
  BY StorageAssumption DEF Job
<1>2. "MAX_ATTEMPTS_EXHAUSTED" \in TerminalReason /\ None \notin TerminalReason
  BY StorageAssumption DEF TerminalReason
<1>3. ASSUME NEW s \in {"PENDING", "DEAD_LETTER"}, NEW r \in TerminalReason \cup {None},
             Failed(j, reason) = [NoJob(j.path) EXCEPT
               !.state = s, !.attempts = j.attempts + 1, !.reason = r],
             s = "DEAD_LETTER" <=> r # None,
             s = "PENDING" => j.attempts + 1 < MaxAttempts
      PROVE  /\ Failed(j, reason) \in Job
             /\ Failed(j, reason).state \in {"PENDING", "DEAD_LETTER"}
             /\ Failed(j, reason).state = "DEAD_LETTER" <=> Failed(j, reason).reason # None
             /\ Failed(j, reason).state = "PENDING" => Failed(j, reason).attempts < MaxAttempts
             /\ Failed(j, reason).path = j.path
             /\ Failed(j, reason).claim = None /\ Failed(j, reason).alert = None
             /\ ~Failed(j, reason).alerted
  BY <1>1, <1>3 DEF NoJob, Job
<1>4. CASE reason # None
  BY <1>2, <1>3, <1>4 DEF Failed
<1>5. CASE reason = None /\ j.attempts + 1 >= MaxAttempts
  BY <1>2, <1>3, <1>5 DEF Failed
<1>6. CASE reason = None /\ ~(j.attempts + 1 >= MaxAttempts)
  <2>1. j.attempts + 1 < MaxAttempts
    BY <1>1, <1>6
  <2>2. Failed(j, reason) = [NoJob(j.path) EXCEPT
          !.state = "PENDING", !.attempts = j.attempts + 1, !.reason = None]
    BY <1>6 DEF Failed
  <2> QED
    BY <1>2, <1>3, <2>1, <2>2
<1> QED
  BY <1>4, <1>5, <1>6
\* No upload has happened.
LEMMA TypeInit == Init => TypeOK /\ Retriable
<1> SUFFICES ASSUME Init PROVE TypeOK /\ Retriable
  OBVIOUS
<1>1. \A p \in Upload : 0 \in 0 .. MaxAttempts /\ NoJob(p) \in Job
  BY StorageAssumption DEF NoJob, Job, Path
<1>2. \A p \in Upload : job[p] = NoJob(p) /\ job[p].state = "NONE" /\ job[p].reason = None
  BY DEF Init, NoJob
<1>3. job \in [Upload -> Job]
  BY <1>1, <1>2 DEF Init
<1> QED
  BY <1>2, <1>3 DEF Init, TypeOK, Retriable, Intent, Request, Path

\* The rows of all jobs together.
JobsOK ==
    /\ job \in [Upload -> Job]
    /\ \A p \in Upload : job[p].state = "DEAD_LETTER" <=> job[p].reason # None
    /\ Retriable

\* A job that changes into a well-formed one leaves all jobs well-formed.
LEMMA JobStep ==
    ASSUME JobsOK, NEW p \in Upload, NEW j \in Job, job' = [job EXCEPT ![p] = j],
           j.state = "DEAD_LETTER" <=> j.reason # None,
           j.state = "PENDING" => j.attempts < MaxAttempts
    PROVE  JobsOK'
BY DEF JobsOK, Retriable

\* A fresh job is well-formed.
LEMMA NewJobStep ==
    ASSUME JobsOK, NEW p \in Upload, NEW c \in Path, job' = [job EXCEPT ![p] = NewJob(c)]
    PROVE  JobsOK'
<1>1. job[p] \in Job
  BY DEF JobsOK
<1>2. NewJob(c) \in Job
  BY <1>1, JobType
<1>3. NewJob(c).state = "PENDING" /\ NewJob(c).reason = None /\ NewJob(c).attempts < MaxAttempts
  BY StorageAssumption DEF NewJob, NoJob
<1> QED
  BY <1>2, <1>3, JobStep

\* A processed job is well-formed.
LEMMA ProcessedStep ==
    ASSUME JobsOK, NEW p \in Upload, job' = [job EXCEPT ![p] = Processed(@)]
    PROVE  JobsOK'
<1>1. job[p] \in Job
  BY DEF JobsOK
<1>2. Processed(job[p]) \in Job
  BY <1>1, JobType
<1>3. Processed(job[p]).state = "PROCESSED" /\ Processed(job[p]).reason = None
  BY DEF Processed, NoJob
<1> QED
  BY <1>2, <1>3, JobStep

\* A change of a job that is about claims and alerts only.
Marked(p, j) ==
    /\ j \in Job
    /\ job' = [job EXCEPT ![p] = j]
    /\ j.state = job[p].state /\ j.path = job[p].path
    /\ j.reason = job[p].reason /\ j.attempts = job[p].attempts

\* It touches nothing the type relates.
LEMMA MarkStep ==
    ASSUME JobsOK, NEW p \in Upload, NEW j, Marked(p, j)
    PROVE  JobsOK'
BY DEF JobsOK, Retriable, Marked

\* Claiming a deletion or an alert is such a change.
LEMMA ClaimMarks ==
    ASSUME job \in [Upload -> Job], NEW p \in Upload, NEW w \in Worker
    PROVE  /\ job' = [job EXCEPT ![p].claim = w, ![p].stale = FALSE] =>
                \E j : Marked(p, j) /\ j.claim = w /\ j.alert = job[p].alert
                                    /\ j.alerted = job[p].alerted
           /\ job' = [job EXCEPT ![p].alert = w, ![p].alertStale = FALSE] =>
                \E j : Marked(p, j) /\ j.claim = job[p].claim /\ j.alert = w
                                    /\ j.alerted = job[p].alerted
<1>1. job[p] \in Job
  OBVIOUS
<1>2. ASSUME job' = [job EXCEPT ![p].claim = w, ![p].stale = FALSE]
      PROVE  \E j : Marked(p, j) /\ j.claim = w /\ j.alert = job[p].alert
                                 /\ j.alerted = job[p].alerted
  <2> DEFINE j == [job[p] EXCEPT !.claim = w, !.stale = FALSE]
  <2>1. j \in Job
    BY <1>1, JobType
  <2>2. /\ j.state = job[p].state /\ j.path = job[p].path /\ j.claim = w
        /\ j.reason = job[p].reason /\ j.attempts = job[p].attempts /\ j.alert = job[p].alert
    BY <1>1 DEF Job
  <2>3. j.alerted = job[p].alerted
    BY <1>1 DEF Job
  <2>4. job' = [job EXCEPT ![p] = j]
    BY <1>2, <1>1
  <2> QED
    BY <2>1, <2>2, <2>3, <2>4 DEF Marked
<1>3. ASSUME job' = [job EXCEPT ![p].alert = w, ![p].alertStale = FALSE]
      PROVE  \E j : Marked(p, j) /\ j.claim = job[p].claim /\ j.alert = w
                                 /\ j.alerted = job[p].alerted
  <2> DEFINE j == [job[p] EXCEPT !.alert = w, !.alertStale = FALSE]
  <2>1. j \in Job
    BY <1>1, JobType
  <2>2. /\ j.state = job[p].state /\ j.path = job[p].path /\ j.claim = job[p].claim
        /\ j.reason = job[p].reason /\ j.attempts = job[p].attempts /\ j.alert = w
    BY <1>1 DEF Job
  <2>3. j.alerted = job[p].alerted
    BY <1>1 DEF Job
  <2>4. job' = [job EXCEPT ![p] = j]
    BY <1>3, <1>1
  <2> QED
    BY <2>1, <2>2, <2>3, <2>4 DEF Marked
<1> QED
  BY <1>2, <1>3

\* So are ageing, acknowledging an alert and giving it back.
LEMMA OtherMarks ==
    ASSUME job \in [Upload -> Job], NEW p \in Upload
    PROVE  /\ \/ job' = [job EXCEPT ![p].stale = TRUE]
              \/ job' = [job EXCEPT ![p].alertStale = TRUE]
              => \E j : Marked(p, j) /\ j.claim = job[p].claim /\ j.alert = job[p].alert
                                     /\ j.alerted = job[p].alerted
           /\ job' = [job EXCEPT ![p] = [@ EXCEPT
                        !.alerted = TRUE, !.alert = None, !.alertStale = FALSE]]
              => \E j : Marked(p, j) /\ j.claim = job[p].claim /\ j.alert = None
           /\ job' = [job EXCEPT ![p] = [@ EXCEPT !.alert = None, !.alertStale = FALSE]]
              => \E j : Marked(p, j) /\ j.claim = job[p].claim /\ j.alert = None
                                     /\ j.alerted = job[p].alerted
<1>1. job[p] \in Job
  OBVIOUS
<1>2. ASSUME NEW j, j \in { [job[p] EXCEPT !.stale = TRUE], [job[p] EXCEPT !.alertStale = TRUE] }
      PROVE  /\ j \in Job
             /\ j.state = job[p].state /\ j.path = job[p].path /\ j.claim = job[p].claim
             /\ j.reason = job[p].reason /\ j.attempts = job[p].attempts
             /\ j.alert = job[p].alert /\ j.alerted = job[p].alerted
  <2>1. j \in Job
    BY <1>1, <1>2, JobType
  <2>2. /\ j.state = job[p].state /\ j.path = job[p].path /\ j.claim = job[p].claim
        /\ j.reason = job[p].reason /\ j.attempts = job[p].attempts /\ j.alert = job[p].alert
    BY <1>1, <1>2 DEF Job
  <2>3. j.alerted = job[p].alerted
    BY <1>1, <1>2 DEF Job
  <2> QED
    BY <2>1, <2>2, <2>3
<1>3. ASSUME job' = [job EXCEPT ![p].stale = TRUE] \/ job' = [job EXCEPT ![p].alertStale = TRUE]
      PROVE  \E j : Marked(p, j) /\ j.claim = job[p].claim /\ j.alert = job[p].alert
                                 /\ j.alerted = job[p].alerted
  <2>1. PICK j \in { [job[p] EXCEPT !.stale = TRUE], [job[p] EXCEPT !.alertStale = TRUE] } :
          job' = [job EXCEPT ![p] = j]
    BY <1>3
  <2> QED
    BY <1>2, <2>1 DEF Marked
<1>4. ASSUME job' = [job EXCEPT ![p] = [@ EXCEPT
                       !.alerted = TRUE, !.alert = None, !.alertStale = FALSE]]
      PROVE  \E j : Marked(p, j) /\ j.claim = job[p].claim /\ j.alert = None
  <2> DEFINE j == [job[p] EXCEPT !.alerted = TRUE, !.alert = None, !.alertStale = FALSE]
  <2>1. j \in Job
    BY <1>1, JobType
  <2>2. /\ j.state = job[p].state /\ j.path = job[p].path /\ j.claim = job[p].claim
        /\ j.reason = job[p].reason /\ j.attempts = job[p].attempts /\ j.alert = None
    BY <1>1 DEF Job
  <2> QED
    BY <1>4, <2>1, <2>2 DEF Marked
<1>5. ASSUME job' = [job EXCEPT ![p] = [@ EXCEPT !.alert = None, !.alertStale = FALSE]]
      PROVE  \E j : Marked(p, j) /\ j.claim = job[p].claim /\ j.alert = None
                                 /\ j.alerted = job[p].alerted
  <2> DEFINE j == [job[p] EXCEPT !.alert = None, !.alertStale = FALSE]
  <2>1. j \in Job
    BY <1>1, JobType
  <2>2. /\ j.state = job[p].state /\ j.path = job[p].path /\ j.claim = job[p].claim
        /\ j.reason = job[p].reason /\ j.attempts = job[p].attempts /\ j.alert = None
    BY <1>1 DEF Job
  <2>3. j.alerted = job[p].alerted
    BY <1>1 DEF Job
  <2> QED
    BY <1>5, <2>1, <2>2, <2>3 DEF Marked
<1> QED
  BY <1>3, <1>4, <1>5

\* What a run does with its job when its attempt failed.
LEMMA FailureStep ==
    ASSUME TypeOK, Retriable, NEW w \in Worker, worker[w] # Idle,
           NEW reason \in TerminalReason \cup {None}, RecordFailure(w, reason)
    PROVE  /\ JobsOK'
           /\ worker' = [worker EXCEPT ![w] = Idle]
           /\ announced' \in SUBSET Upload
<1>1. JobsOK /\ worker[w].job \in Upload
  BY WorkerType DEF TypeOK, JobsOK
<1>2. CASE StillClaimed(w)
  <2> DEFINE j == job[worker[w].job]
  <2>1. j \in Job /\ j.attempts < MaxAttempts
    BY <1>1, <1>2 DEF JobsOK, Retriable, StillClaimed, Own
  <2>2. /\ Failed(j, reason) \in Job
        /\ Failed(j, reason).state = "DEAD_LETTER" <=> Failed(j, reason).reason # None
        /\ Failed(j, reason).state = "PENDING" => Failed(j, reason).attempts < MaxAttempts
    BY <2>1, FailedType
  <2>3. /\ job' = [job EXCEPT ![worker[w].job] = Failed(j, reason)]
        /\ announced' = announced \ {worker[w].job}
        /\ worker' = [worker EXCEPT ![w] = Idle]
    BY <1>2 DEF RecordFailure, BecomesIdle
  <2>4. JobsOK'
    BY <1>1, <2>2, <2>3, JobStep
  <2> QED
    BY <2>3, <2>4 DEF TypeOK
<1>3. CASE ~StillClaimed(w)
  BY <1>1, <1>3 DEF RecordFailure, BecomesIdle, TypeOK, JobsOK, Retriable
<1> QED
  BY <1>2, <1>3

\* Everything but the jobs and the runs.
RestOK ==
    /\ intent \in [Upload -> Intent]
    /\ aged \in SUBSET Upload
    /\ request \in [Upload -> Request]
    /\ doc \in [Upload -> {NoDocument} \cup Document]
    /\ granted \in [Upload -> SUBSET Nat]
    /\ object \in SUBSET Path
    /\ late \in SUBSET Path
    /\ reviewed \in SUBSET Upload
    /\ announced \in SUBSET Upload

WorkersOK == worker \in [Worker -> {Idle} \cup Holding]

\* The type invariant in its three parts.
LEMMA TypeParts == TypeOK /\ Retriable <=> RestOK /\ JobsOK /\ WorkersOK
BY DEF TypeOK, RestOK, JobsOK, WorkersOK

\* The steps of an upload.
LEMMA UploadType ==
    ASSUME TypeOK, Retriable, NEW p \in Upload, UploadStep(p)
    PROVE  RestOK' /\ JobsOK' /\ WorkersOK'
<1> USE TypeParts
<1>1. ASSUME \/ Reserve(p) \/ WriteObject(p) \/ WriteFails(p) \/ WriteLandsLate(p)
             \/ CreateFails(p) \/ Age(p)
      PROVE  RestOK'
  BY <1>1 DEF Reserve, WriteObject, WriteFails, WriteLandsLate, CreateFails, Age,
              RestOK, docVars, jobVars, Intent, Request, Path
<1>2. ASSUME CreateDocument(p) PROVE RestOK'
  <2>1. [present |-> TRUE, removed |-> FALSE, hold |-> FALSE, elapsed |-> FALSE, rev |-> 0]
          \in Document
    BY DEF Document
  <2>2. doc' \in [Upload -> {NoDocument} \cup Document]
    BY <1>2, <2>1 DEF CreateDocument, RestOK
  <2>3. request' \in [Upload -> Request] /\ intent' \in [Upload -> Intent] /\ aged' \in SUBSET Upload
    BY <1>2 DEF CreateDocument, RestOK, Request, Intent
  <2> QED
    BY <1>2, <2>2, <2>3 DEF CreateDocument, RestOK, jobVars
<1>3. ASSUME Reconcile(p) PROVE RestOK'
  BY <1>3 DEF Reconcile, RestOK, docVars, Intent
<1>4. JobsOK /\ p \in Path
  BY DEF Path
<1>5. JobsOK'
  <2>1. CASE Reconcile(p) /\ ~Present(p)
    BY <1>4, <2>1, NewJobStep DEF Reconcile
  <2>2. CASE job' = job
    BY <1>4, <2>2 DEF JobsOK, Retriable
  <2> QED
    BY <2>1, <2>2 DEF UploadStep, Reserve, WriteObject, WriteFails, WriteLandsLate,
       CreateFails, Age, CreateDocument, Reconcile, jobVars
<1>6. WorkersOK'
  BY DEF UploadStep, Reserve, WriteObject, WriteFails, WriteLandsLate,
       CreateFails, Age, CreateDocument, Reconcile, jobVars, WorkersOK
<1> QED
  BY <1>1, <1>2, <1>3, <1>5, <1>6 DEF UploadStep

\* A changed document is a document, at the next revision.
LEMMA ReviseType ==
    ASSUME TypeOK, NEW p \in Upload, Remove(p) \/ Restore(p) \/ SetDeletionHold(p)
    PROVE  \E new \in Document :
             /\ doc' = [doc EXCEPT ![p] = new]
             /\ new.rev = doc[p].rev + 1
             /\ Present(p)
             /\ reviewed' = reviewed \ {p}
             /\ UNCHANGED <<granted, uploadVars, object, late, jobVars>>
<1>1. Present(p) /\ doc[p] \in Document
  BY DocType DEF Remove, Restore, SetDeletionHold
<1>2. ASSUME NEW d \in Document PROVE [d EXCEPT !.rev = @ + 1] \in Document
  <2>1. d.rev + 1 \in Nat
    BY DEF Document
  <2>2. \A n \in Nat : [d EXCEPT !.rev = n] \in Document
    BY DEF Document
  <2> QED
    BY <2>1, <2>2
<1>3. ASSUME NEW d \in Document, d.rev = doc[p].rev, Revise(p, d)
      PROVE  \E new \in Document :
               /\ doc' = [doc EXCEPT ![p] = new]
               /\ new.rev = doc[p].rev + 1
               /\ Present(p)
               /\ reviewed' = reviewed \ {p}
               /\ UNCHANGED <<granted, uploadVars, object, late, jobVars>>
  <2>1. [d EXCEPT !.rev = @ + 1] \in Document /\ [d EXCEPT !.rev = @ + 1].rev = doc[p].rev + 1
    BY <1>2, <1>3 DEF Document
  <2> QED
    BY <1>1, <1>3, <2>1 DEF Revise
<1>4. PICK b \in BOOLEAN : b = ~doc[p].hold
  OBVIOUS
<1>5. /\ [doc[p] EXCEPT !.removed = TRUE, !.elapsed = FALSE] \in Document
      /\ [doc[p] EXCEPT !.removed = FALSE] \in Document
      /\ [doc[p] EXCEPT !.hold = b] \in Document
  BY <1>1 DEF Document
<1>6. /\ [doc[p] EXCEPT !.removed = TRUE, !.elapsed = FALSE].rev = doc[p].rev
      /\ [doc[p] EXCEPT !.removed = FALSE].rev = doc[p].rev
      /\ [doc[p] EXCEPT !.hold = b].rev = doc[p].rev
  BY <1>1 DEF Document
<1>7. [doc[p] EXCEPT !.hold = ~@] = [doc[p] EXCEPT !.hold = b]
  BY <1>4
<1> QED
  BY <1>3, <1>5, <1>6, <1>7 DEF Remove, Restore, SetDeletionHold

\* The steps of the vault.
LEMMA VaultType ==
    ASSUME TypeOK, Retriable, NEW p \in Upload, VaultStep(p)
    PROVE  RestOK' /\ JobsOK' /\ WorkersOK'
<1> USE TypeParts
<1>1. ASSUME Remove(p) \/ Restore(p) \/ SetDeletionHold(p)
      PROVE  RestOK' /\ JobsOK' /\ WorkersOK'
  <2>1. PICK new \in Document :
             /\ doc' = [doc EXCEPT ![p] = new]
             /\ reviewed' = reviewed \ {p}
             /\ UNCHANGED <<granted, uploadVars, object, late, jobVars>>
    BY <1>1, ReviseType
  <2> QED
    BY <2>1 DEF RestOK, JobsOK, WorkersOK, Retriable, uploadVars, jobVars
<1>2. ASSUME Elapse(p) PROVE RestOK' /\ JobsOK' /\ WorkersOK'
  <2>1. doc[p] \in Document
    BY <1>2, DocType DEF Elapse
  <2>2. [doc[p] EXCEPT !.elapsed = TRUE] \in Document
    BY <2>1 DEF Document
  <2>3. doc' = [doc EXCEPT ![p] = [doc[p] EXCEPT !.elapsed = TRUE]]
    BY <1>2 DEF Elapse
  <2>4. doc' \in [Upload -> {NoDocument} \cup Document]
    BY <2>2, <2>3 DEF RestOK
  <2> QED
    BY <1>2, <2>4 DEF Elapse, RestOK, JobsOK, WorkersOK, Retriable, uploadVars, jobVars
<1>3. ASSUME Authorize(p) PROVE RestOK' /\ JobsOK' /\ WorkersOK'
  <2>1. doc[p].rev \in Nat
    BY <1>3, DocType DEF Authorize, Document
  <2> QED
    BY <1>3, <2>1 DEF Authorize, RestOK, JobsOK, WorkersOK, Retriable, uploadVars, jobVars
<1>4. ASSUME Withdraw(p) PROVE RestOK' /\ JobsOK' /\ WorkersOK'
  BY <1>4 DEF Withdraw, RestOK, JobsOK, WorkersOK, Retriable, uploadVars, jobVars
<1>5. ASSUME PurgeClaim(p) PROVE RestOK' /\ JobsOK' /\ WorkersOK'
  <2>1. JobsOK'
    BY <1>5, NewJobStep DEF PurgeClaim, Path
  <2> QED
    BY <1>5, <2>1 DEF PurgeClaim, RestOK, WorkersOK, uploadVars
<1> QED
  BY <1>1, <1>2, <1>3, <1>4, <1>5 DEF VaultStep

\* The steps of a cleanup run.
LEMMA CleanupType ==
    ASSUME TypeOK, Retriable, NEW w \in Worker, CleanupStep(w)
    PROVE  RestOK' /\ JobsOK' /\ WorkersOK'
<1> USE TypeParts
<1>1. ASSUME NEW p \in Upload, ClaimDeletion(w, p) \/ ClaimAlert(w, p)
      PROVE  RestOK' /\ JobsOK' /\ WorkersOK'
  <2>1. PICK j : Marked(p, j)
    BY <1>1, ClaimMarks DEF ClaimDeletion, ClaimAlert, JobsOK
  <2>2. JobsOK'
    BY <2>1, MarkStep
  <2>3. \A f \in {"claimed", "alerting"} : Take(w, f, p) \in Holding
    BY DEF Take, Holding, JobsOK, Job
  <2>4. WorkersOK'
    BY <1>1, <2>3 DEF ClaimDeletion, ClaimAlert, WorkersOK
  <2> QED
    BY <1>1, <2>2, <2>4 DEF ClaimDeletion, ClaimAlert, RestOK, uploadVars, docVars
<1>2. ASSUME NEW reason \in TerminalReason \cup {None}, worker[w] # Idle, RecordFailure(w, reason),
             late' \in SUBSET Path
      PROVE  RestOK' /\ JobsOK' /\ WorkersOK'
  <2>1. JobsOK' /\ WorkersOK' /\ announced' \in SUBSET Upload
    BY <1>2, FailureStep DEF WorkersOK
  <2> QED
    BY <1>2, <2>1 DEF RecordFailure, RestOK, uploadVars, docVars
<1>3. ASSUME NEW f \in {"claimed", "checked", "erased", "alerting", "delivered"},
             worker[w] # Idle, Advances(w, f), job' = job
      PROVE  JobsOK' /\ WorkersOK'
  BY <1>3, AdvanceType DEF JobsOK, Retriable, WorkersOK
<1>4. ASSUME CheckTarget(w) PROVE RestOK' /\ JobsOK' /\ WorkersOK'
  <2>1. worker[w] # Idle
    BY <1>4, WorkerType DEF CheckTarget, In
  <2>2. CASE Referenced(worker[w].path)
    BY <1>2, <1>4, <2>1, <2>2 DEF CheckTarget, RestOK
  <2>3. CASE ~Referenced(worker[w].path)
    BY <1>3, <1>4, <2>1, <2>3 DEF CheckTarget, RestOK, uploadVars, docVars
  <2> QED
    BY <2>2, <2>3
<1>5. ASSUME NoEraser(w) \/ PathRejected(w) \/ EraseFails(w)
      PROVE  RestOK' /\ JobsOK' /\ WorkersOK'
  <2>1. worker[w] # Idle /\ worker[w].path \in Path
    BY <1>5, WorkerType DEF NoEraser, PathRejected, EraseFails, In
  <2>2. late' \in SUBSET Path
    BY <1>5, <2>1 DEF NoEraser, PathRejected, EraseFails, RestOK
  <2> QED
    BY <1>2, <1>5, <2>1, <2>2 DEF NoEraser, PathRejected, EraseFails, TerminalReason
<1>6. ASSUME Erase(w) \/ DeliverAlert(w) PROVE RestOK' /\ JobsOK' /\ WorkersOK'
  <2>1. worker[w] # Idle /\ worker[w].job \in Upload
    BY <1>6, WorkerType DEF Erase, DeliverAlert, In
  <2>2. JobsOK' /\ WorkersOK'
    BY <1>3, <1>6, <2>1 DEF Erase, DeliverAlert
  <2> QED
    BY <1>6, <2>1, <2>2 DEF Erase, DeliverAlert, RestOK, uploadVars, docVars
<1>7. ASSUME MarkProcessed(w) \/ MarkAlertSent(w) \/ ReleaseAlert(w) \/ Crash(w)
      PROVE  RestOK' /\ WorkersOK'
  <2>1. worker[w] # Idle => worker[w].path \in Path
    BY WorkerType
  <2>2. worker[w] # Idle
    BY <1>7, WorkerType DEF MarkProcessed, MarkAlertSent, ReleaseAlert, Crash, In
  <2> QED
    BY <1>7, <2>1, <2>2 DEF MarkProcessed, MarkAlertSent, ReleaseAlert, Crash, BecomesIdle,
       RestOK, WorkersOK, uploadVars, docVars
<1>8. ASSUME MarkProcessed(w) \/ MarkAlertSent(w) \/ ReleaseAlert(w) \/ Crash(w)
      PROVE  JobsOK'
  <2>1. worker[w].job \in Upload
    BY <1>8, WorkerType DEF MarkProcessed, MarkAlertSent, ReleaseAlert, Crash, In
  <2>2. CASE job' = job
    BY <2>2 DEF JobsOK, Retriable
  <2>3. CASE job' = [job EXCEPT ![worker[w].job] = Processed(@)]
    BY <2>1, <2>3, ProcessedStep
  <2>4. CASE \E j : Marked(worker[w].job, j)
    BY <2>1, <2>4, MarkStep
  <2>5. CASE \/ job' = [job EXCEPT ![worker[w].job] = [@ EXCEPT
                          !.alerted = TRUE, !.alert = None, !.alertStale = FALSE]]
             \/ job' = [job EXCEPT ![worker[w].job] = [@ EXCEPT !.alert = None, !.alertStale = FALSE]]
    BY <2>1, <2>4, <2>5, OtherMarks DEF JobsOK
  <2> QED
    BY <1>8, <2>2, <2>3, <2>5 DEF MarkProcessed, MarkAlertSent, ReleaseAlert, Crash
<1> QED
  BY <1>1, <1>4, <1>5, <1>6, <1>7, <1>8 DEF CleanupStep

\* The steps of an operator, of time and of the provider.
LEMMA OtherType ==
    ASSUME TypeOK, Retriable
    PROVE  /\ \A p \in Upload :
                RecoveryStep(p) \/ ClaimGoesStale(p) \/ AlertGoesStale(p)
                => RestOK' /\ JobsOK' /\ WorkersOK'
           /\ \A c \in Path : LateErase(c) => RestOK' /\ JobsOK' /\ WorkersOK'
<1> USE TypeParts
<1>1. ASSUME NEW p \in Upload, RequeueUnchanged(p) PROVE RestOK' /\ JobsOK' /\ WorkersOK'
  <2>1. job[p].path \in Path
    BY DEF JobsOK, Job
  <2>2. JobsOK'
    BY <1>1, <2>1, NewJobStep DEF RequeueUnchanged
  <2> QED
    BY <1>1, <2>2 DEF RequeueUnchanged, RestOK, WorkersOK, uploadVars, docVars
<1>2. ASSUME NEW p \in Upload, NEW c \in Correctable, RequeueCorrectedPath(p, c)
      PROVE  RestOK' /\ JobsOK' /\ WorkersOK'
  <2>1. JobsOK'
    BY <1>2, NewJobStep DEF RequeueCorrectedPath, Path
  <2> QED
    BY <1>2, <2>1 DEF RequeueCorrectedPath, RestOK, WorkersOK, uploadVars, docVars
<1>3. ASSUME NEW p \in Upload, CompleteExternally(p) PROVE RestOK' /\ JobsOK' /\ WorkersOK'
  <2>1. JobsOK'
    BY <1>3, ProcessedStep DEF CompleteExternally
  <2> QED
    BY <1>3, <2>1 DEF CompleteExternally, RestOK, WorkersOK, uploadVars, docVars
<1>4. ASSUME NEW p \in Upload, ClaimGoesStale(p) \/ AlertGoesStale(p)
      PROVE  RestOK' /\ JobsOK' /\ WorkersOK'
  <2>1. PICK j : Marked(p, j)
    BY <1>4, OtherMarks DEF ClaimGoesStale, AlertGoesStale, JobsOK
  <2>2. JobsOK'
    BY <2>1, MarkStep
  <2> QED
    BY <1>4, <2>2 DEF ClaimGoesStale, AlertGoesStale, RestOK, WorkersOK, uploadVars, docVars
<1>5. ASSUME NEW c \in Path, LateErase(c) PROVE RestOK' /\ JobsOK' /\ WorkersOK'
  BY <1>5 DEF LateErase, RestOK, JobsOK, WorkersOK, Retriable, uploadVars, docVars, jobVars
<1> QED
  BY <1>1, <1>2, <1>3, <1>4, <1>5 DEF RecoveryStep

\* Every step keeps the types.
LEMMA TypeNext == TypeOK /\ Retriable /\ [Next]_vars => TypeOK' /\ Retriable'
<1> SUFFICES ASSUME TypeOK, Retriable, [Next]_vars PROVE RestOK' /\ JobsOK' /\ WorkersOK'
  BY DEF TypeOK, RestOK, JobsOK, WorkersOK, Retriable
<1>1. CASE UNCHANGED vars
  BY <1>1, TypeParts DEF vars, RestOK, JobsOK, WorkersOK, Retriable
<1>2. CASE Next
  BY <1>2, UploadType, VaultType, CleanupType, OtherType DEF Next
<1> QED
  BY <1>1, <1>2

\* Every reachable state is well-typed, and a job to be worked has an attempt left.
THEOREM TypeCorrect == Spec => [](TypeOK /\ Retriable)
BY TypeInit, TypeNext, PTL DEF Spec

-----------------------------------------------------------------------------
(* Custody of the bytes *)

\* Before the first upload there is nothing to keep.
LEMMA CustodyInit == Init => Custody
<1> SUFFICES ASSUME Init PROVE Custody
  OBVIOUS
<1>1. \A p \in Upload : /\ intent[p] = "NONE" /\ request[p] = "idle" /\ p \notin object
                        /\ job[p].state = "NONE" /\ job[p].path = p /\ p \notin aged
                        /\ job[p].claim = None /\ job[p].alert = None
  BY StorageAssumption DEF Init, NoJob
<1>2. \A p \in Upload : ~Present(p)
  BY DEF Init, Present, NoDocument
<1>3. \A w \in Worker : worker[w] = Idle
  BY DEF Init
<1>4. RowCustody
  BY <1>1, <1>2 DEF RowCustody, WritesAreFresh, JobsAreDue, JobsKeepTheirPath, BytesKept,
     NoOrphanForgotten
<1> QED
  BY <1>3, <1>4 DEF Custody, RunCustody, HoldsDueJob, ErasedIsGone, LateIsDue, In, Cleaning,
     Idle, Init

\* A run that stands still keeps its custody while jobs come and never go, bytes
\* do not return to a path with a job, and no job changes under its claim.
LEMMA StandingRun ==
    ASSUME TypeOK, Custody, NEW v \in Worker, worker'[v] = worker[v],
           \A q \in Upload : job[q].state # "NONE" =>
             /\ job'[q].state # "NONE"
             /\ q \in object' => q \in object
             /\ job'[q].state = "PENDING" /\ job'[q].claim = v =>
                  /\ job[q].state = "PENDING" /\ job[q].claim = v
                  /\ job'[q].path = job[q].path
    PROVE  RunCustody(v)'
<1>1. CASE worker[v] = Idle
  BY <1>1 DEF RunCustody, HoldsDueJob, ErasedIsGone, In, Cleaning, Idle
<1>2. CASE worker[v] # Idle
  <2>1. /\ worker[v].job \in Upload /\ job[worker[v].job].state # "NONE"
        /\ worker[v].path \in {worker[v].job} \cup Correctable
    BY <1>2, WorkerType DEF Custody, RunCustody, HoldsDueJob
  <2>2. HoldsDueJob(v)'
    BY <2>1 DEF HoldsDueJob
  <2>3. worker[v].path \in Upload => worker[v].path = worker[v].job
    BY <2>1, StorageAssumption
  <2>4. ErasedIsGone(v)'
    BY <2>1, <2>3 DEF Custody, RunCustody, ErasedIsGone, In, Cleaning, StillClaimed, Own
  <2> QED
    BY <2>2, <2>4 DEF RunCustody
<1> QED
  BY <1>1, <1>2

\* A run that becomes idle has nothing to answer for.
LEMMA IdleRun ==
    ASSUME NEW v \in Worker, worker'[v] = Idle
    PROVE  RunCustody(v)'
BY DEF RunCustody, HoldsDueJob, ErasedIsGone, In, Cleaning, Idle

\* Rows keep their custody when bytes go that had a job.
LEMMA BytesGo ==
    ASSUME TypeOK, Custody, UNCHANGED <<uploadVars, docVars, job>>,
           object' \subseteq object,
           \A q \in Upload : q \in object \ object' => job[q].state # "NONE"
    PROVE  RowCustody'
BY DEF Custody, RowCustody, WritesAreFresh, JobsAreDue, JobsKeepTheirPath, BytesKept,
   NoOrphanForgotten, Present, uploadVars, docVars

\* And when an existing job changes, unless it forgets its bytes.
LEMMA JobGoesOn ==
    ASSUME TypeOK, Custody, UNCHANGED <<uploadVars, docVars>>, object' \subseteq object,
           \A q \in Upload : q \in object \ object' => job[q].state # "NONE",
           NEW p \in Upload, NEW j, job' = [job EXCEPT ![p] = j],
           job[p].state # "NONE", j.state \in {"PENDING", "DEAD_LETTER", "PROCESSED"},
           j.path \in {p} \cup Correctable,
           j.state = "PROCESSED" => j.path # p \/ p \notin object'
    PROVE  RowCustody'
<1>1. job'[p] = j /\ \A q \in Upload \ {p} : job'[q] = job[q]
  BY DEF TypeOK
<1>2. intent[p] \notin {"NONE", "RESERVED"} /\ ~Present(p)
  BY DEF Custody, RowCustody, JobsAreDue
<1> QED
  BY <1>1, <1>2 DEF Custody, RowCustody, WritesAreFresh, JobsAreDue, JobsKeepTheirPath, BytesKept,
   NoOrphanForgotten, Present, uploadVars, docVars

\* An upload up to its record: bytes only arrive at a path without a job.
LEMMA UploadCustody ==
    ASSUME TypeOK, Custody, NEW p \in Upload, UploadStep(p), ~Reconcile(p)
    PROVE  Custody'
<1>1. job' = job /\ worker' = worker /\ late' = late
  BY DEF UploadStep, Reserve, WriteObject, WriteFails, WriteLandsLate,
     CreateDocument, CreateFails, Age, jobVars
<1>2. LateIsDue'
  BY <1>1 DEF Custody, LateIsDue
<1>3. object' = object \/ (object' = object \cup {p} /\ job[p].state = "NONE")
  BY DEF UploadStep, Reserve, WriteObject, WriteFails, WriteLandsLate, CreateDocument, CreateFails,
     Age, Custody, RowCustody, WritesAreFresh, JobsAreDue
<1>4. \A w \in Worker : RunCustody(w)'
  BY <1>1, <1>3, StandingRun
<1>5. ASSUME CreateDocument(p), intent[p] = "RESERVED" PROVE RowCustody'
  <2>1. doc'[p].present = TRUE
    BY <1>5 DEF CreateDocument, TypeOK
  <2>2. Present(p)'
    BY <2>1, Zenon DEF Present
  <2>3. \A q \in Upload \ {p} : doc'[q] = doc[q]
    BY <1>5 DEF CreateDocument, TypeOK
  <2>4. /\ intent'[p] = "ATTACHED" /\ request'[p] = "idle"
        /\ \A q \in Upload \ {p} : intent'[q] = intent[q] /\ request'[q] = request[q]
        /\ aged' = aged \ {p} /\ object' = object
    BY <1>5 DEF CreateDocument, TypeOK
  <2>5. p \in object /\ job[p].state = "NONE"
    BY <1>5 DEF CreateDocument, Custody, RowCustody, BytesKept, JobsAreDue
  <2> QED
    BY <1>1, <2>2, <2>3, <2>4, <2>5
       DEF Custody, RowCustody, WritesAreFresh, JobsAreDue, JobsKeepTheirPath, BytesKept,
           NoOrphanForgotten, Present
<1>6. ASSUME doc' = doc, \/ Reserve(p) \/ WriteObject(p) \/ WriteFails(p) \/ WriteLandsLate(p)
                         \/ CreateFails(p) \/ Age(p) \/ (CreateDocument(p) /\ intent[p] # "RESERVED")
      PROVE  RowCustody'
  <2>1. /\ \A q \in Upload : /\ Present(q)' <=> Present(q)
                             /\ q # p => /\ intent'[q] = intent[q] /\ request'[q] = request[q]
                                         /\ q \in aged' <=> q \in aged
                                         /\ q \in object' <=> q \in object
    BY <1>6 DEF Reserve, WriteObject, WriteFails, WriteLandsLate, CreateFails, Age, CreateDocument,
       TypeOK, Present
  <2>2. /\ request'[p] \in {"writing", "unsure"} => intent'[p] = "RESERVED" /\ p \notin aged'
        /\ intent'[p] = intent[p] \/ (intent[p] = "NONE" /\ intent'[p] = "RESERVED")
        /\ request'[p] = "written" /\ intent'[p] = "RESERVED" => p \in object'
        /\ p \in object => p \in object'
        /\ p \in object' => p \in object \/ intent'[p] = "RESERVED"
        /\ p \in aged' => intent'[p] = "RESERVED"
    <3>1. /\ request[p] \in {"writing", "unsure"} => intent[p] = "RESERVED" /\ p \notin aged
          /\ request[p] = "written" /\ intent[p] = "RESERVED" => p \in object
          /\ p \in aged => intent[p] = "RESERVED"
      BY DEF Custody, RowCustody, WritesAreFresh, BytesKept
    <3>2. CASE Reserve(p)
      BY <3>1, <3>2 DEF Reserve, TypeOK, Custody, RowCustody, WritesAreFresh
    <3>3. CASE WriteObject(p) \/ WriteFails(p) \/ WriteLandsLate(p)
      BY <3>1, <3>3 DEF WriteObject, WriteFails, WriteLandsLate, TypeOK
    <3>4. CASE CreateFails(p) \/ Age(p)
      BY <3>1, <3>4 DEF CreateFails, Age, TypeOK
    <3>5. CASE CreateDocument(p) /\ intent[p] # "RESERVED"
      BY <3>1, <3>5 DEF CreateDocument, TypeOK
    <3> QED
      BY <1>6, <3>2, <3>3, <3>4, <3>5
  <2> QED
    BY <1>1, <2>1, <2>2
       DEF Custody, RowCustody, WritesAreFresh, JobsAreDue, JobsKeepTheirPath, BytesKept,
           NoOrphanForgotten
<1>7. RowCustody'
  BY <1>5, <1>6 DEF UploadStep, Reserve, WriteObject, WriteFails, WriteLandsLate, CreateFails, Age,
     CreateDocument, docVars
<1> QED
  BY <1>2, <1>4, <1>7 DEF Custody

\* A path without a document gets its one job.
LEMMA FirstJob ==
    ASSUME TypeOK, Custody, NEW p \in Upload, job[p].state = "NONE",
           job' = [job EXCEPT ![p] = NewJob(p)],
           UNCHANGED <<request, object, late, worker>>,
           request[p] \notin {"writing", "unsure"}, aged' = aged \ {p},
           ~Present(p)', intent'[p] \in {"CLEANUP_PENDING", "ATTACHED"},
           \A q \in Upload \ {p} : doc'[q] = doc[q] /\ intent'[q] = intent[q]
    PROVE  Custody'
<1>1. /\ job'[p].state = "PENDING" /\ job'[p].path = p /\ job'[p].claim = None
      /\ \A q \in Upload \ {p} : job'[q] = job[q]
  BY DEF NewJob, NoJob, TypeOK
<1>2. \A w \in Worker : RunCustody(w)'
  BY <1>1, StandingRun
<1>3. LateIsDue'
  BY <1>1 DEF Custody, LateIsDue
<1>4. \A q \in Upload \ {p} : Present(q)' <=> Present(q)
  BY DEF Present
<1>5. RowCustody'
  BY <1>1, <1>4 DEF Custody, RowCustody, WritesAreFresh, JobsAreDue, JobsKeepTheirPath, BytesKept,
     NoOrphanForgotten
<1> QED
  BY <1>2, <1>3, <1>5 DEF Custody

\* Reconciliation settles a reservation that got no document.
LEMMA ReconcileCustody ==
    ASSUME TypeOK, Custody, NEW p \in Upload, Reconcile(p)
    PROVE  Custody'
<1>1. ~Present(p) /\ job[p].state = "NONE" /\ request[p] \notin {"writing", "unsure"}
  BY DEF Reconcile, Custody, RowCustody, JobsAreDue, WritesAreFresh
<1>2. doc' = doc
  BY DEF Reconcile, docVars
<1>3. ~Present(p)'
  BY <1>1, <1>2 DEF Present
<1> QED
  BY <1>1, <1>2, <1>3, FirstJob DEF Reconcile, TypeOK

\* The vault: the record changes, or goes with its job coming.
LEMMA VaultCustody ==
    ASSUME TypeOK, Custody, NEW p \in Upload, VaultStep(p)
    PROVE  Custody'
<1>1. ASSUME \A q \in Upload : Present(q)' <=> Present(q),
             UNCHANGED <<uploadVars, object, late, jobVars>>
      PROVE  Custody'
  <2>1. \A w \in Worker : RunCustody(w)'
    BY <1>1, StandingRun DEF jobVars
  <2>2. LateIsDue'
    BY <1>1 DEF Custody, LateIsDue, jobVars
  <2>3. RowCustody'
    BY <1>1 DEF Custody, RowCustody, WritesAreFresh, JobsAreDue, JobsKeepTheirPath, BytesKept,
       NoOrphanForgotten, jobVars, uploadVars
  <2> QED
    BY <2>1, <2>2, <2>3 DEF Custody
<1>2. ASSUME NEW d \in Document, Present(p), doc' = [doc EXCEPT ![p] = d]
      PROVE  \A q \in Upload : Present(q)' <=> Present(q)
  <2>1. d.present = TRUE /\ doc'[p] = d /\ \A q \in Upload \ {p} : doc'[q] = doc[q]
    BY <1>2 DEF Document, TypeOK
  <2> QED
    BY <1>2, <2>1, Zenon DEF Present
<1>3. CASE Remove(p) \/ Restore(p) \/ SetDeletionHold(p)
  BY <1>1, <1>2, <1>3, ReviseType
<1>4. CASE Elapse(p)
  <2>1. Present(p) /\ doc[p] \in Document
    BY <1>4, DocType DEF Elapse
  <2>2. [doc[p] EXCEPT !.elapsed = TRUE] \in Document
    BY <2>1 DEF Document
  <2>3. doc' = [doc EXCEPT ![p] = [doc[p] EXCEPT !.elapsed = TRUE]]
    BY <1>4 DEF Elapse
  <2> QED
    BY <1>1, <1>2, <1>4, <2>1, <2>2, <2>3 DEF Elapse
<1>5. CASE Authorize(p) \/ Withdraw(p)
  BY <1>1, <1>5 DEF Authorize, Withdraw, Present
<1>6. CASE PurgeClaim(p)
  <2>1. Present(p) /\ intent[p] = "ATTACHED" /\ job[p].state = "NONE" /\ p \notin aged
        /\ request[p] \notin {"writing", "unsure"}
    BY <1>6 DEF PurgeClaim, Custody, RowCustody, JobsAreDue, WritesAreFresh
  <2>2. doc'[p].present = FALSE
    BY <1>6 DEF PurgeClaim, NoDocument, TypeOK
  <2>3. ~Present(p)'
    BY <2>2, Zenon DEF Present
  <2>4. \A q \in Upload \ {p} : doc'[q] = doc[q]
    BY <1>6 DEF PurgeClaim, TypeOK
  <2> QED
    BY <1>6, <2>1, <2>3, <2>4, FirstJob DEF PurgeClaim, uploadVars
<1> QED
  BY <1>3, <1>4, <1>5, <1>6 DEF VaultStep

\* What a run's hold on its job says about that job.
LEMMA HeldJob ==
    ASSUME TypeOK, Custody, NEW w \in Worker, ~In(w, "idle")
    PROVE  /\ worker[w] # Idle /\ worker[w].job \in Upload /\ Own(w) \in Job
           /\ worker[w].path \in {worker[w].job} \cup Correctable
           /\ worker[w].path \in Upload => worker[w].path = worker[w].job
           /\ Own(w).state # "NONE" /\ Own(w).path \in {worker[w].job} \cup Correctable
<1>1. worker[w] # Idle /\ worker[w].job \in Upload /\ Own(w) \in Job
  BY WorkerType
<1>2. /\ worker[w].path \in {worker[w].job} \cup Correctable
      /\ Own(w).state # "NONE"
  BY <1>1 DEF Custody, RunCustody, HoldsDueJob, Own
<1>3. Own(w).path \in {worker[w].job} \cup Correctable
  BY <1>1 DEF Custody, RowCustody, JobsKeepTheirPath, Own
<1> QED
  BY <1>1, <1>2, <1>3, StorageAssumption

\* A failure goes to the run's own job, or nowhere.
LEMMA FailureCustody ==
    ASSUME TypeOK, Retriable, Custody, NEW w \in Worker, ~In(w, "idle"),
           NEW reason \in TerminalReason \cup {None}, RecordFailure(w, reason),
           late' \subseteq late \cup {worker[w].path}
    PROVE  Custody'
<1> DEFINE p == worker[w].job
<1>1. p \in Upload /\ job[p] \in Job /\ job[p].state # "NONE" /\ job[p].path \in {p} \cup Correctable
      /\ (worker[w].path \in Upload => worker[w].path = p)
  BY HeldJob DEF Own
<1>2. PICK j : /\ job' = [job EXCEPT ![p] = j]
               /\ j = job[p] \/ /\ j.state \in {"PENDING", "DEAD_LETTER"}
                                /\ j.path = job[p].path /\ j.claim = None
  <2>1. CASE StillClaimed(w)
    <3>1. job[p].attempts < MaxAttempts
      BY <1>1, <2>1 DEF StillClaimed, Own, Retriable
    <3>2. /\ Failed(job[p], reason).state \in {"PENDING", "DEAD_LETTER"}
          /\ Failed(job[p], reason).path = job[p].path /\ Failed(job[p], reason).claim = None
      BY <1>1, <3>1, FailedType
    <3> QED
      BY <2>1, <3>2 DEF RecordFailure
  <2>2. CASE ~StillClaimed(w)
    BY <1>1, <2>2 DEF RecordFailure, TypeOK
  <2> QED
    BY <2>1, <2>2
<1>3. /\ worker'[w] = Idle /\ \A v \in Worker \ {w} : worker'[v] = worker[v]
      /\ UNCHANGED <<uploadVars, docVars, object>>
  BY DEF RecordFailure, BecomesIdle, TypeOK
<1> HIDE DEF p
<1>4. job'[p] = j /\ j.state # "NONE" /\ \A q \in Upload \ {p} : job'[q] = job[q]
  BY <1>1, <1>2 DEF TypeOK
<1>5. /\ j.state \in {"PENDING", "DEAD_LETTER", "PROCESSED"} /\ j.path \in {p} \cup Correctable
      /\ j.state = "PROCESSED" => j.path # p \/ p \notin object
  <2>1. job[p].state = "PROCESSED" => job[p].path # p \/ p \notin object
    BY <1>1 DEF Custody, RowCustody, NoOrphanForgotten, JobsAreDue
  <2> QED
    BY <1>1, <1>2, <2>1 DEF Job
<1>6. RowCustody'
  BY <1>1, <1>2, <1>3, <1>5, JobGoesOn
<1>7. \A v \in Worker : RunCustody(v)'
  BY <1>1, <1>2, <1>3, <1>4, StandingRun, IdleRun, StorageAssumption
<1>8. LateIsDue'
  BY <1>1, <1>4 DEF Custody, LateIsDue
<1> QED
  BY <1>6, <1>7, <1>8 DEF Custody

\* Claims and alerts: the job is marked, nothing else of it changes.
LEMMA MarkCustody ==
    ASSUME TypeOK, Custody, NEW p \in Upload, NEW j, Marked(p, j), job[p].state # "NONE",
           UNCHANGED <<uploadVars, docVars, object, late>>,
           \A v \in Worker : \/ worker'[v] = Idle
                             \/ worker'[v] = worker[v] /\ (j.claim = job[p].claim \/ j.claim # v)
                             \/ /\ worker'[v] \in Holding
                                /\ worker'[v].phase # "erased"
                                /\ worker'[v].job = p /\ worker'[v].path = job[p].path
    PROVE  Custody'
<1>1. /\ job' = [job EXCEPT ![p] = j] /\ job'[p] = j /\ job[p] \in Job
      /\ j.state = job[p].state /\ j.path = job[p].path
      /\ \A q \in Upload \ {p} : job'[q] = job[q]
  BY DEF Marked, TypeOK
<1>2. job[p].path \in {p} \cup Correctable
  BY DEF Custody, RowCustody, JobsKeepTheirPath
<1>3. job[p].state = "PROCESSED" => job[p].path # p \/ p \notin object
  BY DEF Custody, RowCustody, NoOrphanForgotten, JobsAreDue
<1>4. RowCustody'
  BY <1>1, <1>2, <1>3, JobGoesOn DEF Job
<1>5. LateIsDue'
  BY <1>1 DEF Custody, LateIsDue
<1>6. ASSUME NEW v \in Worker PROVE RunCustody(v)'
  <2>1. CASE worker'[v] = Idle
    BY <2>1, IdleRun
  <2>2. CASE worker'[v] = worker[v] /\ (j.claim = job[p].claim \/ j.claim # v)
    BY <1>1, <2>2, StandingRun
  <2>3. CASE /\ worker'[v] \in Holding /\ worker'[v].phase # "erased"
             /\ worker'[v].job = p /\ worker'[v].path = job[p].path
    BY <1>1, <1>2, <2>3 DEF RunCustody, HoldsDueJob, ErasedIsGone, In, StillClaimed, Own
  <2> QED
    BY <1>6, <2>1, <2>2, <2>3
<1> QED
  BY <1>4, <1>5, <1>6 DEF Custody

\* The steps of a cleanup run.
LEMMA CleanupCustody ==
    ASSUME TypeOK, Retriable, Custody, NEW w \in Worker, CleanupStep(w)
    PROVE  Custody'
<1>1. ASSUME NEW p \in Upload, ClaimDeletion(w, p) \/ ClaimAlert(w, p) PROVE Custody'
  <2>1. PICK j : Marked(p, j) /\ (j.claim = job[p].claim \/ j.claim = w)
    <3>1. job \in [Upload -> Job]
      BY DEF TypeOK
    <3>2. CASE ClaimDeletion(w, p)
      <4>1. job' = [job EXCEPT ![p].claim = w, ![p].stale = FALSE]
        BY <3>2 DEF ClaimDeletion
      <4>2. PICK j : Marked(p, j) /\ j.claim = w /\ j.alert = job[p].alert
                                  /\ j.alerted = job[p].alerted
        BY <3>1, <4>1, ClaimMarks, Zenon
      <4> QED
        BY <4>2
    <3>3. CASE ClaimAlert(w, p)
      BY <3>1, <3>3, ClaimMarks DEF ClaimAlert
    <3> QED
      BY <1>1, <3>2, <3>3
  <2>2. PICK f \in {"claimed", "alerting"} : worker' = [worker EXCEPT ![w] = Take(w, f, p)]
    BY <1>1 DEF ClaimDeletion, ClaimAlert
  <2>3. job[p].path \in Path
    BY DEF TypeOK, Job
  <2>4. /\ worker'[w] \in Holding /\ worker'[w].phase # "erased"
        /\ worker'[w].job = p /\ worker'[w].path = job[p].path
        /\ \A v \in Worker \ {w} : worker'[v] = worker[v]
    BY <2>2, <2>3 DEF Take, Holding, TypeOK
  <2>5. job[p].state # "NONE" /\ UNCHANGED <<uploadVars, docVars, object, late>>
    BY <1>1 DEF ClaimDeletion, ClaimAlert
  <2> QED
    BY <2>1, <2>4, <2>5, MarkCustody
<1>2. ASSUME NoEraser(w) \/ PathRejected(w) \/ EraseFails(w) PROVE Custody'
  BY <1>2, FailureCustody DEF NoEraser, PathRejected, EraseFails, In, TerminalReason
<1>3. ASSUME NEW f \in {"checked", "delivered"}, ~In(w, "idle"), In(w, "claimed") \/ f = "delivered",
             Advances(w, f), UNCHANGED <<uploadVars, docVars, object, late, job>>
      PROVE  Custody'
  <2>1. worker[w] \in Holding /\ worker[w] # Idle
    BY <1>3, WorkerType
  <2>2. /\ worker'[w].phase = f /\ worker'[w].job = worker[w].job /\ worker'[w].path = worker[w].path
        /\ \A v \in Worker \ {w} : worker'[v] = worker[v]
    BY <1>3, <2>1 DEF Advances, Holding, TypeOK
  <2>3. RunCustody(w)'
    BY <1>3, <2>1, <2>2
       DEF Custody, RunCustody, HoldsDueJob, ErasedIsGone, In, Cleaning, StillClaimed, Own
  <2>4. \A v \in Worker \ {w} : RunCustody(v)'
    BY <1>3, <2>2, StandingRun
  <2>5. RowCustody' /\ LateIsDue'
    BY <1>3, BytesGo DEF Custody, LateIsDue
  <2> QED
    BY <2>3, <2>4, <2>5 DEF Custody
<1>4. ASSUME CheckTarget(w) PROVE Custody'
  <2>1. CASE Referenced(worker[w].path)
    BY <1>4, <2>1, FailureCustody DEF CheckTarget, In
  <2>2. CASE ~Referenced(worker[w].path)
    BY <1>3, <1>4, <2>2 DEF CheckTarget, In
  <2> QED
    BY <2>1, <2>2
<1>5. ASSUME DeliverAlert(w) PROVE Custody'
  BY <1>3, <1>5 DEF DeliverAlert, In
<1>6. ASSUME Erase(w) PROVE Custody'
  <2>1. ~In(w, "idle") /\ worker[w] \in Holding
    BY <1>6, WorkerType DEF Erase, In
  <2>2. /\ worker'[w].phase = "erased" /\ worker'[w].job = worker[w].job
        /\ worker'[w].path = worker[w].path
        /\ \A v \in Worker \ {w} : worker'[v] = worker[v]
    BY <1>6, <2>1 DEF Erase, Advances, Holding, TypeOK
  <2>3. /\ object' = object \ {worker[w].path}
        /\ UNCHANGED <<uploadVars, docVars, late, job>>
    BY <1>6 DEF Erase
  <2>4. RunCustody(w)'
    BY <1>6, <2>1, <2>2, <2>3, HeldJob
       DEF Erase, Custody, RunCustody, HoldsDueJob, ErasedIsGone, In, Cleaning, StillClaimed, Own
  <2>5. \A v \in Worker \ {w} : RunCustody(v)'
    BY <2>2, <2>3, StandingRun
  <2>6. RowCustody'
    BY <2>1, <2>3, HeldJob, BytesGo DEF Own
  <2>7. LateIsDue'
    BY <2>3 DEF Custody, LateIsDue
  <2> QED
    BY <2>4, <2>5, <2>6, <2>7 DEF Custody
<1>7. ASSUME Crash(w) PROVE Custody'
  <2>1. /\ worker'[w] = Idle /\ \A v \in Worker \ {w} : worker'[v] = worker[v]
        /\ ~In(w, "idle") /\ late' \subseteq late \cup {worker[w].path}
        /\ UNCHANGED <<uploadVars, docVars, object, job>>
    BY <1>7 DEF Crash, BecomesIdle, TypeOK
  <2>2. LateIsDue'
    BY <2>1, HeldJob DEF Custody, LateIsDue, Own
  <2>3. \A v \in Worker : RunCustody(v)'
    BY <2>1, StandingRun, IdleRun
  <2>4. RowCustody'
    BY <2>1, BytesGo
  <2> QED
    BY <2>2, <2>3, <2>4 DEF Custody
<1>8. ASSUME MarkAlertSent(w) \/ ReleaseAlert(w) PROVE Custody'
  <2>1. /\ worker'[w] = Idle /\ \A v \in Worker \ {w} : worker'[v] = worker[v]
        /\ ~In(w, "idle")
        /\ UNCHANGED <<uploadVars, docVars, object, late>>
    BY <1>8 DEF MarkAlertSent, ReleaseAlert, BecomesIdle, TypeOK, In
  <2>2. worker[w].job \in Upload /\ job[worker[w].job].state # "NONE"
    BY <2>1, HeldJob DEF Own
  <2>3. CASE job' = job
    <3>1. RowCustody' /\ LateIsDue'
      BY <2>1, <2>3, BytesGo DEF Custody, LateIsDue
    <3>2. \A v \in Worker : RunCustody(v)'
      BY <2>1, <2>3, StandingRun, IdleRun
    <3> QED
      BY <3>1, <3>2 DEF Custody
  <2>4. CASE job' # job
    <3>1. PICK j : Marked(worker[w].job, j) /\ j.claim = job[worker[w].job].claim
      BY <1>8, <2>2, <2>4, OtherMarks DEF MarkAlertSent, ReleaseAlert, TypeOK
    <3> QED
      BY <2>1, <2>2, <3>1, MarkCustody
  <2> QED
    BY <2>3, <2>4
<1>9. ASSUME MarkProcessed(w) PROVE Custody'
  <2> DEFINE p == worker[w].job
  <2>1. /\ worker'[w] = Idle /\ \A v \in Worker \ {w} : worker'[v] = worker[v]
        /\ In(w, "erased") /\ ~In(w, "idle")
        /\ UNCHANGED <<uploadVars, docVars, object, late>>
    BY <1>9 DEF MarkProcessed, BecomesIdle, TypeOK, In
  <2>2. p \in Upload /\ job[p] \in Job /\ job[p].state # "NONE" /\ job[p].path \in {p} \cup Correctable
    BY <2>1, HeldJob DEF Own
  <2>3. CASE ~StillClaimed(w)
    <3>0. job' = job
      BY <1>9, <2>3 DEF MarkProcessed
    <3>1. RowCustody' /\ LateIsDue'
      BY <2>1, <3>0, BytesGo DEF Custody, LateIsDue
    <3>2. \A v \in Worker : RunCustody(v)'
      BY <2>1, <3>0, StandingRun, IdleRun
    <3> QED
      BY <3>1, <3>2 DEF Custody
  <2>4. CASE StillClaimed(w)
    <3> DEFINE j == Processed(job[p])
    <3>1. job' = [job EXCEPT ![p] = j]
      BY <1>9, <2>4 DEF MarkProcessed
    <3>2. j.state = "PROCESSED" /\ j.path = job[p].path
      BY DEF Processed, NoJob
    <3>3. worker[w].path = job[p].path /\ (job[p].path \in Upload => job[p].path \notin object)
      BY <2>1, <2>4 DEF Custody, RunCustody, ErasedIsGone, Cleaning, In, Own
    <3> HIDE DEF j, p
    <3>4. job'[p] = j /\ \A q \in Upload \ {p} : job'[q] = job[q]
      BY <2>2, <3>1 DEF TypeOK
    <3>5. RowCustody'
      BY <2>1, <2>2, <3>1, <3>2, <3>3, JobGoesOn
    <3>6. LateIsDue'
      BY <2>1, <3>2, <3>4 DEF Custody, LateIsDue
    <3>7. \A v \in Worker : RunCustody(v)'
      BY <2>1, <3>2, <3>4, StandingRun, IdleRun
    <3> QED
      BY <3>5, <3>6, <3>7 DEF Custody
  <2> QED
    BY <2>3, <2>4
<1> QED
  BY <1>1, <1>2, <1>4, <1>5, <1>6, <1>7, <1>8, <1>9 DEF CleanupStep

\* The steps of an operator, of time and of the provider.
LEMMA OtherCustody ==
    ASSUME TypeOK, Custody
    PROVE  /\ \A p \in Upload :
                RecoveryStep(p) \/ ClaimGoesStale(p) \/ AlertGoesStale(p) => Custody'
           /\ \A c \in Path : LateErase(c) => Custody'
<1>1. ASSUME NEW p \in Upload, ClaimGoesStale(p) \/ AlertGoesStale(p) PROVE Custody'
  <2>0. job[p].state # "NONE"
    BY <1>1 DEF ClaimGoesStale, AlertGoesStale, Custody, RowCustody, JobsKeepTheirPath
  <2>1. PICK j : Marked(p, j) /\ j.claim = job[p].claim
    BY <1>1, OtherMarks DEF ClaimGoesStale, AlertGoesStale, TypeOK
  <2> QED
    BY <1>1, <2>0, <2>1, MarkCustody DEF ClaimGoesStale, AlertGoesStale
<1>2. ASSUME NEW p \in Upload, NEW j, Recoverable(p), job' = [job EXCEPT ![p] = j],
             j.state \in {"PENDING", "PROCESSED"}, j.claim = None, j.path \in {p} \cup Correctable,
             UNCHANGED <<uploadVars, docVars, late, worker>>,
             object' \subseteq object,
             \A q \in Upload : q \in object \ object' => job[q].state # "NONE",
             j.state = "PROCESSED" => j.path \notin object'
      PROVE  Custody'
  <2>1. job'[p] = j /\ \A q \in Upload \ {p} : job'[q] = job[q]
    BY <1>2 DEF TypeOK
  <2>2. job[p].state = "DEAD_LETTER"
    BY <1>2 DEF Recoverable
  <2>3. RowCustody'
    BY <1>2, <2>2, JobGoesOn
  <2>4. LateIsDue'
    BY <1>2, <2>1 DEF Custody, LateIsDue
  <2>5. \A v \in Worker : RunCustody(v)'
    BY <1>2, <2>1, StandingRun, StorageAssumption
  <2> QED
    BY <2>3, <2>4, <2>5 DEF Custody
<1>3. ASSUME NEW p \in Upload PROVE job[p].path \in {p} \cup Correctable
  BY DEF Custody, RowCustody, JobsKeepTheirPath
<1>4. \A c : NewJob(c).state = "PENDING" /\ NewJob(c).claim = None /\ NewJob(c).path = c
  BY DEF NewJob, NoJob
<1>5. ASSUME NEW p \in Upload, RequeueUnchanged(p) PROVE Custody'
  BY <1>2, <1>3, <1>4, <1>5 DEF RequeueUnchanged
<1>6. ASSUME NEW p \in Upload, NEW c \in Correctable, RequeueCorrectedPath(p, c) PROVE Custody'
  BY <1>2, <1>4, <1>6 DEF RequeueCorrectedPath
<1>7. ASSUME NEW p \in Upload, CompleteExternally(p) PROVE Custody'
  <2>1. /\ Processed(job[p]).state = "PROCESSED" /\ Processed(job[p]).claim = None
        /\ Processed(job[p]).path = job[p].path
    BY DEF Processed, NoJob
  <2>2. \A q \in Upload : q \in object \ object' => job[q].state # "NONE"
    BY <1>3, <1>7, StorageAssumption DEF CompleteExternally, Recoverable
  <2> QED
    BY <1>2, <1>3, <1>7, <2>1, <2>2 DEF CompleteExternally
<1>8. ASSUME NEW c \in Path, LateErase(c) PROVE Custody'
  <2>1. /\ object' = object \ {c} /\ late' = late \ {c} /\ worker' = worker
        /\ UNCHANGED <<uploadVars, docVars, job>>
    BY <1>8 DEF LateErase, jobVars
  <2>2. RowCustody'
    BY <1>8, <2>1, BytesGo DEF LateErase, Custody, LateIsDue
  <2>3. \A v \in Worker : RunCustody(v)'
    BY <2>1, StandingRun
  <2>4. LateIsDue'
    BY <2>1 DEF Custody, LateIsDue
  <2> QED
    BY <2>2, <2>3, <2>4 DEF Custody
<1> QED
  BY <1>1, <1>5, <1>6, <1>7, <1>8 DEF RecoveryStep

\* Every step keeps the custody.
LEMMA CustodyNext == TypeOK /\ Retriable /\ Custody /\ [Next]_vars => Custody'
<1> SUFFICES ASSUME TypeOK, Retriable, Custody, [Next]_vars PROVE Custody'
  OBVIOUS
<1>1. CASE UNCHANGED vars
  <2>1. \A w \in Worker : RunCustody(w)'
    BY <1>1, StandingRun DEF vars
  <2>2. RowCustody' /\ LateIsDue'
    BY <1>1, BytesGo DEF vars, uploadVars, docVars, Custody, LateIsDue
  <2> QED
    BY <2>1, <2>2 DEF Custody
<1>2. CASE Next
  BY <1>2, UploadCustody, ReconcileCustody, VaultCustody, CleanupCustody, OtherCustody
     DEF Next, UploadStep
<1> QED
  BY <1>1, <1>2

\* The custody invariant holds in every reachable state.
THEOREM CustodyHolds == Spec => []Custody
BY TypeCorrect, CustodyInit, CustodyNext, PTL DEF Spec

\* A document keeps its bytes, against every run, late erase and reconciliation.
THEOREM DocumentsKeepBytes == Spec => []DocumentKeepsBytes
<1>1. Custody => DocumentKeepsBytes
  BY DEF Custody, RowCustody, BytesKept, DocumentKeepsBytes
<1> QED
  BY <1>1, CustodyHolds, PTL

\* Bytes without a document always have a reservation or a job that will see to them.
THEOREM OrphansRemembered == Spec => []NoOrphanForgotten
<1>1. Custody => NoOrphanForgotten
  BY DEF Custody, RowCustody
<1> QED
  BY <1>1, CustodyHolds, PTL

-----------------------------------------------------------------------------
(* Processed is final *)

\* No step takes a job out of PROCESSED.
LEMMA ProcessedNext ==
    ASSUME TypeOK, Custody, [Next]_vars
    PROVE  \A p \in Upload : job[p].state = "PROCESSED" => job'[p].state = "PROCESSED"
<1> SUFFICES ASSUME NEW p \in Upload, job[p].state = "PROCESSED"
             PROVE  job'[p].state = "PROCESSED"
  OBVIOUS
<1>1. ASSUME NEW q \in Upload, NEW j, job' = [job EXCEPT ![q] = j],
             q = p => j.state = "PROCESSED"
      PROVE  job'[p].state = "PROCESSED"
  BY <1>1 DEF TypeOK
<1>2. ASSUME NEW q \in Upload, NEW j, Marked(q, j) PROVE job'[p].state = "PROCESSED"
  BY <1>1, <1>2 DEF Marked
<1>3. job \in [Upload -> Job]
  BY DEF TypeOK
<1>4. CASE UNCHANGED job
  BY <1>4
<1>5. ASSUME NEW q \in Upload, UploadStep(q) \/ VaultStep(q) PROVE job'[p].state = "PROCESSED"
  <2>1. CASE Reconcile(q) \/ PurgeClaim(q)
    <3>1. job[q].state = "NONE"
      BY <2>1 DEF Reconcile, PurgeClaim, Custody, RowCustody, JobsAreDue
    <3> QED
      BY <1>1, <1>4, <2>1, <3>1 DEF Reconcile, PurgeClaim
  <2>2. CASE UNCHANGED job
    BY <2>2
  <2> QED
    BY <1>5, <2>1, <2>2
       DEF UploadStep, VaultStep, Reserve, WriteObject, WriteFails, WriteLandsLate, CreateFails, Age,
           CreateDocument, Remove, Restore, SetDeletionHold, Revise, Elapse, Authorize, Withdraw,
           jobVars
<1>6. ASSUME NEW q \in Upload, RecoveryStep(q) PROVE job'[p].state = "PROCESSED"
  <2>1. Recoverable(q) /\ \E j : job' = [job EXCEPT ![q] = j]
    BY <1>6 DEF RecoveryStep, RequeueUnchanged, CompleteExternally, RequeueCorrectedPath
  <2> QED
    BY <1>1, <2>1 DEF Recoverable
<1>7. ASSUME NEW q \in Upload, ClaimGoesStale(q) \/ AlertGoesStale(q)
      PROVE  job'[p].state = "PROCESSED"
  BY <1>2, <1>3, <1>7, OtherMarks DEF ClaimGoesStale, AlertGoesStale
<1>8. ASSUME NEW w \in Worker, CleanupStep(w) PROVE job'[p].state = "PROCESSED"
  <2>1. ASSUME NEW q \in Upload, ClaimDeletion(w, q) PROVE job'[p].state = "PROCESSED"
    BY <1>2, <1>3, <2>1, ClaimMarks, Zenon DEF ClaimDeletion
  <2>2. ASSUME NEW q \in Upload, ClaimAlert(w, q) PROVE job'[p].state = "PROCESSED"
    BY <1>2, <1>3, <2>2, ClaimMarks, Zenon DEF ClaimAlert
  <2>3. CASE UNCHANGED job
    BY <2>3
  <2>4. CASE ~In(w, "idle")
    <3>1. worker[w].job \in Upload
      BY <2>4, HeldJob
    <3>2. ASSUME NEW j, job' = [job EXCEPT ![worker[w].job] = j], StillClaimed(w)
          PROVE  job'[p].state = "PROCESSED"
      BY <1>1, <3>1, <3>2 DEF StillClaimed, Own
    <3>3. ASSUME NEW j, job' = [job EXCEPT ![worker[w].job] = j], Alerting(w)
          PROVE  job'[p].state = "PROCESSED"
      BY <1>1, <3>1, <3>3 DEF Alerting, Own
    <3>4. ASSUME NEW reason, RecordFailure(w, reason) PROVE job'[p].state = "PROCESSED"
      BY <2>3, <3>2, <3>4 DEF RecordFailure
    <3> QED
      BY <1>8, <2>1, <2>2, <2>3, <3>2, <3>3, <3>4
         DEF CleanupStep, CheckTarget, Erase, MarkProcessed, NoEraser, PathRejected, EraseFails,
             DeliverAlert, MarkAlertSent, ReleaseAlert, Crash
  <2> QED
    BY <1>8, <2>1, <2>2, <2>4
       DEF CleanupStep, CheckTarget, Erase, MarkProcessed, NoEraser, PathRejected, EraseFails,
           DeliverAlert, MarkAlertSent, ReleaseAlert, Crash, In
<1> QED
  BY <1>4, <1>5, <1>6, <1>7, <1>8 DEF Next, LateErase, jobVars, vars

\* A processed deletion stays processed.
THEOREM ProcessedStays == Spec => ProcessedIsFinal
<1>1. TypeOK /\ Custody /\ [Next]_vars
        => [\A p \in Upload : job[p].state = "PROCESSED" => job'[p].state = "PROCESSED"]_vars
  BY ProcessedNext
<1> QED
  BY <1>1, TypeCorrect, CustodyHolds, PTL DEF Spec, ProcessedIsFinal

-----------------------------------------------------------------------------
(* The owner's review *)

\* Nothing is authorized before there is a document.
LEMMA ReviewInit == Init => Review
BY DEF Init, Review, Present, NoDocument

\* A new revision is one nobody has authorized.
LEMMA ReviewNext == TypeOK /\ Custody /\ Review /\ [Next]_vars => Review'
<1> SUFFICES ASSUME TypeOK, Custody, Review, [Next]_vars PROVE Review'
  OBVIOUS
<1>1. CASE UNCHANGED docVars
  BY <1>1 DEF docVars, Review, Present
<1>2. ASSUME NEW p \in Upload, CreateDocument(p) PROVE Review'
  <2>1. CASE intent[p] # "RESERVED"
    BY <1>1, <1>2, <2>1 DEF CreateDocument, docVars
  <2>2. CASE intent[p] = "RESERVED"
    <3>1. doc'[p].rev = 0 /\ doc'[p].present = TRUE /\ \A q \in Upload \ {p} : doc'[q] = doc[q]
      BY <1>2, <2>2 DEF CreateDocument, TypeOK
    <3>2. Present(p)' /\ granted' = granted /\ reviewed' = reviewed
      BY <1>2, <3>1, Zenon DEF Present, CreateDocument
    <3>3. granted[p] = {}
      BY <2>2 DEF Custody, RowCustody, JobsAreDue, Review
    <3> QED
      BY <3>1, <3>2, <3>3 DEF Review, Present
  <2> QED
    BY <2>1, <2>2
<1>3. ASSUME NEW p \in Upload, NEW d \in Document, Present(p), doc' = [doc EXCEPT ![p] = d]
      PROVE  /\ Present(p)' /\ doc'[p].rev = d.rev
             /\ \A q \in Upload \ {p} : doc'[q] = doc[q]
  <2>1. d.present = TRUE /\ doc'[p] = d /\ \A q \in Upload \ {p} : doc'[q] = doc[q]
    BY <1>3 DEF Document, TypeOK
  <2> QED
    BY <2>1, Zenon DEF Present
<1>4. ASSUME NEW p \in Upload, Present(p) PROVE doc[p] \in Document /\ doc[p].rev \in Nat
  BY <1>4, DocType DEF Document
<1>5. ASSUME NEW p \in Upload, Remove(p) \/ Restore(p) \/ SetDeletionHold(p) PROVE Review'
  <2>1. PICK d \in Document : /\ doc' = [doc EXCEPT ![p] = d] /\ d.rev = doc[p].rev + 1
                              /\ Present(p) /\ reviewed' = reviewed \ {p} /\ granted' = granted
    BY <1>5, ReviseType
  <2>2. /\ Present(p)' /\ doc'[p].rev = doc[p].rev + 1
        /\ \A q \in Upload \ {p} : doc'[q] = doc[q]
    BY <1>3, <2>1
  <2>3. \A r \in granted[p] : r \in Nat /\ r <= doc[p].rev /\ doc[p].rev \in Nat
    BY <1>4, <2>1 DEF Review, TypeOK
  <2> QED
    BY <2>1, <2>2, <2>3 DEF Review, Present
<1>6. ASSUME NEW p \in Upload, Elapse(p) PROVE Review'
  <2>1. Present(p) /\ doc[p] \in Document
    BY <1>4, <1>6 DEF Elapse
  <2>2. /\ [doc[p] EXCEPT !.elapsed = TRUE] \in Document
        /\ [doc[p] EXCEPT !.elapsed = TRUE].rev = doc[p].rev
    BY <2>1 DEF Document
  <2>3. /\ doc' = [doc EXCEPT ![p] = [doc[p] EXCEPT !.elapsed = TRUE]]
        /\ reviewed' = reviewed /\ granted' = granted
    BY <1>6 DEF Elapse
  <2>4. /\ Present(p)' /\ doc'[p].rev = doc[p].rev
        /\ \A q \in Upload \ {p} : doc'[q] = doc[q]
    BY <1>3, <2>1, <2>2, <2>3
  <2> QED
    BY <2>1, <2>3, <2>4 DEF Review, Present
<1>7. ASSUME NEW p \in Upload, Authorize(p) PROVE Review'
  <2>1. doc[p].rev \in Nat /\ doc' = doc /\ Present(p)
    BY <1>4, <1>7 DEF Authorize
  <2> QED
    BY <1>7, <2>1 DEF Authorize, Review, Present, TypeOK
<1>8. ASSUME NEW p \in Upload, Withdraw(p) PROVE Review'
  BY <1>8 DEF Withdraw, Review, Present, TypeOK
<1>9. ASSUME NEW p \in Upload, PurgeClaim(p) PROVE Review'
  <2>1. doc'[p].present = FALSE /\ \A q \in Upload \ {p} : doc'[q] = doc[q]
    BY <1>9 DEF PurgeClaim, NoDocument, TypeOK
  <2>2. ~Present(p)'
    BY <2>1, Zenon DEF Present
  <2>3. /\ granted'[p] = {} /\ reviewed' = reviewed \ {p}
        /\ \A q \in Upload \ {p} : granted'[q] = granted[q]
    BY <1>9 DEF PurgeClaim, TypeOK
  <2> QED
    BY <2>1, <2>2, <2>3 DEF Review, Present
<1>10. CASE UNCHANGED vars
  BY <1>1, <1>10 DEF vars, docVars
<1>11. ASSUME NEW p \in Upload, UploadStep(p) PROVE Review'
  BY <1>1, <1>2, <1>11 DEF UploadStep, Reserve, WriteObject, WriteFails, WriteLandsLate,
     CreateFails, Age, Reconcile
<1>12. ASSUME NEW p \in Upload, RecoveryStep(p) \/ ClaimGoesStale(p) \/ AlertGoesStale(p)
       PROVE  Review'
  BY <1>1, <1>12 DEF RecoveryStep, RequeueUnchanged, CompleteExternally, RequeueCorrectedPath,
     ClaimGoesStale, AlertGoesStale
<1>13. ASSUME NEW w \in Worker, CleanupStep(w) PROVE Review'
  BY <1>1, <1>13 DEF CleanupStep, ClaimDeletion, ClaimAlert, CheckTarget, Erase, MarkProcessed,
     NoEraser, PathRejected, EraseFails, DeliverAlert, MarkAlertSent, ReleaseAlert, Crash,
     RecordFailure
<1>14. ASSUME NEW c \in Path, LateErase(c) PROVE Review'
  BY <1>1, <1>14 DEF LateErase
<1> QED
  BY <1>5, <1>6, <1>7, <1>8, <1>9, <1>10, <1>11, <1>12, <1>13, <1>14 DEF Next, VaultStep

\* A claimable authorization is always of what the owner reviewed.
THEOREM ReviewHolds == Spec => []Review
BY TypeCorrect, CustodyHolds, ReviewInit, ReviewNext, PTL DEF Spec

\* Only a claimed purge takes a document away, and it needs the reviewed revision.
LEMMA PurgeNext ==
    ASSUME TypeOK, Review, [Next]_vars
    PROVE  \A p \in Upload : Present(p) /\ ~Present(p)' => p \in reviewed
<1> SUFFICES ASSUME NEW p \in Upload, Present(p), ~Present(p)' PROVE p \in reviewed
  OBVIOUS
<1>1. doc'[p] # doc[p]
  BY DEF Present
<1>2. ASSUME NEW q \in Upload, NEW d \in Document, doc' = [doc EXCEPT ![q] = d] PROVE FALSE
  <2>1. d.present = TRUE /\ doc'[p] \in {d, doc[p]}
    BY <1>2 DEF Document, TypeOK
  <2> QED
    BY <1>1, <2>1, Zenon DEF Present
<1>3. ASSUME NEW q \in Upload, CreateDocument(q) PROVE FALSE
  <2>1. [present |-> TRUE, removed |-> FALSE, hold |-> FALSE, elapsed |-> FALSE, rev |-> 0]
          \in Document
    BY DEF Document
  <2> QED
    BY <1>1, <1>2, <1>3, <2>1 DEF CreateDocument
<1>4. ASSUME NEW q \in Upload, Remove(q) \/ Restore(q) \/ SetDeletionHold(q) PROVE FALSE
  BY <1>2, <1>4, ReviseType
<1>5. ASSUME NEW q \in Upload, Elapse(q) PROVE FALSE
  <2>1. doc[q] \in Document
    BY <1>5, DocType DEF Elapse
  <2>2. [doc[q] EXCEPT !.elapsed = TRUE] \in Document
    BY <2>1 DEF Document
  <2>3. doc' = [doc EXCEPT ![q] = [doc[q] EXCEPT !.elapsed = TRUE]]
    BY <1>5 DEF Elapse
  <2> QED
    BY <1>2, <2>2, <2>3
<1>6. ASSUME NEW q \in Upload, PurgeClaim(q) PROVE p \in reviewed
  <2>1. p = q
    BY <1>1, <1>6 DEF PurgeClaim, TypeOK
  <2> QED
    BY <1>6, <2>1 DEF PurgeClaim, Review
<1> QED
  BY <1>1, <1>3, <1>4, <1>5, <1>6
     DEF Next, UploadStep, Reserve, WriteObject, WriteFails, WriteLandsLate, CreateFails, Age,
         Reconcile, VaultStep, Authorize, Withdraw, RecoveryStep, RequeueUnchanged,
         CompleteExternally, RequeueCorrectedPath, ClaimGoesStale, AlertGoesStale, CleanupStep,
         ClaimDeletion, ClaimAlert, CheckTarget, Erase, MarkProcessed, NoEraser, PathRejected,
         EraseFails, DeliverAlert, MarkAlertSent, ReleaseAlert, Crash, RecordFailure, LateErase,
         docVars, vars

\* No document is purged that was changed, held or restored since its review.
THEOREM PurgedWasReviewed == Spec => PurgeFollowsReview
<1>1. TypeOK /\ Review /\ [Next]_vars
        => [\A p \in Upload : Present(p) /\ ~Present(p)' => p \in reviewed]_vars
  BY PurgeNext
<1> QED
  BY <1>1, TypeCorrect, ReviewHolds, PTL DEF Spec, PurgeFollowsReview

-----------------------------------------------------------------------------
(* The alert of a dead letter *)

\* No job, no alert.
LEMMA AlertsInit == Init => Alerts
<1> SUFFICES ASSUME Init PROVE Alerts
  OBVIOUS
<1>1. \A p \in Upload : job[p].alerted = FALSE
  BY DEF Init, NoJob
<1>2. \A p \in Upload : ~job[p].alerted
  BY <1>1, Zenon
<1> QED
  BY <1>2 DEF Init, Alerts, AlertedWasAnnounced, In, Idle

\* One job changes: it is not alerted without an announcement, and it is under no
\* alert, or under one that is not delivered, or under the one it was under.
LEMMA AlertChange ==
    ASSUME TypeOK, Alerts, NEW p \in Upload, NEW j, job' = [job EXCEPT ![p] = j],
           \A q \in Upload \ {p} : q \in announced => q \in announced',
           \A v \in Worker : worker'[v] = worker[v] \/ worker'[v].phase # "delivered",
           j.alerted => p \in announced',
           \/ j.alert = None
           \/ worker'[j.alert].phase # "delivered"
           \/ /\ j.alert = job[p].alert /\ j.state = job[p].state
              /\ j.alerted <=> job[p].alerted
              /\ p \in announced => p \in announced'
    PROVE  Alerts'
<1>1. job'[p] = j /\ \A q \in Upload \ {p} : job'[q] = job[q]
  BY DEF TypeOK
<1>2. AlertedWasAnnounced'
  BY <1>1 DEF Alerts, AlertedWasAnnounced
<1>3. ASSUME NEW v \in Worker, (In(v, "delivered") /\ Alerting(v))'
      PROVE  worker'[v].job \in announced'
  <2>1. worker'[v] = worker[v] /\ In(v, "delivered")
    BY <1>3 DEF In
  <2>2. worker[v].job \in Upload
    BY <2>1, WorkerType DEF In
  <2>3. CASE worker[v].job # p
    BY <1>1, <1>3, <2>1, <2>2, <2>3 DEF Alerts, Alerting, Own, In
  <2>4. CASE worker[v].job = p
    <3>1. j.alert = v /\ j.state = "DEAD_LETTER" /\ ~j.alerted
      BY <1>1, <1>3, <2>1, <2>4 DEF Alerting, Own
    <3>2. j.alert # None /\ worker'[j.alert].phase = "delivered"
      BY <2>1, <3>1, StorageAssumption DEF In
    <3>3. Alerting(v) /\ (p \in announced => p \in announced')
      BY <2>4, <3>1, <3>2 DEF Alerting, Own
    <3> QED
      BY <2>1, <2>4, <3>3 DEF Alerts
  <2> QED
    BY <2>3, <2>4
<1> QED
  BY <1>2, <1>3 DEF Alerts

\* Nothing about the jobs or the announcements changes, and no alert is delivered.
LEMMA AlertQuiet ==
    ASSUME TypeOK, Alerts, UNCHANGED <<job, announced>>,
           \A v \in Worker : worker'[v] = worker[v] \/ worker'[v].phase # "delivered"
    PROVE  Alerts'
<1>1. AlertedWasAnnounced'
  BY DEF Alerts, AlertedWasAnnounced
<1> QED
  BY <1>1 DEF Alerts, In, Alerting, Own

\* Every step keeps the alerts.
LEMMA AlertsNext == TypeOK /\ Retriable /\ Alerts /\ [Next]_vars => Alerts'
<1> SUFFICES ASSUME TypeOK, Retriable, Alerts, [Next]_vars PROVE Alerts'
  OBVIOUS
<1>0. job \in [Upload -> Job] /\ \A p \in Upload : job[p].alerted => p \in announced
  BY DEF TypeOK, Alerts, AlertedWasAnnounced
<1>1. CASE UNCHANGED jobVars
  BY <1>1, AlertQuiet DEF jobVars
<1>2. \A c : NewJob(c).alert = None /\ NewJob(c).alerted = FALSE
  BY DEF NewJob, NoJob
<1>3. ASSUME NEW p \in Upload, NEW c, job' = [job EXCEPT ![p] = NewJob(c)],
             UNCHANGED <<worker, announced>>
      PROVE  Alerts'
  <2>1. NewJob(c).alert = None /\ ~NewJob(c).alerted
    BY <1>2, Zenon
  <2> QED
    BY <1>3, <2>1, AlertChange
<1>4. ASSUME NEW p \in Upload, job' = [job EXCEPT ![p] = Processed(@)], announced' = announced,
             \A v \in Worker : worker'[v] = worker[v] \/ worker'[v].phase # "delivered"
      PROVE  Alerts'
  <2>1. Processed(job[p]).alert = None /\ Processed(job[p]).alerted = FALSE
    BY DEF Processed, NoJob
  <2>2. ~Processed(job[p]).alerted
    BY <2>1, Zenon
  <2> QED
    BY <1>4, <2>1, <2>2, AlertChange
<1>5. ASSUME NEW p \in Upload, UploadStep(p) \/ VaultStep(p) \/ RecoveryStep(p) PROVE Alerts'
  <2>1. CASE Reconcile(p) \/ PurgeClaim(p) \/ RequeueUnchanged(p)
    BY <1>1, <1>3, <2>1 DEF Reconcile, PurgeClaim, RequeueUnchanged, jobVars
  <2>2. ASSUME NEW c \in Correctable, RequeueCorrectedPath(p, c) PROVE Alerts'
    BY <1>3, <2>2 DEF RequeueCorrectedPath
  <2>3. CASE CompleteExternally(p)
    BY <1>4, <2>3 DEF CompleteExternally
  <2> QED
    BY <1>1, <1>5, <2>1, <2>2, <2>3
       DEF UploadStep, VaultStep, RecoveryStep, Reserve, WriteObject, WriteFails, WriteLandsLate,
           CreateFails, Age, CreateDocument, Remove, Restore, SetDeletionHold, Revise, Elapse,
           Authorize, Withdraw
<1>6. ASSUME NEW p \in Upload, ClaimGoesStale(p) \/ AlertGoesStale(p) PROVE Alerts'
  <2>1. PICK j : Marked(p, j) /\ j.claim = job[p].claim /\ j.alert = job[p].alert
                 /\ j.alerted = job[p].alerted
    BY <1>0, <1>6, OtherMarks, Zenon DEF ClaimGoesStale, AlertGoesStale
  <2>2. j.alerted <=> job[p].alerted
    BY <2>1, Zenon
  <2>3. UNCHANGED <<worker, announced>>
    BY <1>6 DEF ClaimGoesStale, AlertGoesStale
  <2> QED
    BY <1>0, <2>1, <2>2, <2>3, AlertChange DEF Marked
<1>7. ASSUME NEW w \in Worker, NEW p \in Upload, ClaimDeletion(w, p) \/ ClaimAlert(w, p)
      PROVE  Alerts'
  <2>1. PICK j : Marked(p, j) /\ (j.alert = job[p].alert \/ j.alert = w)
                 /\ j.alerted = job[p].alerted
    <3>1. CASE ClaimDeletion(w, p)
      BY <1>0, <3>1, ClaimMarks, Zenon DEF ClaimDeletion
    <3>2. CASE ClaimAlert(w, p)
      <4>1. PICK j : Marked(p, j) /\ j.claim = job[p].claim /\ j.alert = w
                     /\ j.alerted = job[p].alerted
        BY <1>0, <3>2, ClaimMarks, Zenon DEF ClaimAlert
      <4> QED
        BY <4>1
    <3> QED
      BY <1>7, <3>1, <3>2
  <2>2. j.alerted <=> job[p].alerted
    BY <2>1, Zenon
  <2>3. /\ worker'[w].phase # "delivered" /\ \A v \in Worker \ {w} : worker'[v] = worker[v]
        /\ announced' = announced
    BY <1>7 DEF ClaimDeletion, ClaimAlert, Take, TypeOK
  <2> QED
    BY <1>0, <2>1, <2>2, <2>3, AlertChange DEF Marked
<1>8. ASSUME NEW w \in Worker, ~In(w, "idle"), NEW reason \in TerminalReason \cup {None},
             RecordFailure(w, reason)
      PROVE  Alerts'
  <2> DEFINE p == worker[w].job
  <2>1. p \in Upload /\ job[p] \in Job
    BY <1>0, <1>8, WorkerType
  <2>2. worker'[w].phase # "delivered" /\ \A v \in Worker \ {w} : worker'[v] = worker[v]
    BY <1>8 DEF RecordFailure, BecomesIdle, Idle, TypeOK
  <2>3. CASE ~StillClaimed(w)
    BY <1>8, <2>2, <2>3, AlertQuiet DEF RecordFailure
  <2>4. CASE StillClaimed(w)
    <3>1. job[p].attempts < MaxAttempts
      BY <2>1, <2>4 DEF StillClaimed, Own, Retriable
    <3>2. Failed(job[p], reason).alert = None /\ ~Failed(job[p], reason).alerted
      BY <2>1, <3>1, FailedType
    <3>3. job' = [job EXCEPT ![p] = Failed(job[p], reason)] /\ announced' = announced \ {p}
      BY <1>8, <2>4 DEF RecordFailure
    <3> HIDE DEF p
    <3> QED
      BY <2>1, <2>2, <3>2, <3>3, AlertChange
  <2> QED
    BY <2>3, <2>4
<1>9. ASSUME NEW w \in Worker, CheckTarget(w) \/ NoEraser(w) \/ PathRejected(w) \/ EraseFails(w)
      PROVE  Alerts'
  <2>1. ~In(w, "idle")
    BY <1>9 DEF CheckTarget, NoEraser, PathRejected, EraseFails, In
  <2>2. CASE Advances(w, "checked") /\ UNCHANGED <<job, announced>>
    <3>1. worker[w] \in Holding
      BY <2>1, WorkerType
    <3>2. worker'[w].phase = "checked" /\ \A v \in Worker \ {w} : worker'[v] = worker[v]
      BY <2>2, <3>1 DEF Advances, TypeOK, Holding
    <3> QED
      BY <2>2, <3>2, AlertQuiet
  <2> QED
    BY <1>8, <1>9, <2>1, <2>2
       DEF CheckTarget, NoEraser, PathRejected, EraseFails, TerminalReason
<1>10. ASSUME NEW w \in Worker, Erase(w) \/ Crash(w) PROVE Alerts'
  <2>1. worker[w] \in Holding
    BY <1>10, WorkerType DEF Erase, Crash, In
  <2>2. worker'[w].phase # "delivered" /\ \A v \in Worker \ {w} : worker'[v] = worker[v]
    BY <1>10, <2>1 DEF Erase, Crash, Advances, BecomesIdle, Idle, TypeOK, Holding
  <2> QED
    BY <1>10, <2>2, AlertQuiet DEF Erase, Crash
<1>11. ASSUME NEW w \in Worker, MarkProcessed(w) \/ ReleaseAlert(w) \/ MarkAlertSent(w)
       PROVE  Alerts'
  <2>1. worker[w].job \in Upload
    BY <1>11, WorkerType DEF MarkProcessed, ReleaseAlert, MarkAlertSent, In
  <2>2. /\ worker'[w].phase # "delivered" /\ \A v \in Worker \ {w} : worker'[v] = worker[v]
        /\ announced' = announced
    BY <1>11 DEF MarkProcessed, ReleaseAlert, MarkAlertSent, BecomesIdle, Idle, TypeOK
  <2>3. CASE job' = job
    BY <2>2, <2>3, AlertQuiet
  <2>4. CASE MarkProcessed(w) /\ StillClaimed(w)
    BY <1>4, <2>1, <2>2, <2>4 DEF MarkProcessed
  <2>5. CASE ReleaseAlert(w) /\ Alerting(w)
    <3>1. PICK j : Marked(worker[w].job, j) /\ j.alert = None
                   /\ j.alerted = job[worker[w].job].alerted
      BY <1>0, <2>1, <2>5, OtherMarks, Zenon DEF ReleaseAlert
    <3>2. j.alerted <=> job[worker[w].job].alerted
      BY <3>1, Zenon
    <3> QED
      BY <1>0, <2>1, <2>2, <3>1, <3>2, AlertChange DEF Marked
  <2>6. CASE MarkAlertSent(w) /\ Alerting(w)
    <3>1. PICK j : Marked(worker[w].job, j) /\ j.alert = None
      BY <1>0, <2>1, <2>6, OtherMarks, Zenon DEF MarkAlertSent
    <3>2. worker[w].job \in announced
      BY <2>6 DEF MarkAlertSent, Alerts
    <3> QED
      BY <2>1, <2>2, <3>1, <3>2, AlertChange DEF Marked
  <2> QED
    BY <1>11, <2>3, <2>4, <2>5, <2>6 DEF MarkProcessed, ReleaseAlert, MarkAlertSent
<1>12. ASSUME NEW w \in Worker, DeliverAlert(w) PROVE Alerts'
  <2>1. worker[w] \in Holding
    BY <1>12, WorkerType DEF DeliverAlert, In
  <2>2. /\ worker'[w].job = worker[w].job /\ \A v \in Worker \ {w} : worker'[v] = worker[v]
        /\ job' = job /\ announced \subseteq announced'
        /\ Own(w).state = "DEAD_LETTER" => worker[w].job \in announced'
    BY <1>12, <2>1 DEF DeliverAlert, Advances, TypeOK, Holding
  <2>3. AlertedWasAnnounced'
    BY <2>2 DEF Alerts, AlertedWasAnnounced
  <2>4. ASSUME NEW v \in Worker, (In(v, "delivered") /\ Alerting(v))'
        PROVE  worker'[v].job \in announced'
    <3>1. CASE v = w
      BY <2>2, <2>4, <3>1 DEF Alerting, Own
    <3>2. CASE v # w
      BY <2>2, <2>4, <3>2 DEF Alerts, Alerting, Own, In
    <3> QED
      BY <3>1, <3>2
  <2> QED
    BY <2>3, <2>4 DEF Alerts
<1> QED
  BY <1>1, <1>5, <1>6, <1>7, <1>9, <1>10, <1>11, <1>12
     DEF Next, CleanupStep, LateErase, vars, jobVars

\* What an operator was told and what the runs know of it agree in every state.
THEOREM AlertsHold == Spec => []Alerts
BY TypeCorrect, AlertsInit, AlertsNext, PTL DEF Spec

\* No dead letter is silenced by the acknowledgement of an older alert.
THEOREM NoSilencedDeath == Spec => []AlertedWasAnnounced
<1>1. Alerts => AlertedWasAnnounced
  BY DEF Alerts
<1> QED
  BY <1>1, AlertsHold, PTL
=============================================================================
