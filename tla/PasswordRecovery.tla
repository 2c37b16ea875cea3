-------------------------- MODULE PasswordRecovery --------------------------
(***************************************************************************)
(* Password recovery of one account: the recovery requests, the workers    *)
(* that deliver their links by email, and the reset that consumes one.     *)
(* password-recovery.service.ts (requestPasswordReset, changePassword,     *)
(* resetPassword), auth-email-delivery.service.ts (prepare, claim, send,   *)
(* finalize, cleanup), jobs/personal-server-account.ts (reset-link,        *)
(* reset-password) and what team-lifecycle.service.ts does to requests.    *)
(*                                                                         *)
(* A READ COMMITTED transaction is one action.  The operator's reset is    *)
(* SERIALIZABLE and takes two: the snapshot of its first statement, and    *)
(* the commit that ends the requests of that snapshot.  Claim, send and    *)
(* finalize of a worker are three: the provider is called outside any      *)
(* transaction, so a worker may stall or die around the call while         *)
(* prepare, a reset or another worker goes on.  A suppressed request (no   *)
(* account, rate limit, outstanding limit) is a row without user and token *)
(* that only cleanup ever selects: it is not modelled.                     *)
(***************************************************************************)
EXTENDS Naturals, FiniteSets

CONSTANTS
    Request,          \* recovery request ids (UUIDs, never reused)
    Worker,           \* delivery runs
    MaxAttempts,      \* MAX_DELIVERY_ATTEMPTS
    MaxOutstanding,   \* MAX_OUTSTANDING_REQUESTS
    MaxPassword       \* bound on password replacements

ASSUME BoundAssumption ==
    /\ MaxAttempts \in Nat \ {0}
    /\ MaxOutstanding \in Nat
    /\ MaxPassword \in Nat

VARIABLES
    row,        \* PasswordRecoveryRequest rows
    worker,     \* the claim each worker holds and how its send went
    delivered,  \* requests whose email reached the mailbox
    used,       \* requests a reset has consumed
    member,     \* the account is ACTIVE
    org,        \* the organisation is ACTIVE
    control,    \* the recovery control row admits this secret
    pwd,        \* number of the current password hash
    operator    \* the operator's reset under way: the rows of its snapshot

vars == <<row, worker, delivered, used, member, org, control, pwd, operator>>

-----------------------------------------------------------------------------
\* "GONE": deleted by cleanup.
Delivery == {"NONE", "PENDING", "SENDING", "ACCEPTED", "REJECTED", "UNCERTAIN", "GONE"}
Source == {"SELF_SERVICE_EMAIL", "PERSONAL_SERVER_OPERATOR"}

\* open: terminatedAt IS NULL.  claim: claimToken, unique per attempt, so named
\* by the attempt; 0 is NULL.  stale: claimedAt is beyond staleSendingMs.
\* expired: expiresAt has passed.  pwd and raced are history: the password at
\* creation, and whether an operator's reset was under way then.
Row == [delivery: Delivery, open: BOOLEAN, source: Source, attempts: Nat,
        claim: Nat, stale: BOOLEAN, expired: BOOLEAN, pwd: Nat, raced: BOOLEAN]

\* outcome: what sendPasswordRecoveryEmail returned.
Outcome == {"ACCEPTED", "RETRYABLE", "REJECTED", "UNCERTAIN"}
Idle == [phase |-> "idle"]
Holding == [phase: {"claimed"} \cup Outcome, req: Request, claim: Nat]
ResetUnderWay == [phase: {"reset"}, rows: [Request -> Row]]

\* The request rows, the workers and what they depend on keep their types.
TypeOK ==
    /\ row \in [Request -> Row]
    /\ worker \in [Worker -> {Idle} \cup Holding]
    /\ delivered \in SUBSET Request
    /\ used \in SUBSET Request
    /\ member \in BOOLEAN
    /\ org \in BOOLEAN
    /\ control \in BOOLEAN
    /\ pwd \in Nat
    /\ operator \in {Idle} \cup ResetUnderWay

NoRow == [delivery |-> "NONE", open |-> FALSE, source |-> "SELF_SERVICE_EMAIL",
          attempts |-> 0, claim |-> 0, stale |-> FALSE, expired |-> FALSE, pwd |-> 0,
          raced |-> FALSE]

Init ==
    /\ row = [r \in Request |-> NoRow]
    /\ worker = [w \in Worker |-> Idle]
    /\ delivered = {}
    /\ used = {}
    /\ member = TRUE
    /\ org = TRUE
    /\ control = TRUE
    /\ pwd = 0
    /\ operator = Idle

Active == member /\ org
Open(r) == row[r].open
Outstanding ==
    {r \in Request : Open(r) /\ ~row[r].expired
                       /\ row[r].delivery \in {"PENDING", "SENDING", "ACCEPTED", "UNCERTAIN"}}
\* Mutant: a link works only once its delivery is settled.
ConsumableSettled == {"ACCEPTED", "UNCERTAIN"}

Consumable == {"SENDING", "ACCEPTED", "UNCERTAIN"}
Busy(w) == worker[w] # Idle

\* A reset under way that meets a row changed since its snapshot is rolled back
\* by PostgreSQL (external; 40001), and the command is not retried.
Unserialized == operator' = Idle

-----------------------------------------------------------------------------
(* Issuing links *)

NewRow(delivery, source, raced) ==
    [NoRow EXCEPT !.delivery = delivery, !.open = TRUE, !.source = source, !.pwd = pwd,
                  !.raced = raced]

\* requestPasswordReset that is not suppressed.  It locks the account and
\* changes nothing of it, so a reset under way neither sees nor fails on it.
RequestReset(r) ==
    /\ control /\ Active
    /\ row[r].delivery = "NONE"
    /\ Cardinality(Outstanding) < MaxOutstanding
    /\ row' = [row EXCEPT ![r] = NewRow("PENDING", "SELF_SERVICE_EMAIL", operator # Idle)]
    /\ UNCHANGED <<worker, delivered, used, member, org, control, pwd, operator>>

\* issuePersonalServerResetLink: the operator is handed the link.  Both commands
\* are SERIALIZABLE: of two at once, one is rolled back.
IssueOperatorLink(r) ==
    /\ control /\ Active
    /\ row[r].delivery = "NONE"
    /\ row' = [row EXCEPT ![r] = NewRow("ACCEPTED", "PERSONAL_SERVER_OPERATOR", FALSE)]
    /\ delivered' = delivered \cup {r}
    /\ Unserialized
    /\ UNCHANGED <<worker, used, member, org, control, pwd>>

-----------------------------------------------------------------------------
(* The delivery job *)

Terminated(x) == [x EXCEPT !.open = FALSE]
Quarantined(x) == [x EXCEPT !.delivery = "UNCERTAIN", !.claim = 0, !.stale = FALSE]

\* Mutants: a stale claim is put back in the queue; only open requests are
\* looked at.
PreparedRequeue(x) ==
    IF x.delivery = "SENDING" /\ x.stale
      THEN [x EXCEPT !.delivery = "PENDING", !.claim = 0, !.stale = FALSE] ELSE x
PreparedOpenOnly(x) ==
    IF x.delivery = "SENDING" /\ x.stale /\ x.open THEN Quarantined(x) ELSE x

PreparedDelivery(x) ==
    IF x.delivery = "SENDING" /\ x.stale THEN Quarantined(x) ELSE x
PreparedLifetime(x) == IF x.open /\ (~Active \/ x.expired) THEN Terminated(x) ELSE x

\* prepare, on the rows S its LIMITs and SKIP LOCKED select: stale claims become
\* UNCERTAIN, requests of an inactive principal and expired ones are terminated.
Prepare(S) ==
    /\ control
    /\ S # {}
    /\ \A r \in S : PreparedLifetime(PreparedDelivery(row[r])) # row[r]
    /\ row' = [r \in Request |-> IF r \in S
                                   THEN PreparedLifetime(PreparedDelivery(row[r]))
                                   ELSE row[r]]
    /\ UNCHANGED <<worker, delivered, used, member, org, control, pwd, operator>>

\* Mutant: a stale claim may be taken over.
ClaimableStale(r) ==
    /\ row[r].delivery = "PENDING" \/ row[r].stale
    /\ Open(r) /\ ~row[r].expired
    /\ row[r].attempts < MaxAttempts

Claimable(r) ==
    /\ row[r].delivery = "PENDING" /\ Open(r) /\ ~row[r].expired
    /\ row[r].attempts < MaxAttempts

\* claimPasswordRecovery of an active account whose token key is at hand.
Claim(w, r) ==
    /\ control /\ Active
    /\ ~Busy(w)
    /\ Claimable(r)
    /\ row' = [row EXCEPT ![r].delivery = "SENDING", ![r].attempts = @ + 1,
                          ![r].claim = row[r].attempts + 1, ![r].stale = FALSE]
    /\ worker' = [worker EXCEPT ![w] =
                    [phase |-> "claimed", req |-> r, claim |-> row[r].attempts + 1]]
    /\ UNCHANGED <<delivered, used, member, org, control, pwd, operator>>

\* claimPasswordRecovery of an inactive account, or with the token key lost.
ClaimRefused(r) ==
    /\ control
    /\ Claimable(r)
    /\ row' = [row EXCEPT ![r] = Terminated(@)]
    /\ UNCHANGED <<worker, delivered, used, member, org, control, pwd, operator>>

\* sendPasswordRecoveryEmail: the provider (external) answers.  Only a 429 is
\* retryable; a timeout, a 5xx or an unreadable answer is UNCERTAIN.
Send(w, outcome) ==
    /\ Busy(w) /\ worker[w].phase = "claimed"
    /\ worker' = [worker EXCEPT ![w].phase = outcome]
    /\ delivered' = IF outcome = "ACCEPTED" THEN delivered \cup {worker[w].req}
                                           ELSE delivered
    /\ UNCHANGED <<row, used, member, org, control, pwd, operator>>

\* The provider delivers after all: its answer was uncertain, or the worker
\* died with the call in flight.
LateDelivery(r) ==
    /\ \/ row[r].delivery = "UNCERTAIN"
       \/ /\ row[r].delivery = "SENDING"
          /\ \A w \in Worker : Busy(w) => worker[w].req # r
    /\ delivered' = delivered \cup {r}
    /\ UNCHANGED <<row, worker, used, member, org, control, pwd, operator>>

\* The row finalizePasswordRecovery writes for an answer to a current claim.
Retry(x, outcome) == outcome = "RETRYABLE" /\ x.open /\ x.attempts < MaxAttempts
\* Mutant: the provider's answer is stored as it came.
FinalizedRaw(x, outcome) == [x EXCEPT !.claim = 0, !.stale = FALSE, !.delivery = outcome]

Finalized(x, outcome) ==
    [x EXCEPT !.claim = 0, !.stale = FALSE,
              !.delivery = CASE outcome \in {"ACCEPTED", "UNCERTAIN"} -> outcome
                             [] Retry(x, outcome)                    -> "PENDING"
                             [] OTHER                                -> "REJECTED",
              !.open = x.open /\ (outcome \in {"ACCEPTED", "UNCERTAIN"} \/ Retry(x, outcome))]

\* finalizePasswordRecovery: only for the claim the row still carries.
Finalize(w) ==
    /\ control
    /\ Busy(w) /\ worker[w].phase \in Outcome
    /\ LET r == worker[w].req IN
         row' = IF row[r].delivery = "SENDING" /\ row[r].claim = worker[w].claim
                  THEN [row EXCEPT ![r] = Finalized(@, worker[w].phase)]
                  ELSE row
    /\ worker' = [worker EXCEPT ![w] = Idle]
    /\ UNCHANGED <<delivered, used, member, org, control, pwd, operator>>

\* The run dies, or its finalize is refused by the recovery control.
Crash(w) ==
    /\ Busy(w)
    /\ worker' = [worker EXCEPT ![w] = Idle]
    /\ UNCHANGED <<row, delivered, used, member, org, control, pwd, operator>>

\* cleanup deletes evidence past its retention: nothing open and in time,
\* nothing claimed.
Cleanup(r) ==
    /\ control
    /\ row[r].delivery \notin {"NONE", "SENDING", "GONE"}
    /\ ~Open(r) \/ row[r].expired
    /\ row' = [row EXCEPT ![r].delivery = "GONE", ![r].open = FALSE]
    /\ UNCHANGED <<worker, delivered, used, member, org, control, pwd, operator>>

-----------------------------------------------------------------------------
(* Using links, and what else ends them *)

\* Mutant: requests whose email is not out yet are left open.
TerminateSent ==
    row' = [r \in Request |-> IF row[r].delivery \in Consumable THEN Terminated(row[r])
                                                                ELSE row[r]]

TerminateAll == row' = [r \in Request |-> Terminated(row[r])]

\* Mutant: only the consumed request is ended.
ResetPasswordOne(r) ==
    /\ control /\ Active
    /\ r \in delivered
    /\ Open(r) /\ ~row[r].expired /\ row[r].delivery \in Consumable
    /\ pwd < MaxPassword
    /\ row' = [row EXCEPT ![r] = Terminated(@)]
    /\ used' = used \cup {r}
    /\ pwd' = pwd + 1
    /\ Unserialized
    /\ UNCHANGED <<worker, delivered, member, org, control>>

\* resetPassword with the link of r, read from its email.
ResetPassword(r) ==
    /\ control /\ Active
    /\ r \in delivered
    /\ Open(r) /\ ~row[r].expired /\ row[r].delivery \in Consumable
    /\ pwd < MaxPassword
    /\ TerminateAll
    /\ used' = used \cup {r}
    /\ pwd' = pwd + 1
    /\ Unserialized
    /\ UNCHANGED <<worker, delivered, member, org, control>>

\* changePassword.
ChangePassword ==
    /\ control /\ Active
    /\ pwd < MaxPassword
    /\ TerminateAll
    /\ pwd' = pwd + 1
    /\ Unserialized
    /\ UNCHANGED <<worker, delivered, used, member, org, control>>

\* resetPersonalServerPassword: its first statement fixes the snapshot, before it
\* waits for the advisory lock and the rows of the organisation and the account.
OperatorResetBegin ==
    /\ control /\ Active
    /\ operator = Idle
    /\ operator' = [phase |-> "reset", rows |-> row]
    /\ UNCHANGED <<row, worker, delivered, used, member, org, control, pwd>>

\* It locks every request of its snapshot FOR UPDATE, which fails on one that
\* was changed or deleted meanwhile.
Columns(x) == <<x.delivery, x.open, x.attempts>>
Undisturbed ==
    \A r \in Request :
        operator.rows[r].delivery # "NONE" => Columns(row[r]) = Columns(operator.rows[r])

\* Its commit ends the requests its snapshot shows open and replaces the password.
\* A request committed after the snapshot is not among them.
OperatorReset ==
    /\ operator # Idle /\ Undisturbed
    /\ pwd < MaxPassword
    /\ row' = [r \in Request |-> IF operator.rows[r].open THEN Terminated(row[r]) ELSE row[r]]
    /\ pwd' = pwd + 1
    /\ operator' = Idle
    /\ UNCHANGED <<worker, delivered, used, member, org, control>>

\* It is rolled back or dies.
OperatorAbort ==
    /\ operator # Idle
    /\ operator' = Idle
    /\ UNCHANGED <<row, worker, delivered, used, member, org, control, pwd>>

\* transitionToInactive ends the requests; an organisation's suspension leaves
\* them to prepare and to the claim.
SuspendMember ==
    /\ control /\ Active
    /\ member' = FALSE
    /\ TerminateAll
    /\ Unserialized
    /\ UNCHANGED <<worker, delivered, used, org, control, pwd>>

ReactivateMember ==
    /\ ~member /\ org
    /\ member' = TRUE
    /\ UNCHANGED <<row, worker, delivered, used, org, control, pwd, operator>>

OrganisationTransition ==
    /\ org' = ~org
    /\ Unserialized
    /\ UNCHANGED <<row, worker, delivered, used, member, control, pwd>>

\* A secret rotation closes and reopens the control (auth-recovery-control.ts).
ControlTransition ==
    /\ control' = ~control
    /\ Unserialized
    /\ UNCHANGED <<row, worker, delivered, used, member, org, pwd>>

\* Time passes: an hour for the link, staleSendingMs for a claim.
Expire(r) ==
    /\ row[r].delivery \notin {"NONE", "GONE"} /\ ~row[r].expired
    /\ row' = [row EXCEPT ![r].expired = TRUE]
    /\ UNCHANGED <<worker, delivered, used, member, org, control, pwd, operator>>

GoStale(r) ==
    /\ row[r].delivery = "SENDING" /\ ~row[r].stale
    /\ row' = [row EXCEPT ![r].stale = TRUE]
    /\ UNCHANGED <<worker, delivered, used, member, org, control, pwd, operator>>

-----------------------------------------------------------------------------
Next ==
    \/ \E r \in Request : \/ RequestReset(r) \/ IssueOperatorLink(r)
                          \/ ClaimRefused(r) \/ Cleanup(r)
                          \/ ResetPassword(r) \/ Expire(r) \/ GoStale(r)
    \/ \E S \in SUBSET Request : Prepare(S)
    \/ \E w \in Worker, r \in Request : Claim(w, r)
    \/ \E w \in Worker, o \in Outcome : Send(w, o)
    \/ \E r \in Request : LateDelivery(r)
    \/ \E w \in Worker : Finalize(w) \/ Crash(w)
    \/ ChangePassword \/ OperatorResetBegin \/ OperatorReset \/ OperatorAbort
    \/ SuspendMember \/ ReactivateMember
    \/ OrganisationTransition \/ ControlTransition

Spec == Init /\ [][Next]_vars

\* Time passes, and the scheduler keeps running the delivery job
\* (production-scheduler.ts).  The control may be closed at any one run, hence
\* strong fairness for prepare.
Fairness == \A r \in Request :
    WF_vars(GoStale(r)) /\ WF_vars(Expire(r)) /\ SF_vars(Prepare({r}))

FairSpec == Spec /\ Fairness

-----------------------------------------------------------------------------
(* Safety *)

\* Whatever replaces the password ends the links issued under the old one, in
\* whatever delivery state they are.  The one exception is a request that came in
\* while the operator's reset was under way: it may outlive that replacement, but
\* no later one.
OpenUnderCurrentPassword ==
    \A r \in Request : Open(r) => \/ row[r].pwd = pwd
                                  \/ row[r].raced /\ row[r].pwd + 1 = pwd

\* No request is ever in the hands of two delivery workers: a stalled worker's
\* claim is quarantined as UNCERTAIN and never handed out again, so its late
\* send cannot duplicate another worker's.
OneSenderPerRequest ==
    \A v, w \in Worker :
        Busy(v) /\ Busy(w) /\ worker[v].req = worker[w].req => v = w

\* A link that reached the mailbox works until it expires or is terminated,
\* also while its delivery is unfinished or its worker has died.
DeliveredLinkIsConsumable ==
    \A r \in delivered : Open(r) => row[r].delivery \in Consumable

\* A delivered email is never sent again: retries happen only after an answer
\* that rules delivery out.
NoResendAfterDelivery ==
    [][\A r \in delivered : row'[r].attempts = row[r].attempts]_vars

\* A claim whose worker died does not stay SENDING for ever, and no link stays
\* open for ever, whatever state its delivery got stuck in: the job quarantines
\* the one and expires the other, provided the control is not closed for good.
NothingStaysStuck ==
    []<>control =>
        \A r \in Request : /\ row[r].delivery = "SENDING" ~> row[r].delivery # "SENDING"
                           /\ Open(r) ~> ~Open(r)

\* Recovery implements one-time links.
LinkState(r) ==
    CASE row[r].delivery = "NONE" -> "none"
      [] r \in used               -> "used"
      [] row[r].delivery # "NONE" /\ r \notin used /\ Open(r) -> "open"
      [] OTHER                    -> "void"
Known == {r \in Request : operator # Idle /\ operator.rows[r].open}
Links == INSTANCE OneTimeLink WITH
            Link <- Request, link <- [r \in Request |-> LinkState(r)], epoch <- pwd,
            replacing <- operator # Idle, known <- Known
ImplementsOneTimeLink == Links!Spec
=============================================================================
