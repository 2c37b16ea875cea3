# CharityPilot: TLA+ models and proofs

CharityPilot is a governance workspace for charities: a Fastify API over
PostgreSQL (`src/apps/api`), a Next.js web application (`src/apps/web`), a shared
package, an MCP connector (`src/mcp`) and the scripts that deploy it. The logic
that is hard to test is in the API: several web processes, a scheduler, operator
commands and external services (an email provider, Stripe, Atlassian, object
storage) change the same rows concurrently, and any of them may stall or die
between two steps. These modules model that part, TLC checks them on small
instances, and TLAPS proves that every safety property the passing runs check holds for
every instance.

Contents: the inventory of the system, the modules, the runs, the findings, the
proofs, what is left out, and the plan.

## 1. Inventory

For each part: the state it keeps, its operations, how it meets the others, what
is hard, what makes it correct.

### Accounts and sessions
*State.* `User` (role, lifecycleStatus, membershipVersion, passwordHash,
emailVerified), `AuthSession` (family, posture, expiry, revocation reason),
`InstallationSessionCutoff`, `UserSecondFactor`.
*Operations.* login, refresh (`rotateSessionTokens`), logout, email verification,
change and reset of a password, revocation of a family, of a user, of the
installation, enrolment and removal of a second factor.
*Interaction.* Every authenticated request reads the session and the user anew;
team management, password recovery and the owner console end sessions.
*Hard.* bcrypt runs before the transaction that issues the session, so the
password it checked may be gone; refreshes race each other and every bulk
revocation; under READ COMMITTED an `updateMany` does not see a row that was
inserted after its snapshot; the operator's reset of a password, the transfer and the
recovery of ownership are SERIALIZABLE, so their snapshot is older than the locks they
wait for; clients retry refreshes whose answer they lost.
*Correct if* no session outlives its password, its membership, its owner's
authority, its family's quarantine or a committed bulk revocation; one family has
one usable token; a connector session stays one.

### Team
*State.* the membership columns of `User`, `TeamInvite`, the plan's seat limit.
*Operations.* invite, reissue link, revoke, accept; suspend, remove, change role,
reactivate, transfer ownership, support's ownership recovery, session revocation
by an administrator.
*Hard.* Administrators act on pages loaded earlier; acceptInvite hashes a password
between reading the invitation and consuming it; the seat check counts pending
invitations on two of its three paths.
*Correct if* there is always exactly one active owner; a request takes effect on
the membership that was reviewed; removal is final; a dead link creates no
account; the plan is never oversold.

### Password recovery and its email
*State.* `PasswordRecoveryRequest` (token hash, expiry, delivery state, claim,
attempts), the recovery control row.
*Operations.* request, the operator's link, prepare / claim / send / finalize /
cleanup of the delivery job, reset, and everything that terminates a request.
*Hard.* The provider is called outside any transaction; a worker stalls or dies
with the email out; another one runs meanwhile; a 429 is retried and a timeout
must not be; the operator's reset ends the requests of a snapshot that a request in
flight is not in.
*Correct if* a link is used once, using one kills the others, a mail that went out
is never sent again and its link works, and nothing stays claimed for ever.

### Tenant lifecycle (owner console)
*State.* `Organisation.lifecycleStatus`, `lifecycleVersion`, `lifecycleChangedAt`;
a trigger that owns the last two.
*Operations.* suspend, reactivate, close from the console; SQL from a shell.
*Interaction.* Every session transaction locks the organisation and requires ACTIVE.
*Correct if* an allowed transition is applied and every other one refused.
Only the status and its transitions are modelled (`OrganisationTransition` of
`Accounts` and `PasswordRecovery`), as a shell's SQL makes them. Reading the console's
own update suggests that it cannot succeed: `transitionTenantLifecycle` writes
`lifecycleVersion` and `lifecycleChangedAt` beside the status
(`owner-tenants.service.ts:169`), and the trigger `manage_organisation_lifecycle_version`
(migration `20260711030000`, line 318) raises whenever an UPDATE changes either, although
`docs/owner-console-runbook.md:116` lists the console's transitions. That is a
disagreement of two statements and needs no model checker.

### Deadline reminders
*State.* `Deadline` (due date, schedule version, reminder windows),
`DeadlineReminderLog` (status, window, schedule version, reconciliation).
*Operations.* the daily run (quarantine, select, reserve, re-check, mark SENDING,
send, finalize), the operator's reconcile and prepare-cutover commands, and every
change of the deadline.
*Hard.* Runs overlap and die at any step; the deadline changes between the page
read, the reservation and the send; an answer arrives after an operator has
reconciled the row.
*Correct if* a window of a schedule yields at most one email, no row denies an
email that went out, an operator's evidence is final, and an interrupted send is
quarantined.

### Sealed integration credentials
*State.* `IntegrationSecretControl` (generation, active and retired fingerprint),
`IntegrationCredential` (envelope, generation), the keys in each process's
environment.
*Operations.* store, load, disconnect, begin a rotation, reseal, restarts with
other keys.
*Hard.* The key is chosen before the transaction that writes; processes with the
old environment are still answering; reseal may race a new secret.
*Correct if* every stored credential opens with the key the control row points
to, at every moment of a rotation, and the newest secret survives.

### Documents and storage deletion
*State.* `Document` (removed, hold, recovery window, revision), `DocumentUploadIntent`,
purge authorisations and claims, `DocumentStorageDeletion` (state, claim, attempts,
terminal reason, alert claim), the bytes in the object store.
*Operations.* reserve, write, create; reconcile stale reservations; remove, restore,
hold; authorize, withdraw and claim a purge; the cleanup run (claim, check, erase,
record success or failure), the alert of a dead letter, and the operator's three ways
to recover one.
*Hard.* Two stores with no common transaction: a write or an erase may take effect
after the request that sent it gave up; claims grow stale and are taken over; a purge
is authorised for a revision that changes; a dead letter is alerted, recovered and
dead-lettered again.
*Correct if* a document's bytes are never erased, every stored object that no
document refers to is known to a reservation or a job and is erased or reported in
the end, and a purge only follows a review of the document as it is.

### Document publication and the Confluence connection (planned)
*State.* publication attempts and claims, OAuth tokens with a refresh claim.
*Hard.* Atlassian rotates the refresh token on use; the write that keeps the new
one may fail.

### Billing
*State.* the recorded `Subscription`, `BillingCheckoutAttempt` (one per organisation,
with a lease), `BillingAuthorityGrant` (who may hold a provider capability),
`StripeWebhookEvent`; at Stripe the Checkout and portal sessions and the subscriptions.
*Operations.* a Checkout or portal request in a dozen database and Stripe steps, the
completion webhook, the interlock on a change of owner, the operator's release.
*Interaction.* `transferOwnership` and the ownership recovery ask the interlock;
billing asks for the current owner and his session.
*Hard.* Requests of the same owner share a grant, and one may release it under the
other; Stripe carries out a call whose request is dead; a payment's webhook arrives
after the attempt expired; ownership moves while a URL is on its way to a browser.
*Correct if* Stripe never has two live subscriptions of the organisation, nobody but
the owner holds a URL that works, and a paid subscription can always be recorded.

### Connector: idempotency and approvals (planned)
*State.* idempotency records, one-shot action approvals.
*Hard.* A retry while the first attempt is still running; an approval used twice.

### Scheduler (assumed, planned)
Leases and catch-up of periodic jobs. Two fairness assumptions below rest on it.

### Others
Governance records (registers, compliance, governing acts) are CRUD with version
checks; data export is read-only; the web application renders; the MCP connector
is a client of the API; deployment scripts orchestrate containers. They are listed
in `PROJECT.json` with the reason they are not modelled.

The hazards, each at its line with the properties that would catch it, are in
`PROJECT.json` under "hazards".

## 2. The modules

| module | models | state |
| --- | --- | --- |
| `Accounts` | session-tokens, auth, password-recovery, team-lifecycle, team, recover-team-ownership, personal-server-account | `org user session request replayed` |
| `SessionLocks` | the session transactions of one account, statement by statement | rows, locks, snapshots, uncommitted writes |
| `PasswordRecovery` | recovery requests, delivery workers, what ends a link | `row worker delivered used member org control pwd operator` |
| `OneTimeLink` | abstract: what recovery promises | `link epoch replacing known` |
| `TeamInvites` | invitations and seats | `org plan paid member invite accept grace` |
| `Reminders` | the reminder run, reconciliation, changes of the deadline | `deadline entitled row worker inFlight delivered` |
| `IntegrationKeys` | store, load, rotation of keys | `control env row op newest` |
| `DocumentStorage` | uploads, the vault, purges, cleanup runs, alerts and recovery | `intent aged request doc granted object late job worker` |
| `Billing` | checkout and portal, grants, Stripe, the webhook, interlock and operator release | `owner grant attempt elapsed local recorded request wire checkout by portal sub shown hooks` |
| `Accounts_proofs`, `SessionLocks_proofs`, `PasswordRecovery_proofs`, `TeamInvites_proofs`, `Reminders_proofs`, `IntegrationKeys_proofs`, `DocumentStorage_proofs`, `Billing_proofs` | the inductive invariants of the module they are named after, and the proofs of its theorems (section 5) | |
| `MC*` | symmetry sets for TLC | |

Conventions. An action is one READ COMMITTED database transaction with everything it
writes. The SERIALIZABLE commands that revoke what READ COMMITTED transactions insert
(`transferOwnership`, `executeOwnershipRecovery`, `resetPersonalServerPassword`) are two
actions: the snapshot of the first statement, and the commit. The commit ends what the
snapshot holds, and is refused (40001) once a row that the command locks or writes has
changed; a row that was only locked meanwhile, as a login locks its user, is no change,
and a row inserted since is not seen. Two such commands on one account conflict on its
row. What
the code reads outside the transaction and uses inside it is kept in a variable of
the handler (`request`, `accept`, `worker`, `op`), so any other action may come in
between. Refusals that write nothing are one action (`Abandon`, `AcceptRefused`,
`Stop`). Time is a nondeterministic event (`Expire`, `GoStale`, `NextDay`).
Variables marked as history in a comment are not in the code; they only let a
property speak about the past. Definitions introduced by a comment "Mutant" are not
part of any specification: each is a plausible bug in the definition that follows
it, used to see that a property would notice.

How the modules fit. `Accounts` takes each READ COMMITTED transaction as atomic. Every
one of them locks the organisation, the user and the session rows in that order, and
`SessionLocks` opens the session transactions up to see that these locks suffice:
it has PostgreSQL's SHARE and UPDATE row locks, statement snapshots, re-reading of
a row after a wait, and invisible later inserts, and for a SERIALIZABLE command one
snapshot for all statements. `Accounts!ResetPassword` may come at any time, as if some
link worked; `PasswordRecovery` follows each link, says when one does, and implements
`OneTimeLink`. `Accounts!AcceptInvite` and `Reactivate` leave out
seats and link tokens; `TeamInvites` has them and leaves out sessions.
`Accounts!OrganisationTransition` is what the organisation's trigger admits.
`Accounts!MoveOwnership` leaves out the billing interlock (so it allows more);
`Billing!MoveOwnership` has it and leaves out the rest of a transfer.

Abstractions worth knowing:
- *Accounts.* One organisation. Password hashes are numbered (a fresh bcrypt salt
  makes every hash new). The reasons of revocation other than ROTATED are one value.
  A session beyond its expiry is a step not taken. Rate limits only refuse.
  `RecoverBegin` omits the dry run's version check, so it allows more.
- *SessionLocks.* One account. The organisation lock, taken FOR SHARE by all of
  these transactions or FOR UPDATE before the user row, is left out, which allows
  more interleavings. A deadlock is resolved by `Abort`.
- *PasswordRecovery.* Suppressed requests carry no token and are left out. The
  provider may deliver after a timeout or a crash (`LateDelivery`). A change of the
  password, the account or the organisation while the operator's reset is under way
  makes it fail (`Unserialized`).
- *Reminders.* One deadline and one recipient. Overdue days are as day 0. A run
  computes "today" once at its start; here at its selection, and the days of a
  deadline may change in between anyway. `Close` is completion, removal and
  supersession in one: only completion can be undone. An operator who reports
  NOT_ACCEPTED_CONFIRMED has established it (`Conclusive`); the code cannot check. The
  SERIALIZABLE transfer skips the reservations of its snapshot only, so `LoseMembership`
  skips any of them.
- *DocumentStorage.* A storage path is fresh, so upload, reservation, document, object
  and job share its name. The object store's steps are separate from the database's and
  may happen late (`WriteLandsLate`, `LateErase`). `uploadTimeoutMs` is well inside the
  hour after which a reservation counts as stale, so a late write lands before that
  (`Age`). A batch of jobs is worked one at a time and a run holds one. Recovery to a
  corrected path looks for documents and deletions there but not for a reservation;
  `StorageAssumption` says that operators name no path of an upload. Without it a
  redirected job erases the bytes of an upload that is being written and then recorded.
  `granted` holds revisions, so several authorisations of one revision are one.
  `ClaimDeletion` is of an organisation without a recovery-enforcement binding, which would
  hold its deletions back; only `OrphanErasedOrReported` speaks of that.
- *Billing.* One organisation, one auth session of each owner, one plan: another plan
  than the pending attempt's, too short a lease and a failing Stripe call are all
  `FailsEarly`. Only a session whose URL was returned takes a payment, and only until
  `expires_at`, by a clock that agrees with the API's. No request takes half an hour
  (`Elapse`): the code refuses to create a session with less than 31 of its 60 minutes
  left, and rests on this itself, since a request that stalled for the whole lease
  between its list of subscriptions and its claim of the attempt would delete the
  attempt of a session paid meanwhile. The operator's evidence is true. `ReconcileExpired`
  is one step: the database read and Stripe's retrieve and expire meet a session that has
  already elapsed.
- *IntegrationKeys.* The cipher is reduced to which key sealed what. Operators
  follow the documented procedure: configure, begin, reseal, retire.

## 3. The runs

Each finishes within five minutes with two workers; `accounts` (1.6 million states),
`session_locks` (2.2 million), `password_recovery` (1.1 million), `billing` (4.3 million)
and `reminders` take longest. Deadlock checking is off
everywhere because the models are bounded: with all session ids, versions, grants or
log rows used up nothing more can happen.

| run | bounds | shows |
| --- | --- | --- |
| `accounts` | 2 accounts, 3 session rows, 2 handlers (requests or serializable commands), 1 posture, version 3, 2 passwords, at most 2 changes of a membership or a password (an organisation out of service counts as one) | `LiveSessionIsCurrent`, `FamiliesSound`, `OneActiveOwner`, `VersionPinsReview`, `RemovedIsTerminal` |
| `operator_reset` | 1 account, 1 session row, 2 handlers | violation of `LiveUnderCurrentPassword` |
| `session_locks` | 3 session rows; 2 refreshes, a logout, a login, a lifecycle change, a serializable command, an installation revocation, a factor change; at most 6 of the 8 begin, 3 are open at once | `EndedFamiliesStayEnded`, `OneLivePerFamily` |
| `second_factor_locks` | a refresh and a factor change | violation of `SecondFactorEndsSessions` |
| `password_recovery` | 2 requests, 2 workers, 2 attempts, limit 1, 2 replacements, 4 replacements and attempts together | `OpenUnderCurrentPassword`, `OneSenderPerRequest`, `DeliveredLinkIsConsumable`, `NoResendAfterDelivery`, `ImplementsOneTimeLink` |
| `password_recovery_liveness` | 1 request, 1 worker | `NothingStaysStuck` |
| `team_invites` | 3 addresses, 2 invitations, 2 acceptances, limit 2, 2 links each | `SeatsWithinPlan`, `AcceptedByLatestLink`, `NoLeftoverInvite` |
| `reminders` | 2 log rows, 2 runs, 1 window, 1 day, 2 schedules | `OneEmailPerWindow`, `UnsentIsUndelivered`, `ReconciliationIsFinal`, `InterruptedIsQuarantined` |
| `integration_keys` | 2 keys, 1 credential, 2 handlers, 3 generations, 4 writes | `NeverLooksCorrupt`, `AlwaysReadable`, `NewestSecretKept` |
| `integration_first_key` | the same from an installation without a recorded key | violation of `NeverLooksCorrupt` |
| `document_storage` | 1 upload, 1 corrected path, 2 cleanup runs, 2 attempts, 3 revisions | `DocumentKeepsBytes`, `NoOrphanForgotten`, `AlertedWasAnnounced`, `PurgeFollowsReview`, `ProcessedIsFinal`, `OrphanErasedOrReported` |
| `billing` | 2 members, 2 requests, 2 attempts, 3 grants | `OneLiveSubscription`, `CapabilityKeepsOwner`, `PaidIsNotForgotten` |

Every passing run but `password_recovery_liveness` also checks its module's `TypeOK`.
`LiveSessionIsCurrent` says that the user of a live session is active, and that the
session was established under the current password and knows whether that user is the
owner, unless it was established while a serializable command on that user was under way
(the history field `raced`; without the exemption it fails, which `operator_reset` shows
for the password alone). `EndedFamiliesStayEnded` holds a serializable command to the
families of its snapshot, and `OpenUnderCurrentPassword` lets a request that came in
during the operator's reset outlive that replacement and no later one. `FamiliesSound`
that a family has one usable row, none after a replay, and one posture;
`NoLeftoverInvite` that an address has one open invitation and a member none.

Why the bounds suffice for what they are meant to show:
- Three session rows hold a family that was refreshed twice, or a refreshed family
  beside a fresh login. Two accounts give an owner and one other; two handlers are two
  stale reviews that compete, or a login in flight beside one. The constraint
  `FewChanges` keeps the behaviours with a suspension and a reactivation, a suspension
  and a password change, or a transfer of ownership; the theorems need no such bound.
  One posture cannot be lost: that a family keeps it is the theorem's to show.
- In `session_locks` three open transactions are a refresh, what revokes it, and a
  third that commits between. Up to three others still run before or after them.
- Two requests distinguish "the link used" from "the others"; two workers and two
  attempts are a retry handed to another worker. The limit of 1 stands for
  `MAX_OUTSTANDING_REQUESTS` (3): below it and at it are both reached. The second
  replacement is the one that a request which outlived the first must not survive. Beside
  two replacements two attempts remain, enough for a retry by another worker.
- A third address beside two seats is needed for overselling; two links per
  invitation for a replaced one.
- Two log rows are a reservation and its replacement; with a second schedule version
  a run may hold the old schedule's row while another has the new one's.
- Paths of uploads are fresh and meet nowhere, so one upload stands for all. Two cleanup
  runs are one that lost its claim and one that took it over; two attempts a retry and
  an exhaustion; three revisions a document removed, authorised, restored and removed
  again.
- A second attempt is the second subscription; the third grant lets a request fail, or
  an operator release, between two checkouts. Two requests share a grant or race for
  one.
- Two keys and three generations come back to the first key, which is the case
  where equal fingerprints could mislead.

Symmetry is used over session ids, handlers, workers, requests and the like where
the modules treat them alike, never in a run with a liveness property. (Session ids
of `SessionLocks` are ordered and not symmetric.) `MCAccounts`, `MCSessionLocks` and
`MCPasswordRecovery` define a VIEW: states that differ only in what no action and no
property of the run can read any more, such as the history fields of a dead session or
the snapshot of a command that can no longer commit, count as one.

### Fairness
- `PasswordRecovery!FairSpec`: links expire and claims grow stale (WF: time passes),
  and the delivery job is scheduled again and again, so prepare reaches each row
  (SF: at any single run the recovery control may be closed by a secret rotation). The
  property itself assumes that the control is open again and again. Nothing is
  assumed of workers: they may stall for ever.
- `Reminders!FairSpec`: the scheduler starts the run each day, and a started run does
  something or dies (WF of `Run`); requests grow stale (WF of `GoStale`). Fair runs
  matter because it is only the next run's first step that quarantines a dead one's
  request.

- `DocumentStorage!Spec`: provider calls are bounded by their timeouts and time passes
  (WF); the scheduler runs cleanup again and again, oldest work first, and a run that
  keeps its claim comes to its next step (SF, because a claim may be lost to staleness
  any number of times). So a run may crash, stall or lose its claim as often as it
  likes, but not at every attempt for ever, and the alert channel may not refuse for
  ever. `CreateDocument`, the owner and the operator are not fair: an orphan must go
  without them.

All rest on `jobs/production-scheduler.ts`, which is not modelled.

## 4. Findings

Three runs show the code disagreeing with what the repository says of it.
- `operator_reset`. `resetPersonalServerPassword` is SERIALIZABLE, and its first
  statement fixes the snapshot. A login that checked the old password and holds the
  organisation and the user FOR SHARE inserts its session and commits while the command
  waits; it changed no row the command locks or writes, so nothing fails, and the final
  `updateMany` does not see the session: it stays live under the old password.
  `session-tokens.ts:330` says that a concurrent reset "either commits first and
  prevents issuance, or waits for issuance and then revokes the newly-created session".
  That is so for the READ COMMITTED `resetPassword` and `changePassword`.
  `transferOwnership` and `executeOwnershipRecovery` share the shape, and a recovery
  request in flight is missed like a login.
- `second_factor_locks`. Enrolling or removing a second factor revokes sessions
  holding only the factor row. A refresh that has read the user before may commit its
  successor after the revocation's snapshot, although "Activation and removal revoke
  existing sessions". In `session_locks` the same statement is complete when it
  runs under the user's UPDATE lock or behind the cutoff row.
- `integration_first_key`. The first store writes the key's fingerprint without a
  condition and without the generation fence. If it stalls across another first store
  and the begin of a rotation, it records the retired key as the active one. The
  comment above it considers only the case that both write the same value.

## 5. The proofs

Every `X_proofs` module holds the theorems about `X`, for all values of its constants
that satisfy the assumptions `X` names: any sets of users, requests, workers, paths and
transactions (finite or not) and any bounds. Together they state every type invariant,
safety invariant and safety action property the passing runs check, and the refinement
of `OneTimeLink`. The inductive invariants were checked by TLC on the instance of the
module's run before they were proved; where TLC or the prover refused one, the
strengthening it needed is described below.

The assumptions are about constants only: bounds are naturals (positive where zero
would leave nothing to do), the owner is a user, the web posture a posture, a value
that means "none" is not a member of the set it is compared with, an operator's
corrected path is not a path of an upload, and each transaction of `SessionLocks` is of
one kind. The three theorems of `IntegrationKeys` that need more say so.

### Accounts

| theorem | states | inductive invariant |
| --- | --- | --- |
| `TypeCorrect` | `[]TypeOK` | itself |
| `SnapshotsHold` | `[]Snapshots` | `TypeOK /\ Snapshots` |
| `SessionsAgree` | `[]LiveSessionIsCurrent` | `TypeOK /\ Snapshots /\ Agreement` |
| `RevocationFinal` | `RevocationIsFinal` | `TypeOK`, by the step lemma `SessionStepNext` |
| `FamiliesHold` | `[]FamiliesSound` | `TypeOK /\ Families` |
| `VersionsPinReviews` | `[]VersionPinsReview` | `TypeOK /\ Snapshots /\ Reviews` |
| `RemovedTerminal` | `RemovedIsTerminal` | `TypeOK /\ Snapshots /\ Reviews`, by `UserStepNext` |
| `OneOwner` | `[]OneActiveOwner` | `TypeOK /\ Snapshots /\ OneActiveOwner` |

- `Snapshots` is about serializable commands under way: the rows of the snapshot admitted
  the command, and as long as every session it saw is live, each live session of its
  users is among those, or is `raced` (`Covers`). A refresh or a logout of a session it
  saw makes the premise false, and with it the commit impossible: this is why such a
  command overlooks a login but no successor of a refresh.
- `Agreement` puts the statements about a live session together: its user is active, and
  unless it is `raced` it was established under the current password and knows whether
  that user is the owner. Each step either only revokes (`AgreementRevoke`), or changes
  a user and ends the sessions of that user, all of them or, for a serializable command,
  all that are not `raced` (`AtCommit`), or adds a row: login re-checks password, role
  and lifecycle in its transaction, refresh copies a row that agreed.
- `SessionStep` is what any step may do to a session row: nothing, revoke a live one,
  or fill an unused one, as the founder of a family or as the successor of the row
  rotated in the same step. `RevocationFinal` is a consequence, and the family
  invariant is proved from it rather than from each action again.
- `Families` adds `Founded` to the properties: a family is named by a row that exists
  and has the same user and posture. Without it a new row could join an abandoned
  family. `OneHeadPerFamily` is itself inductive given `Founded`: a rotation replaces
  the head, a new family is its own head, a revocation keeps it. A quarantined family
  has a head that is not live and so never again has a live row.
- `Reviews` strengthens `VersionPinsReview` to requests that are out of date: the
  membership a handler read still exists, its version is never ahead of the row's, and
  if it is equal then role and lifecycle are too (`Behind`). It is preserved because
  every change of role or lifecycle increments the version (`UserStep`), which is where
  the trigger `manage_user_membership_version` enters.
- `OneActiveOwner` is inductive beside `Snapshots`: only `MoveOwnership` creates an owner,
  and since its rows are still those of the snapshot it demotes the one there is; no
  manager may act on an owner.

### SessionLocks

| theorem | states |
| --- | --- |
| `TypeCorrect` | `[]TypeOK` |
| `FencesHold` | `[]Fenced`, the inductive invariant |
| `RevocationIsComplete` | `[]EndedFamiliesStayEnded` |
| `OneSuccessor` | `[]OneLivePerFamily` |

- `Fenced` says what a transaction may count on at each of its statements. Row and table
  locks exclude each other (`LocksExclude`). A refresh about to insert holds every row
  of its family, and its presented row is still live (`Rotating`). A logout or a replay
  has every live row of its family on its list or already killed (`EndingFamily`); a
  lifecycle change or an installation revocation has every live row there
  (`EndingAll`), and holds the user row or the cutoff row in UPDATE mode.
- The hard case is a row inserted after the statement that made the list. It cannot
  exist: the inserter holds the user row in SHARE mode from before it chooses its row and
  the cutoff row in SHARE mode from its trigger on (`Inserting`), and the revocation has
  one of the two in UPDATE mode. For a family it is the row locks on its sessions.
- A serializable command knows less (`EndingSeen`): of each family of its snapshot that is
  still live, a row it saw is on its list. If that row was rotated meanwhile the
  command fails on it, so when it commits the families it saw are over; of a family
  founded since, it knows nothing.
- A factor change has no such part in `Fenced`, because it takes neither lock:
  that is what the run `second_factor_locks` shows.
- `TypeOK` alone is not inductive: that the family of a new row is a session follows from
  `Presented` (a presented token is stored), so `TypeCorrect` follows from both.

### PasswordRecovery

| theorem | states |
| --- | --- |
| `TypeCorrect` | `[]TypeOK` |
| `CustodyHolds` | `[]Custody`, the inductive invariant of delivery |
| `CurrencyHolds` | `[]Currency`, the inductive invariant of what is open |
| `OpenLinksAreCurrent` | `[]OpenUnderCurrentPassword` |
| `SoleSender` | `[]OneSenderPerRequest` |
| `DeliveredLinksWork` | `[]DeliveredLinkIsConsumable` |
| `NoResend` | `NoResendAfterDelivery` |
| `Refinement` | `ImplementsOneTimeLink` |

- `Custody` adds to `OneSenderPerRequest` and `DeliveredLinkIsConsumable` that a busy
  worker's request still carries its claim or is settled for good (`ClaimIsHeld`), that
  what may still be put back to PENDING has not gone out (`NotOutYet`), that rejected,
  deleted and used requests are closed (`DeadIsClosed`), and that an id not issued has
  reached nobody.
- `Currency` adds to `OpenUnderCurrentPassword` what makes it inductive: while the
  operator's reset is under way, an open request is open in its snapshot, or came in
  since, under the current password (`Covered`), and what the snapshot shows open it
  shows as issued (`SnapshotIssued`). So the commit ends everything older.
- The refinement is proved step by step: each action of `PasswordRecovery` is a step of
  `OneTimeLink` under the mapping, or leaves the mapped variables as they are. The abstract
  specification has two ways of replacing the password: `Use` and `Replace` void every
  open link in one step, as the READ COMMITTED code does; `Start` and `Finish`, the
  operator's reset, void exactly the links that were open at the start, or none if one
  of them has changed. The proof needs `Custody`: an id that is issued was no link before
  (`FreshIsUnsent`), a link that was used or whose request is gone is not open
  (`DeadIsClosed`); and `Currency`: the rows locked at the commit are those known open.

### TeamInvites

| theorem | states |
| --- | --- |
| `TypeCorrect` | `[](TypeOK /\ FiniteSeats)` |
| `NeverOversold` | `[]SeatsWithinPlan` |
| `NoLeftovers` | `[]NoLeftoverInvite` |
| `LatestLinkOnly` | `[]AcceptedByLatestLink` |

`NoLeftoverInvite` and `AcceptedByLatestLink` are inductive beside `TypeOK`. Seats are
counted with `Cardinality`, which says something only of finite sets; that the seats
taken are finite is itself an invariant (`FiniteSeats`, a step takes one seat at most), so
the sets of addresses and invitations may be infinite. The lemma `SeatMove` says what a
step does to the seats taken: it gives some back, turns an open invitation into a
member (`SeatConverted`), or takes one for which there was a place.

### Reminders

| theorem | states |
| --- | --- |
| `TypeCorrect` | `[]TypeOK` |
| `LedgerHolds` | `[]Ledger`, the inductive invariant |
| `WindowFiresOnce` | `[]OneEmailPerWindow` |
| `UnsentNeverDelivered` | `[]UnsentIsUndelivered` |
| `EvidenceIsFinal` | `ReconciliationIsFinal` |

`Ledger`: a window of a schedule has one active claim; what was delivered, or may still be,
occupies its window; a run's phase tells the states its row can be in (before the
request nothing has gone out, after an acceptance it has); two runs never hold one row;
only uncertain rows are reconciled. A second email for a window would need a second
active claim.

### IntegrationKeys

| theorem | states |
| --- | --- |
| `TypeCorrect` | `[]TypeOK` |
| `ResealingHolds` | `[]ResealingStored` |
| `NewestSecretSurvives` | `[]NewestSecretKept` |
| `AgreementHolds` | `Recorded => []Agreement`, the inductive invariant |
| `Readable` | `Recorded => []AlwaysReadable` |
| `NoCorruptWindow` | `Recorded => []NeverLooksCorrupt` |

- `Agreement`: every envelope, stored, just read or about to be written, is sealed with the
  key of the generation it names; stored rows are one generation behind at most; the
  environment has the keys they need.
- It is an invariant only once the first key is on record. `Recorded` is a constant, so
  that both cases are instances: TLC checks the theorems' statements with it
  (`integration_keys`), and shows that `NeverLooksCorrupt` fails without it
  (`integration_first_key`, a finding). `NewestSecretSurvives` holds in both.

### DocumentStorage

| theorem | states |
| --- | --- |
| `TypeCorrect` | `[]TypeOK`, from `TypeOK /\ Retriable` |
| `CustodyHolds` | `[]Custody`, the inductive invariant of the bytes |
| `DocumentsKeepBytes` | `[]DocumentKeepsBytes` |
| `OrphansRemembered` | `[]NoOrphanForgotten` |
| `ProcessedStays` | `ProcessedIsFinal` |
| `ReviewHolds` | `[]Review` |
| `PurgedWasReviewed` | `PurgeFollowsReview` |
| `AlertsHold` | `[]Alerts` |
| `NoSilencedDeath` | `[]AlertedWasAnnounced` |

- `TypeOK` bounds the attempts of a job, and a failure counts one more: a job to be worked
  has an attempt left (`Retriable`).
- `Custody`: a deletion job exists only for a settled reservation without a document
  (`JobsAreDue`), and whatever can still erase the path of an upload, a run that has lost
  its claim or an erase whose answer was lost, goes back to that path's job
  (`HoldsDueJob`, `LateIsDue`). Hence no late erase meets a document. In the other
  direction, a run that erased still finds nothing at its path when it records
  success (`ErasedIsGone`), so marking a job processed forgets no bytes.
- `Review`: an authorization of the current revision means that nothing changed since the
  owner's review; authorizations of older revisions may exist and match no claim.
- `Alerts`: a run that has delivered the alert of its claim told an operator of this death.

### Billing

| theorem | states |
| --- | --- |
| `TypeCorrect` | `[](TypeOK /\ Placed)` |
| `AuthorityHolds` | `[]Authority` |
| `CapabilitiesKeepOwner` | `[]CapabilityKeepsOwner` |
| `PaymentsHold` | `[]Payments` |
| `OneSubscription` | `[]OneLiveSubscription` |
| `PaidStaysKnown` | `[]PaidIsNotForgotten` |
| `ReleasedStays` | `ReleaseIsFinal`: a released grant stays as it is (stated with its proof) |

- `Placed` is what `TypeOK` needs to be inductive: requests, calls, sessions and portals
  belong to grants that exist, are of their kind and have got that far, and a Checkout
  request that records its capability has an attempt. A grant row typed by the
  database's constraints may be advanced only because of it.
- `Authority`: at most one grant is open, and its actor is the owner (the interlock on the
  transfer of ownership); one attempt is pending, and an older one has elapsed or was
  paid; a session that can still be paid belongs to the open grant; a call on
  the wire is its grant's only one and precedes any session; a request working at Stripe
  is the only one on its attempt. Elapsing of an attempt is what separates it from
  the next: its key, its session and the requests that worked on it have all ended.
- `Payments`: while a session can be paid, or a call that creates one is on the wire, no
  subscription is live. The step that matters is between listing Stripe's subscriptions
  and creating the session. The request that listed holds a grant that is CLAIMED, a
  session that can be paid has a grant beyond CLAIMED, and only one grant is open: so
  nothing else can be paid meanwhile, and if the grant was released and replaced meanwhile
  the request's own conditional updates fail. A live subscription is that of the last
  completed session, and is recorded locally or its attempt is still the
  one the completion event will be matched with.

### Only model-checked

- `NothingStaysStuck`, `InterruptedIsQuarantined` and `OrphanErasedOrReported`: they need
  fairness, and with it ENABLED, which the prover does not handle.
- The violation runs, whose purpose is a counterexample: `operator_reset`,
  `second_factor_locks` and `integration_first_key`.

## 6. Not modelled

See "components" in `PROJECT.json`. Of the modelled parts, these are left out: rate
limits and lockouts, audit events other than the replay evidence, the contents of
emails, the security notices and operator alerts that go through the same claim protocol
on two more tables, enrolment and recovery codes of the second factor, the operator
realm's own sessions, the console's update of a tenant, how generated deadlines compute
their dates, the edits of a document's metadata and its links to standards, the
recovery-enforcement binding and the retention policies of documents, Confluence's rows
in the deletion table, the Stripe customer, and the status columns that
`customer.subscription.updated` and `deleted` write (two overlapping deliveries may
leave the older of two retrievals behind; that hazard is listed without a property). The
governance records, the web application and the deployment scripts, which are most of
the repository's lines, hold little state that several actors change at once.

## 7. Plan

Modelled since the first version of this plan: `DocumentStorage` and `Billing`; the two
runs of `Accounts` became one. Next, in this order, each with its own run or in place
of a smaller one:
1. The subscription's status under overlapping webhook deliveries, in `Billing`.
2. `Billing` composed with `Accounts`: the interlock inside the transfer of ownership.
3. `ConnectorRequests`: idempotency records and one-shot approvals. Abstract
   specification: one execution per key.
4. `ConfluenceRefresh` and `Publication`: the refresh claim with a rotated token lost,
   publication attempts against a provider that may or may not have acted.
5. `SecondFactor`: enrolment, attempts, recovery codes; operator sessions.
6. The scheduler's leases, in place of the fairness assumed now.

Theorems to prove next, now that the safety properties have theirs: abstract
specifications for what three components promise, with the refinement proved as for
`OneTimeLink`: a store in which a document's bytes outlive everything but a reviewed
purge (`DocumentStorage`), a till that one payer at a time may use (`Billing`), and
`Accounts`' atomic revocation, and its two-step serializable commands, for the
transactions of `SessionLocks`.
