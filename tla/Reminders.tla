------------------------------ MODULE Reminders -----------------------------
(***************************************************************************)
(* Email reminders of one deadline to one owner: the daily run of          *)
(* deadline-reminders.service.ts, the changes deadline.service.ts makes to *)
(* the deadline and team-lifecycle.service.ts to its owner meanwhile, and  *)
(* the operator's command jobs/reconcile-deadline-reminder.ts.             *)
(*                                                                         *)
(* A run reads the deadline, reserves a log row in a transaction that      *)
(* locks the deadline, checks the deadline again, marks the row SENDING,   *)
(* calls the provider and finalizes the row; each is a step, and runs      *)
(* overlap, stall and die between any two of them.                         *)
(***************************************************************************)
EXTENDS Naturals

CONSTANTS
    Log,          \* DeadlineReminderLog ids
    Worker,       \* runs of sendDueReminders
    Window,       \* the reminderDays the deadline may be configured with
    MaxDays,      \* bound on the days until the deadline is due
    MaxVersion    \* bound on scheduleVersion

ASSUME WindowAssumption == Window \subseteq Nat
ASSUME BoundAssumption == MaxDays \in Nat /\ MaxVersion \in Nat

VARIABLES
    deadline,    \* the Deadline row
    entitled,    \* recipient, subscription and organisation admit reminders
    row,         \* DeadlineReminderLog rows
    worker,      \* what each run has read and where it is
    inFlight,    \* rows whose provider call ended without an answer
    delivered    \* rows whose email the provider delivered

vars == <<deadline, entitled, row, worker, inFlight, delivered>>

-----------------------------------------------------------------------------
Status == {"NONE", "RESERVED", "SENDING", "SENT", "FAILED", "UNCERTAIN", "SKIPPED"}
Evidence == {"ACCEPTED_CONFIRMED", "NOT_ACCEPTED_CONFIRMED", "UNKNOWN_ACKNOWLEDGED"}
Outcome == {"ACCEPTED", "REJECTED", "UNCERTAIN"}

\* open: neither complete nor superseded nor archived.  days until it is due.
Deadline == [open: BOOLEAN, version: Nat, days: Nat, windows: SUBSET Window]

\* stale: the reservation, or the provider request, is older than
\* REMINDER_RESERVATION_STALE_MS.  reconciled: reconciliationOutcome.
Row == [status: Status, window: Nat, version: Nat, stale: BOOLEAN,
        reconciled: {"NONE"} \cup Evidence]

Idle == [phase |-> "idle"]
Running == [phase: {"running"}]
Selected == [phase: {"selected"}, window: Window, version: Nat]
Holding == [phase: {"reserved", "checked", "sending"} \cup Outcome, log: Log,
            window: Window, version: Nat]

\* The deadline, the log rows and the runs keep their types.
TypeOK ==
    /\ deadline \in Deadline
    /\ entitled \in BOOLEAN
    /\ row \in [Log -> Row]
    /\ worker \in [Worker -> {Idle} \cup Running \cup Selected \cup Holding]
    /\ inFlight \in SUBSET Log
    /\ delivered \in SUBSET Log

NoRow == [status |-> "NONE", window |-> 0, version |-> 0, stale |-> FALSE,
          reconciled |-> "NONE"]

Init ==
    /\ deadline = [open |-> TRUE, version |-> 1, days |-> MaxDays, windows |-> Window]
    /\ entitled = TRUE
    /\ row = [l \in Log |-> NoRow]
    /\ worker = [w \in Worker |-> Idle]
    /\ inFlight = {}
    /\ delivered = {}

-----------------------------------------------------------------------------
(* The run *)

Go(w, state) == worker' = [worker EXCEPT ![w] = state]
At(w, phase) == worker[w].phase = phase
Move(w, phase) == Go(w, [worker[w] EXCEPT !.phase = phase])

Quarantined(x) == [x EXCEPT !.status = "UNCERTAIN", !.stale = FALSE]

\* Mutant: stale provider requests are left alone.
RunStartBare(w) ==
    /\ At(w, "idle")
    /\ Go(w, [phase |-> "running"])
    /\ UNCHANGED <<deadline, entitled, row, inFlight, delivered>>

\* A run begins by quarantining every stale provider request.
RunStart(w) ==
    /\ At(w, "idle")
    /\ row' = [l \in Log |-> IF row[l].status = "SENDING" /\ row[l].stale
                               THEN Quarantined(row[l]) ELSE row[l]]
    /\ Go(w, [phase |-> "running"])
    /\ UNCHANGED <<deadline, entitled, inFlight, delivered>>

\* The smallest configured window that has been reached.
Reached == {v \in deadline.windows : deadline.days <= v}
Applicable(v) == v \in Reached /\ \A x \in Reached : v <= x

\* The page of open deadlines is read and the window chosen ...
Select(w, v) ==
    /\ At(w, "running")
    /\ entitled /\ deadline.open
    /\ Applicable(v)
    /\ Go(w, [phase |-> "selected", window |-> v, version |-> deadline.version])
    /\ UNCHANGED <<deadline, entitled, row, inFlight, delivered>>

\* ... or there is nothing to remind of.
SelectNone(w) ==
    /\ At(w, "running")
    /\ ~(entitled /\ deadline.open) \/ Reached = {}
    /\ Go(w, Idle)
    /\ UNCHANGED <<deadline, entitled, row, inFlight, delivered>>

\* The deadline is still the one the run has read.
Current(w) ==
    /\ entitled /\ deadline.open
    /\ deadline.version = worker[w].version
    /\ worker[w].window \in deadline.windows

\* A delivery claim: nothing else may be sent for its window.
Active(l) ==
    \/ row[l].status \in {"RESERVED", "SENDING", "SENT"}
    \/ row[l].status = "UNCERTAIN" /\ row[l].reconciled # "NOT_ACCEPTED_CONFIRMED"

Claims(w) == {l \in Log : /\ Active(l)
                          /\ row[l].window = worker[w].window
                          /\ row[l].version = worker[w].version}
Expirable(l) == row[l].status = "RESERVED" /\ row[l].stale

\* reserveReminderLog: an expired reservation is skipped in favour of a new one.
Reserve(w, l) ==
    /\ At(w, "selected")
    /\ Current(w)
    /\ \A x \in Claims(w) : Expirable(x)
    /\ row[l].status = "NONE"
    /\ row' = [x \in Log |->
                 CASE x = l         -> [NoRow EXCEPT !.status = "RESERVED",
                                                     !.window = worker[w].window,
                                                     !.version = worker[w].version]
                   [] x \in Claims(w) -> [row[x] EXCEPT !.status = "SKIPPED"]
                   [] OTHER         -> row[x]]
    /\ Go(w, [phase |-> "reserved", log |-> l, window |-> worker[w].window,
              version |-> worker[w].version])
    /\ UNCHANGED <<deadline, entitled, inFlight, delivered>>

ReserveRefused(w) ==
    /\ At(w, "selected")
    /\ ~Current(w) \/ \E x \in Claims(w) : ~Expirable(x)
    /\ Go(w, Idle)
    /\ UNCHANGED <<deadline, entitled, row, inFlight, delivered>>

\* The deadline is read again, outside any transaction; the reservation is
\* given up when it has changed.
Check(w) ==
    /\ At(w, "reserved")
    /\ IF Current(w)
         THEN Move(w, "checked") /\ UNCHANGED row
         ELSE /\ row' = [row EXCEPT ![worker[w].log].status =
                           IF @ = "RESERVED" THEN "SKIPPED" ELSE @]
              /\ Go(w, Idle)
    /\ UNCHANGED <<deadline, entitled, inFlight, delivered>>

\* Mutant: the run goes on although its reservation has expired.
BeginUnclaimed(w) ==
    /\ At(w, "checked")
    /\ row' = [row EXCEPT ![worker[w].log].status = "SENDING",
                          ![worker[w].log].stale = FALSE]
    /\ Move(w, "sending")
    /\ UNCHANGED <<deadline, entitled, inFlight, delivered>>

\* RESERVED becomes SENDING, unless the reservation was taken away.
Begin(w) ==
    /\ At(w, "checked")
    /\ IF row[worker[w].log].status = "RESERVED"
         THEN /\ row' = [row EXCEPT ![worker[w].log].status = "SENDING",
                                    ![worker[w].log].stale = FALSE]
              /\ Move(w, "sending")
         ELSE Go(w, Idle) /\ UNCHANGED row
    /\ UNCHANGED <<deadline, entitled, inFlight, delivered>>

\* sendDeadlineReminder: the provider (external) answers, or does not.
Send(w, outcome) ==
    /\ At(w, "sending")
    /\ Move(w, outcome)
    /\ delivered' = IF outcome = "ACCEPTED" THEN delivered \cup {worker[w].log} ELSE delivered
    /\ inFlight' = IF outcome = "UNCERTAIN" THEN inFlight \cup {worker[w].log} ELSE inFlight
    /\ UNCHANGED <<deadline, entitled, row>>

\* Mutant: the outcome is stored as it is.
FinalRaw(outcome) == outcome

\* Mutant: no answer is taken for a rejection.
FinalTimeoutFails(outcome) == IF outcome = "ACCEPTED" THEN "SENT" ELSE "FAILED"

\* finalReminderStatus.
Final(outcome) == CASE outcome = "ACCEPTED" -> "SENT"
                    [] outcome = "REJECTED" -> "FAILED"
                    [] outcome = "UNCERTAIN" -> "UNCERTAIN"

\* Mutant: the answer is written over an operator's evidence.
OwnedRegardless(l) == row[l].status \in {"SENDING", "UNCERTAIN"}

\* The where clause of the finalizing updateMany.
Owned(l) == row[l].status \in {"SENDING", "UNCERTAIN"} /\ row[l].reconciled = "NONE"

Finalize(w) ==
    /\ worker[w].phase \in Outcome
    /\ LET l == worker[w].log IN
         row' = IF Owned(l) THEN [row EXCEPT ![l].status = Final(worker[w].phase),
                                             ![l].stale = FALSE]
                            ELSE row
    /\ Go(w, Idle)
    /\ UNCHANGED <<deadline, entitled, inFlight, delivered>>

\* The process dies; a provider call under way may have gone out.
Crash(w) ==
    /\ ~At(w, "idle")
    /\ inFlight' = IF At(w, "sending") THEN inFlight \cup {worker[w].log} ELSE inFlight
    /\ Go(w, Idle)
    /\ UNCHANGED <<deadline, entitled, row, delivered>>

\* The provider (external) delivers what it never acknowledged.
LateDelivery(l) ==
    /\ l \in inFlight
    /\ delivered' = delivered \cup {l}
    /\ inFlight' = inFlight \ {l}
    /\ UNCHANGED <<deadline, entitled, row, worker>>

-----------------------------------------------------------------------------
(* The operator *)

\* What the operator found out is true: the provider has not accepted the
\* message, and no run will still call it.
Conclusive(l, evidence) ==
    CASE evidence = "ACCEPTED_CONFIRMED"     -> l \in delivered
      [] evidence = "NOT_ACCEPTED_CONFIRMED" ->
           /\ l \notin delivered
           /\ \A w \in Worker : ~(At(w, "sending") /\ worker[w].log = l)
      [] evidence = "UNKNOWN_ACKNOWLEDGED"   -> TRUE

\* reconcile --id --outcome.
Reconcile(l, evidence) ==
    /\ row[l].status = "UNCERTAIN" /\ row[l].reconciled = "NONE"
    /\ Conclusive(l, evidence)
    /\ row' = [row EXCEPT ![l].reconciled = evidence]
    /\ inFlight' = IF evidence = "NOT_ACCEPTED_CONFIRMED" THEN inFlight \ {l} ELSE inFlight
    /\ UNCHANGED <<deadline, entitled, worker, delivered>>

\* prepare-cutover: every scheduler is stopped.
PrepareCutover ==
    /\ \A w \in Worker : At(w, "idle")
    /\ row' = [l \in Log |->
                 CASE row[l].status = "RESERVED" -> [row[l] EXCEPT !.status = "SKIPPED"]
                   [] row[l].status = "SENDING"  -> Quarantined(row[l])
                   [] OTHER                      -> row[l]]
    /\ row' # row
    /\ UNCHANGED <<deadline, entitled, worker, inFlight, delivered>>

-----------------------------------------------------------------------------
(* What else happens to the deadline *)

\* update: a new due date, or reopening a completed deadline, is a new schedule.
Reschedule(days) ==
    /\ deadline.version < MaxVersion
    /\ deadline' = [deadline EXCEPT !.open = TRUE, !.days = days, !.version = @ + 1]
    /\ deadline.open => days # deadline.days
    /\ UNCHANGED <<entitled, row, worker, inFlight, delivered>>

\* update of isComplete, remove, or a generated deadline being superseded.  Only
\* the first can be undone; one that never is stands for the other two.
Close ==
    /\ deadline.open
    /\ deadline' = [deadline EXCEPT !.open = FALSE]
    /\ UNCHANGED <<entitled, row, worker, inFlight, delivered>>

\* update of reminderDays keeps the schedule.
Reconfigure(windows) ==
    /\ windows # deadline.windows
    /\ deadline' = [deadline EXCEPT !.windows = windows]
    /\ UNCHANGED <<entitled, row, worker, inFlight, delivered>>

\* The subscription or the organisation lapses or returns, or the owner does:
\* reservations are left to the runs that made them.
ChangeEntitlement ==
    /\ entitled' = ~entitled
    /\ UNCHANGED <<deadline, row, worker, inFlight, delivered>>

\* The owner hands over the ownership, or the former one is suspended or removed:
\* cancelReservedReminders skips the reservations S in the same transaction.  The
\* SERIALIZABLE transfer misses those made since its snapshot.
LoseMembership(S) ==
    /\ \A l \in S : row[l].status = "RESERVED"
    /\ entitled' = FALSE
    /\ row' = [l \in Log |-> IF l \in S THEN [row[l] EXCEPT !.status = "SKIPPED"] ELSE row[l]]
    /\ UNCHANGED <<deadline, worker, inFlight, delivered>>

NextDay ==
    /\ deadline.days > 0
    /\ deadline' = [deadline EXCEPT !.days = @ - 1]
    /\ UNCHANGED <<entitled, row, worker, inFlight, delivered>>

GoStale(l) ==
    /\ row[l].status \in {"RESERVED", "SENDING"} /\ ~row[l].stale
    /\ row' = [row EXCEPT ![l].stale = TRUE]
    /\ UNCHANGED <<deadline, entitled, worker, inFlight, delivered>>

-----------------------------------------------------------------------------
Run(w) ==
    \/ RunStart(w) \/ SelectNone(w) \/ ReserveRefused(w) \/ Check(w)
    \/ Begin(w) \/ Finalize(w) \/ Crash(w)
    \/ \E v \in Window : Select(w, v)
    \/ \E l \in Log : Reserve(w, l)
    \/ \E o \in Outcome : Send(w, o)

Next ==
    \/ \E w \in Worker : Run(w)
    \/ \E l \in Log : LateDelivery(l) \/ GoStale(l)
    \/ \E l \in Log, e \in Evidence : Reconcile(l, e)
    \/ PrepareCutover
    \/ \E d \in 0..MaxDays : Reschedule(d)
    \/ \E W \in SUBSET Window : Reconfigure(W)
    \/ \E S \in SUBSET Log : LoseMembership(S)
    \/ Close \/ ChangeEntitlement \/ NextDay

Spec == Init /\ [][Next]_vars

\* The scheduler starts the run every day, a run that has started goes on or
\* dies, and time passes.
Fairness ==
    /\ \A l \in Log : WF_vars(GoStale(l))
    /\ \A w \in Worker : WF_vars(Run(w))

FairSpec == Spec /\ Fairness

-----------------------------------------------------------------------------
(* Safety *)

\* "Each configured window fires at most once": of all rows for one window of
\* one schedule at most one is ever delivered, through stalled runs, expired
\* reservations, rejected attempts and reconciliations.
OneEmailPerWindow ==
    \A l, x \in delivered :
        row[l].window = row[x].window /\ row[l].version = row[x].version => l = x

\* An operator's evidence is final, also against a run that finalizes late.
ReconciliationIsFinal ==
    [][\A l \in Log : row[l].reconciled # "NONE" => row'[l] = row[l]]_vars

\* A row that promises nothing was sent is right: no SKIPPED or FAILED reminder
\* was delivered.
UnsentIsUndelivered ==
    \A l \in delivered \cup inFlight : row[l].status \in {"SENDING", "UNCERTAIN", "SENT"}

\* An interrupted provider call does not stay SENDING for ever.
InterruptedIsQuarantined ==
    \A l \in Log : row[l].status = "SENDING" ~> row[l].status # "SENDING"
=============================================================================
