-------------------------- MODULE Reminders_proofs --------------------------
(***************************************************************************)
(* The theorems about Reminders, for every set of log rows, runs and       *)
(* windows.  The inductive invariant is Ledger: a window of a schedule has *)
(* one active claim, whatever was or may still be delivered is an active   *)
(* claim, and a run's phase tells the state its row can be in.             *)
(***************************************************************************)
EXTENDS Reminders, TLAPS

Hot == delivered \cup inFlight
Held(w) == worker[w].phase \in {"reserved", "checked", "sending"} \cup Outcome

\* "Claims for the window" never has two members.
OneClaimPerWindow ==
    \A l, x \in Log :
        /\ Active(l) /\ Active(x)
        /\ row[l].window = row[x].window /\ row[l].version = row[x].version
        => l = x

\* What has been or may be delivered still occupies its window.
HotIsActive == \A l \in Hot : Active(l) /\ row[l].status # "RESERVED"

\* What a run knows about its row: not yet begun, begun and not out, answered.
HeldRow(w) ==
    LET l == worker[w].log IN
      /\ worker[w].phase \in {"reserved", "checked"} =>
           row[l].status \in {"RESERVED", "SKIPPED"}
      /\ worker[w].phase \in {"sending"} \cup Outcome =>
           row[l].status \in {"SENDING", "UNCERTAIN"}
      /\ worker[w].phase = "sending" => Active(l)
      /\ worker[w].phase \in {"sending", "REJECTED"} => l \notin Hot
      /\ worker[w].phase = "ACCEPTED" => l \in delivered

HeldRows == \A w \in Worker : Held(w) => HeldRow(w)
HeldOnce ==
    \A v, w \in Worker : Held(v) /\ Held(w) /\ worker[v].log = worker[w].log => v = w

\* Evidence is only filed for uncertain rows.
ReconciledIsUncertain ==
    \A l \in Log : row[l].reconciled # "NONE" => row[l].status = "UNCERTAIN"

Ledger ==
    /\ OneClaimPerWindow
    /\ HotIsActive
    /\ HeldRows
    /\ HeldOnce
    /\ ReconciledIsUncertain

-----------------------------------------------------------------------------
(* Type correctness *)

\* The phase of a run decides what it carries.
LEMMA WorkerType ==
    ASSUME TypeOK, NEW w \in Worker
    PROVE  /\ At(w, "selected") => worker[w] \in Selected
           /\ Held(w) => worker[w] \in Holding
           /\ worker[w].phase \in {"idle", "running", "selected"} => ~Held(w)
BY DEF TypeOK, At, Held, Idle, Running, Selected, Holding, Outcome

\* Moving to another phase keeps what a run carries.
LEMMA MoveType ==
    ASSUME TypeOK, NEW w \in Worker, Held(w),
           NEW phase \in {"reserved", "checked", "sending"} \cup Outcome, Move(w, phase)
    PROVE  worker' \in [Worker -> {Idle} \cup Running \cup Selected \cup Holding]
<1>1. worker[w] \in Holding
  BY WorkerType
<1>2. [worker[w] EXCEPT !.phase = phase] \in Holding
  BY <1>1 DEF Holding
<1> QED
  BY <1>2 DEF Move, Go, TypeOK

\* Going idle is always possible.
LEMMA IdleType ==
    ASSUME TypeOK, NEW w \in Worker, Go(w, Idle)
    PROVE  worker' \in [Worker -> {Idle} \cup Running \cup Selected \cup Holding]
BY DEF Go, TypeOK

\* A row's status, staleness and evidence can be rewritten.
LEMMA RowType ==
    ASSUME NEW x \in Row
    PROVE  /\ \A s \in Status : [x EXCEPT !.status = s] \in Row
           /\ \A s \in Status : [x EXCEPT !.status = s, !.stale = FALSE] \in Row
           /\ [x EXCEPT !.stale = TRUE] \in Row
           /\ \A e \in Evidence : [x EXCEPT !.reconciled = e] \in Row
           /\ Quarantined(x) \in Row
BY DEF Row, Quarantined, Status

\* The deadline is open and nothing has been sent.
LEMMA TypeInit == Init => TypeOK
BY BoundAssumption DEF Init, TypeOK, Deadline, Row, NoRow, Status

\* Every step of a run, of the operator and of the deadline keeps the types.
LEMMA TypeNext == TypeOK /\ [Next]_vars => TypeOK'
<1> SUFFICES ASSUME TypeOK, [Next]_vars PROVE TypeOK'
  OBVIOUS
<1>0. \A l \in Log : row[l] \in Row
  BY DEF TypeOK
<1>1. ASSUME NEW w \in Worker, RunStart(w)
      PROVE  TypeOK'
  <2>1. row' \in [Log -> Row]
    BY <1>0, <1>1, RowType DEF RunStart
  <2>2. worker' \in [Worker -> {Idle} \cup Running \cup Selected \cup Holding]
    BY <1>1 DEF RunStart, Go, TypeOK, Running
  <2> QED
    BY <1>1, <2>1, <2>2 DEF RunStart, TypeOK
<1>2. ASSUME NEW w \in Worker, NEW v \in Window, Select(w, v)
      PROVE  TypeOK'
  <2>1. [phase |-> "selected", window |-> v, version |-> deadline.version] \in Selected
    BY DEF TypeOK, Deadline, Selected
  <2> QED
    BY <1>2, <2>1 DEF Select, Go, TypeOK
<1>3. ASSUME NEW w \in Worker, SelectNone(w) \/ ReserveRefused(w)
      PROVE  TypeOK'
  BY <1>3, IdleType DEF SelectNone, ReserveRefused, TypeOK
<1>4. ASSUME NEW w \in Worker, NEW l \in Log, Reserve(w, l)
      PROVE  TypeOK'
  <2>1. worker[w] \in Selected
    BY <1>4, WorkerType DEF Reserve
  <2>2. worker[w].window \in Window /\ worker[w].window \in Nat /\ worker[w].version \in Nat
    BY <2>1, WindowAssumption DEF Selected
  <2>3. [NoRow EXCEPT !.status = "RESERVED", !.window = worker[w].window,
                      !.version = worker[w].version] \in Row
    BY <2>2 DEF NoRow, Row, Status
  <2>4. [phase |-> "reserved", log |-> l, window |-> worker[w].window,
         version |-> worker[w].version] \in Holding
    BY <2>2 DEF Holding
  <2>5. \A x \in Log : [row[x] EXCEPT !.status = "SKIPPED"] \in Row
    BY <1>0, RowType DEF Status
  <2>6. row' \in [Log -> Row]
    BY <1>0, <1>4, <2>3, <2>5 DEF Reserve
  <2> QED
    BY <1>4, <2>4, <2>6 DEF Reserve, Go, TypeOK
<1>5. ASSUME NEW w \in Worker, Check(w)
      PROVE  TypeOK'
  <2>1. Held(w) /\ worker[w].log \in Log
    BY <1>5, WorkerType DEF Check, At, Held, Holding
  <2>2. CASE Move(w, "checked") /\ row' = row
    BY <1>5, <2>1, <2>2, MoveType DEF Check, TypeOK
  <2>3. CASE /\ row' = [row EXCEPT ![worker[w].log].status = IF @ = "RESERVED" THEN "SKIPPED" ELSE @]
             /\ Go(w, Idle)
    <3>1. row[worker[w].log] \in Row
      BY <1>0, <2>1
    <3>2. [row[worker[w].log] EXCEPT !.status = IF @ = "RESERVED" THEN "SKIPPED" ELSE @] \in Row
      BY <3>1 DEF Row, Status
    <3>3. row' \in [Log -> Row]
      BY <2>3, <3>2 DEF TypeOK
    <3> QED
      BY <1>5, <2>3, <3>3, IdleType DEF Check, TypeOK
  <2> QED
    BY <1>5, <2>2, <2>3 DEF Check
<1>6. ASSUME NEW w \in Worker, Begin(w)
      PROVE  TypeOK'
  <2>1. Held(w) /\ worker[w].log \in Log
    BY <1>6, WorkerType DEF Begin, At, Held, Holding
  <2>2. [row[worker[w].log] EXCEPT !.status = "SENDING", !.stale = FALSE] \in Row
    BY <1>0, <2>1, RowType DEF Status
  <2>3. row' \in [Log -> Row]
    BY <1>6, <2>2 DEF Begin, TypeOK
  <2>4. worker' \in [Worker -> {Idle} \cup Running \cup Selected \cup Holding]
    BY <1>6, <2>1, MoveType, IdleType DEF Begin
  <2> QED
    BY <1>6, <2>3, <2>4 DEF Begin, TypeOK
<1>7. ASSUME NEW w \in Worker, NEW o \in Outcome, Send(w, o)
      PROVE  TypeOK'
  <2>1. Held(w) /\ worker[w].log \in Log
    BY <1>7, WorkerType DEF Send, At, Held, Holding
  <2>2. worker' \in [Worker -> {Idle} \cup Running \cup Selected \cup Holding]
    BY <1>7, <2>1, MoveType DEF Send
  <2> QED
    BY <1>7, <2>1, <2>2 DEF Send, TypeOK
<1>8. ASSUME NEW w \in Worker, Finalize(w)
      PROVE  TypeOK'
  <2>1. Held(w) /\ worker[w].log \in Log
    BY <1>8, WorkerType DEF Finalize, Held, Holding
  <2>2. Final(worker[w].phase) \in Status
    BY <1>8 DEF Finalize, Final, Outcome, Status
  <2>3. [row[worker[w].log] EXCEPT !.status = Final(worker[w].phase), !.stale = FALSE] \in Row
    BY <1>0, <2>1, <2>2, RowType
  <2>4. row' \in [Log -> Row]
    BY <1>8, <2>3 DEF Finalize, TypeOK
  <2> QED
    BY <1>8, <2>4, IdleType DEF Finalize, TypeOK
<1>9. ASSUME NEW w \in Worker, Crash(w)
      PROVE  TypeOK'
  <2>1. At(w, "sending") => worker[w].log \in Log
    BY WorkerType DEF At, Held, Holding
  <2> QED
    BY <1>9, <2>1, IdleType DEF Crash, TypeOK
<1>10. ASSUME NEW l \in Log, LateDelivery(l) \/ GoStale(l)
       PROVE  TypeOK'
  BY <1>0, <1>10, RowType DEF LateDelivery, GoStale, TypeOK
<1>11. ASSUME NEW l \in Log, NEW e \in Evidence, Reconcile(l, e)
       PROVE  TypeOK'
  BY <1>0, <1>11, RowType DEF Reconcile, TypeOK
<1>12. CASE PrepareCutover
  <2>1. \A l \in Log : [row[l] EXCEPT !.status = "SKIPPED"] \in Row /\ Quarantined(row[l]) \in Row
    BY <1>0, RowType DEF Status
  <2>2. row' \in [Log -> Row]
    BY <1>0, <1>12, <2>1 DEF PrepareCutover
  <2> QED
    BY <1>12, <2>2 DEF PrepareCutover, TypeOK
<1>13. CASE (\E d \in 0..MaxDays : Reschedule(d)) \/ NextDay \/ Close
              \/ (\E W \in SUBSET Window : Reconfigure(W))
  <2>1. deadline' \in Deadline
    <3>1. deadline \in Deadline /\ deadline.version + 1 \in Nat
      BY DEF TypeOK, Deadline
    <3>2. ASSUME NEW d \in 0..MaxDays, Reschedule(d) PROVE deadline' \in Deadline
      <4>1. d \in Nat /\ deadline' = [deadline EXCEPT !.open = TRUE, !.days = d,
                                                     !.version = deadline.version + 1]
        BY <3>2, BoundAssumption DEF Reschedule
      <4> QED
        BY <3>1, <4>1 DEF Deadline
    <3>3. CASE NextDay
      <4>1. deadline.days - 1 \in Nat
        BY <3>1, <3>3 DEF NextDay, Deadline
      <4> QED
        BY <3>1, <3>3, <4>1 DEF NextDay, Deadline
    <3>4. CASE Close
      BY <3>1, <3>4 DEF Close, Deadline
    <3>5. ASSUME NEW W \in SUBSET Window, Reconfigure(W) PROVE deadline' \in Deadline
      BY <3>1, <3>5 DEF Reconfigure, Deadline
    <3> QED
      BY <1>13, <3>2, <3>3, <3>4, <3>5
  <2> QED
    BY <1>13, <2>1 DEF Reschedule, NextDay, Close, Reconfigure, TypeOK
<1>14. CASE ChangeEntitlement \/ UNCHANGED vars
  BY <1>14 DEF ChangeEntitlement, vars, TypeOK
<1>15. ASSUME NEW S \in SUBSET Log, LoseMembership(S) PROVE TypeOK'
  <2>1. ASSUME NEW l \in Log PROVE [row[l] EXCEPT !.status = "SKIPPED"] \in Row
    BY DEF TypeOK, Row, Status
  <2>2. row' \in [Log -> Row]
    BY <1>15, <2>1 DEF LoseMembership, TypeOK
  <2> QED
    BY <1>15, <2>2 DEF LoseMembership, TypeOK
<1> QED
  BY <1>1, <1>2, <1>3, <1>4, <1>5, <1>6, <1>7, <1>8, <1>9, <1>10, <1>11, <1>12, <1>13, <1>14,
     <1>15
     DEF Next, Run

\* Type correctness of the whole module.
THEOREM TypeCorrect == Spec => []TypeOK
BY TypeInit, TypeNext, PTL DEF Spec

-----------------------------------------------------------------------------
(* The ledger is inductive *)

\* What most steps do to a row: a stale request is quarantined, a reservation
\* given up.
Aged(l) ==
    /\ row'[l].window = row[l].window /\ row'[l].version = row[l].version
    /\ row'[l].reconciled = row[l].reconciled
    /\ \/ row'[l].status = row[l].status
       \/ row[l].status = "SENDING" /\ row'[l].status = "UNCERTAIN"
       \/ row[l].status = "RESERVED" /\ row'[l].status = "SKIPPED"

\* What most steps do to a run: it goes on with its row before the send, or ends.
Calm(w) ==
    Held(w)' => /\ Held(w) /\ worker'[w].log = worker[w].log
                /\ \/ worker'[w].phase = worker[w].phase
                   \/ {worker[w].phase, worker'[w].phase} \subseteq {"reserved", "checked"}

\* A row that ages is active afterwards only if it was.
LEMMA AgedActive ==
    ASSUME Ledger, NEW l \in Log, Aged(l)
    PROVE  /\ Active(l)' => Active(l)
           /\ Active(l) => Active(l)' \/ row[l].status = "RESERVED"
BY DEF Ledger, ReconciledIsUncertain, Aged, Active

\* Claims that are not new do not collide.
LEMMA ClaimsKept ==
    ASSUME OneClaimPerWindow,
           \A l \in Log : Active(l)' => /\ Active(l)
                                        /\ row'[l].window = row[l].window
                                        /\ row'[l].version = row[l].version
    PROVE  OneClaimPerWindow'
BY DEF OneClaimPerWindow

\* Ageing rows and calm runs keep the ledger.
LEMMA AgedLedger ==
    ASSUME TypeOK, Ledger, \A l \in Log : Aged(l), \A w \in Worker : Calm(w),
           delivered' = delivered, inFlight' = inFlight
    PROVE  Ledger'
<1>1. \A w \in Worker : Held(w) => worker[w].log \in Log
  BY WorkerType DEF Holding
<1>2. Hot' = Hot /\ Hot \subseteq Log
  BY DEF Hot, TypeOK
<1>3. OneClaimPerWindow'
  BY AgedActive, ClaimsKept DEF Aged, Ledger
<1>4. HotIsActive'
  <2> SUFFICES ASSUME NEW l \in Hot PROVE Active(l)' /\ row'[l].status # "RESERVED"
    BY <1>2 DEF HotIsActive
  <2>1. l \in Log /\ Active(l) /\ row[l].status # "RESERVED"
    BY <1>2 DEF Ledger, HotIsActive
  <2> QED
    BY <2>1, AgedActive DEF Aged
<1>5. HeldRows'
  <2> SUFFICES ASSUME NEW w \in Worker, Held(w)' PROVE HeldRow(w)'
    BY DEF HeldRows
  <2>1. PICK l \in Log : /\ worker[w].log = l /\ worker'[w].log = l
                         /\ Held(w) /\ HeldRow(w)
    BY <1>1 DEF Calm, Ledger, HeldRows
  <2>2. \/ worker'[w].phase = worker[w].phase
        \/ {worker[w].phase, worker'[w].phase} \subseteq {"reserved", "checked"}
    BY DEF Calm
  <2>3. /\ worker'[w].phase \in {"reserved", "checked"} =>
             row'[l].status \in {"RESERVED", "SKIPPED"}
        /\ worker'[w].phase \in {"sending"} \cup Outcome =>
             row'[l].status \in {"SENDING", "UNCERTAIN"}
    BY <2>1, <2>2 DEF HeldRow, Aged, Outcome
  <2>4. worker'[w].phase = "sending" => Active(l)'
    BY <2>1, <2>2, AgedActive DEF HeldRow
  <2>5. /\ worker'[w].phase \in {"sending", "REJECTED"} => l \notin Hot'
        /\ worker'[w].phase = "ACCEPTED" => l \in delivered'
    BY <1>2, <2>1, <2>2 DEF HeldRow
  <2> QED
    BY <2>1, <2>3, <2>4, <2>5 DEF HeldRow, Active
<1>6. HeldOnce'
  BY DEF Calm, Ledger, HeldOnce
<1>7. ReconciledIsUncertain'
  BY DEF Aged, Ledger, ReconciledIsUncertain
<1> QED
  BY <1>3, <1>4, <1>5, <1>6, <1>7 DEF Ledger

\* A run that goes somewhere leaves the others where they are.
LEMMA GoEffect ==
    ASSUME TypeOK, NEW w \in Worker, NEW state, Go(w, state)
    PROVE  /\ worker'[w] = state
           /\ \A v \in Worker : v # w => worker'[v] = worker[v] /\ (Held(v)' <=> Held(v))
BY DEF TypeOK, Go, Held

\* A run that goes on with its row keeps it.
LEMMA MoveEffect ==
    ASSUME TypeOK, NEW w \in Worker, Held(w), NEW phase, Move(w, phase)
    PROVE  /\ worker'[w].phase = phase
           /\ worker'[w].log = worker[w].log
           /\ worker[w].log \in Log
           /\ \A v \in Worker : v # w => worker'[v] = worker[v] /\ (Held(v)' <=> Held(v))
<1>1. worker[w] \in Holding
  BY WorkerType
<1>2. worker'[w] = [worker[w] EXCEPT !.phase = phase]
  BY GoEffect DEF Move
<1> QED
  BY <1>1, <1>2, GoEffect DEF Move, Holding

\* Ending a run, or starting one, is calm.
LEMMA LetGoCalm ==
    ASSUME TypeOK, NEW w \in Worker, NEW state, Go(w, state),
           state.phase \in {"idle", "running", "selected"}
    PROVE  \A v \in Worker : Calm(v)
<1>1. ~Held(w)'
  BY GoEffect DEF Held, Outcome
<1> QED
  BY <1>1, GoEffect DEF Calm

\* The reservation takes the place of what it skips.
LEMMA ReserveLedger ==
    ASSUME TypeOK, Ledger, NEW w \in Worker, NEW l \in Log, Reserve(w, l)
    PROVE  Ledger'
<1>1. /\ worker'[w].phase = "reserved" /\ worker'[w].log = l
      /\ \A v \in Worker : v # w => worker'[v] = worker[v] /\ (Held(v)' <=> Held(v))
  BY GoEffect DEF Reserve
<1>2. /\ row[l].status = "NONE" /\ ~Active(l)
      /\ row'[l].status = "RESERVED" /\ row'[l].reconciled = "NONE"
      /\ row'[l].window = worker[w].window /\ row'[l].version = worker[w].version
  <2>1. row[l].status = "NONE" /\ ~Active(l) /\ l \notin Claims(w)
    BY DEF Reserve, Active, Claims
  <2>2. row'[l] = [NoRow EXCEPT !.status = "RESERVED", !.window = worker[w].window,
                                !.version = worker[w].version]
    BY <2>1 DEF Reserve
  <2> QED
    BY <2>1, <2>2 DEF NoRow
<1>3. ASSUME NEW x \in Log, x # l, x \in Claims(w)
      PROVE  /\ row[x].status = "RESERVED" /\ row'[x].status = "SKIPPED"
             /\ row'[x].reconciled = row[x].reconciled
  <2>1. row'[x] = [row[x] EXCEPT !.status = "SKIPPED"] /\ row[x] \in Row
    BY <1>3 DEF Reserve, TypeOK
  <2>2. row[x].status = "RESERVED"
    BY <1>3 DEF Reserve, Expirable
  <2> QED
    BY <2>1, <2>2 DEF Row
<1>4. ASSUME NEW x \in Log, x # l, x \notin Claims(w)
      PROVE  row'[x] = row[x]
  BY <1>4 DEF Reserve
<1>5. delivered' = delivered /\ inFlight' = inFlight /\ Hot' = Hot /\ Hot \subseteq Log
  BY DEF Reserve, Hot, TypeOK
<1>6. \A v \in Worker : Held(v) => worker[v].log \in Log \ {l}
  BY <1>2, WorkerType DEF Holding, Ledger, HeldRows, HeldRow, Held
<1>7. OneClaimPerWindow'
  <2>1. ASSUME NEW x \in Log, x # l, Active(x)'
        PROVE  Active(x) /\ row'[x] = row[x] /\ x \notin Claims(w)
    BY <1>3, <1>4, <2>1 DEF Active
  <2>2. ASSUME NEW x \in Log, x # l, Active(x)',
               row'[x].window = row'[l].window, row'[x].version = row'[l].version
        PROVE  FALSE
    BY <1>2, <2>1, <2>2 DEF Claims
  <2> QED
    BY <2>1, <2>2 DEF Ledger, OneClaimPerWindow
<1>8. HotIsActive'
  BY <1>2, <1>3, <1>4, <1>5 DEF Ledger, HotIsActive, Active
<1>9. HeldRows'
  <2>1. ASSUME NEW v \in Worker, v # w, Held(v)' PROVE HeldRow(v)'
    <3>1. Held(v) /\ worker'[v] = worker[v] /\ worker[v].log \in Log \ {l} /\ HeldRow(v)
      BY <1>1, <1>6, <2>1 DEF Ledger, HeldRows
    <3> QED
      BY <1>3, <1>4, <1>5, <3>1 DEF HeldRow, Active, Outcome
  <2>2. HeldRow(w)'
    BY <1>1, <1>2 DEF HeldRow, Outcome
  <2> QED
    BY <2>1, <2>2 DEF HeldRows
<1>10. HeldOnce'
  BY <1>1, <1>6 DEF Ledger, HeldOnce
<1>11. ReconciledIsUncertain'
  BY <1>2, <1>3, <1>4 DEF Ledger, ReconciledIsUncertain
<1> QED
  BY <1>7, <1>8, <1>9, <1>10, <1>11 DEF Ledger

\* The reservation becomes a provider request.
LEMMA BeginLedger ==
    ASSUME TypeOK, Ledger, NEW w \in Worker, At(w, "checked"),
           row[worker[w].log].status = "RESERVED",
           row' = [row EXCEPT ![worker[w].log].status = "SENDING",
                              ![worker[w].log].stale = FALSE],
           Move(w, "sending"), delivered' = delivered, inFlight' = inFlight
    PROVE  Ledger'
<1>1. Held(w)
  BY DEF At, Held
<1>2. PICK l \in Log : worker[w].log = l
  BY <1>1, WorkerType DEF Holding
<1>3. /\ worker'[w].phase = "sending" /\ worker'[w].log = l
      /\ \A v \in Worker : v # w => worker'[v] = worker[v] /\ (Held(v)' <=> Held(v))
  BY <1>1, <1>2, MoveEffect
<1>4. /\ row[l].status = "RESERVED" /\ row'[l].status = "SENDING"
      /\ row'[l].window = row[l].window /\ row'[l].version = row[l].version
      /\ row'[l].reconciled = row[l].reconciled /\ row[l].reconciled = "NONE"
      /\ \A x \in Log : x # l => row'[x] = row[x]
  BY <1>2 DEF TypeOK, Row, Ledger, ReconciledIsUncertain
<1>5. Hot' = Hot /\ Hot \subseteq Log /\ l \notin Hot
  BY <1>4 DEF Hot, TypeOK, Ledger, HotIsActive
<1>6. \A v \in Worker : v # w /\ Held(v) => worker[v].log \in Log \ {l}
  BY <1>1, <1>2, WorkerType DEF Holding, Ledger, HeldOnce
<1>7. \A x \in Log : Active(x)' <=> Active(x)
  BY <1>4 DEF Active
<1>8. OneClaimPerWindow'
  BY <1>4, <1>7, ClaimsKept DEF Ledger
<1>9. HotIsActive'
  BY <1>4, <1>5, <1>7 DEF Ledger, HotIsActive
<1>10. HeldRows'
  <2>1. ASSUME NEW v \in Worker, v # w, Held(v)' PROVE HeldRow(v)'
    <3>1. Held(v) /\ worker'[v] = worker[v] /\ worker[v].log \in Log \ {l} /\ HeldRow(v)
      BY <1>3, <1>6, <2>1 DEF Ledger, HeldRows
    <3> QED
      BY <1>4, <1>5, <3>1 DEF HeldRow, Active, Outcome
  <2>2. HeldRow(w)'
    BY <1>3, <1>4, <1>5 DEF HeldRow, Active, Outcome
  <2> QED
    BY <2>1, <2>2 DEF HeldRows
<1>11. HeldOnce'
  BY <1>2, <1>3, <1>6 DEF Ledger, HeldOnce
<1>12. ReconciledIsUncertain'
  BY <1>4 DEF Ledger, ReconciledIsUncertain
<1> QED
  BY <1>8, <1>9, <1>10, <1>11, <1>12 DEF Ledger

\* The provider's answer, or its silence.
LEMMA SendLedger ==
    ASSUME TypeOK, Ledger, NEW w \in Worker, NEW o \in Outcome, Send(w, o)
    PROVE  Ledger'
<1>1. Held(w) /\ worker[w].phase = "sending"
  BY DEF Send, At, Held
<1>2. PICK l \in Log : worker[w].log = l
  BY <1>1, WorkerType DEF Holding
<1>3. /\ worker'[w].phase = o /\ worker'[w].log = l
      /\ \A v \in Worker : v # w => worker'[v] = worker[v] /\ (Held(v)' <=> Held(v))
  BY <1>1, <1>2, MoveEffect DEF Send
<1>4. row' = row /\ \A x \in Log : Active(x)' <=> Active(x)
  BY DEF Send, Active
<1>5. row[l].status \in {"SENDING", "UNCERTAIN"} /\ Active(l) /\ l \notin Hot
  BY <1>1, <1>2 DEF Ledger, HeldRows, HeldRow
<1>6. /\ Hot' \subseteq Hot \cup {l} /\ Hot \subseteq Log
      /\ delivered \subseteq delivered'
      /\ o = "REJECTED" => Hot' = Hot
      /\ o = "ACCEPTED" => l \in delivered'
  BY <1>2 DEF Send, Hot, TypeOK
<1>7. \A v \in Worker : v # w /\ Held(v) => worker[v].log \in Log \ {l}
  BY <1>1, <1>2, WorkerType DEF Holding, Ledger, HeldOnce
<1>8. OneClaimPerWindow' /\ ReconciledIsUncertain'
  BY <1>4 DEF Ledger, OneClaimPerWindow, ReconciledIsUncertain
<1>9. HotIsActive'
  BY <1>4, <1>5, <1>6 DEF Ledger, HotIsActive
<1>10. HeldRows'
  <2>1. ASSUME NEW v \in Worker, v # w, Held(v)' PROVE HeldRow(v)'
    <3>1. Held(v) /\ worker'[v] = worker[v] /\ worker[v].log \in Log \ {l} /\ HeldRow(v)
      BY <1>3, <1>7, <2>1 DEF Ledger, HeldRows
    <3> QED
      BY <1>4, <1>6, <3>1 DEF HeldRow, Active
  <2>2. HeldRow(w)'
    BY <1>3, <1>4, <1>5, <1>6 DEF HeldRow, Outcome
  <2> QED
    BY <2>1, <2>2 DEF HeldRows
<1>11. HeldOnce'
  BY <1>1, <1>2, <1>3, <1>7 DEF Ledger, HeldOnce
<1> QED
  BY <1>8, <1>9, <1>10, <1>11 DEF Ledger

\* The answer is filed, unless an operator's evidence is there already.
LEMMA FinalizeLedger ==
    ASSUME TypeOK, Ledger, NEW w \in Worker, Finalize(w)
    PROVE  Ledger'
<1>1. Held(w) /\ worker[w].phase \in Outcome
  BY DEF Finalize, Held
<1>2. PICK l \in Log : worker[w].log = l
  BY <1>1, WorkerType DEF Holding
<1>3. /\ ~Held(w)'
      /\ \A v \in Worker : v # w => worker'[v] = worker[v] /\ (Held(v)' <=> Held(v))
  BY GoEffect DEF Finalize, Idle, Held, Outcome
<1>4. /\ \A x \in Log : x # l => row'[x] = row[x]
      /\ \/ row'[l] = row[l]
         \/ /\ row[l].status \in {"SENDING", "UNCERTAIN"} /\ row[l].reconciled = "NONE"
            /\ row'[l].status = Final(worker[w].phase)
            /\ row'[l].window = row[l].window /\ row'[l].version = row[l].version
            /\ row'[l].reconciled = "NONE"
  BY <1>2 DEF Finalize, Owned, TypeOK, Row
<1>5. delivered' = delivered /\ inFlight' = inFlight /\ Hot' = Hot /\ Hot \subseteq Log
  BY DEF Finalize, Hot, TypeOK
<1>6. \A v \in Worker : v # w /\ Held(v) => worker[v].log \in Log \ {l}
  BY <1>1, <1>2, WorkerType DEF Holding, Ledger, HeldOnce
<1>7. Final(worker[w].phase) \in {"SENT", "UNCERTAIN"} \/ l \notin Hot
  BY <1>1, <1>2 DEF Final, Outcome, Ledger, HeldRows, HeldRow
<1>8. Final(worker[w].phase) \in {"SENT", "UNCERTAIN", "FAILED"}
  BY <1>1 DEF Final, Outcome
<1>9. OneClaimPerWindow'
  BY <1>4, ClaimsKept DEF Ledger, Active
<1>10. HotIsActive'
  BY <1>4, <1>5, <1>7 DEF Ledger, HotIsActive, Active
<1>11. HeldRows'
  <2> SUFFICES ASSUME NEW v \in Worker, Held(v)' PROVE HeldRow(v)'
    BY DEF HeldRows
  <2>1. /\ Held(v) /\ worker'[v] = worker[v] /\ worker[v].log \in Log \ {l} /\ HeldRow(v)
    BY <1>3, <1>6 DEF Ledger, HeldRows
  <2> QED
    BY <1>4, <1>5, <2>1 DEF HeldRow, Active
<1>12. HeldOnce'
  BY <1>3 DEF Ledger, HeldOnce
<1>13. ReconciledIsUncertain'
  BY <1>4 DEF Ledger, ReconciledIsUncertain
<1> QED
  BY <1>9, <1>10, <1>11, <1>12, <1>13 DEF Ledger

\* A run dies; the call it was making may still be delivered.
LEMMA CrashLedger ==
    ASSUME TypeOK, Ledger, NEW w \in Worker, Crash(w)
    PROVE  Ledger'
<1>1. /\ ~Held(w)'
      /\ \A v \in Worker : v # w => worker'[v] = worker[v] /\ (Held(v)' <=> Held(v))
  BY GoEffect DEF Crash, Idle, Held, Outcome
<1>2. row' = row /\ delivered' = delivered /\ \A x \in Log : Active(x)' <=> Active(x)
  BY DEF Crash, Active
<1>3. CASE At(w, "sending")
  <2>1. Held(w) /\ HeldRow(w)
    BY <1>3 DEF At, Held, Ledger, HeldRows
  <2>2. PICK l \in Log : worker[w].log = l
    BY <2>1, WorkerType DEF Holding
  <2>3. Active(l) /\ row[l].status # "RESERVED"
    BY <1>3, <2>1, <2>2 DEF At, HeldRow
  <2>4. Hot' = Hot \cup {l} /\ Hot \subseteq Log
    BY <1>3, <2>2 DEF Crash, Hot, TypeOK
  <2>5. \A v \in Worker : v # w /\ Held(v) => worker[v].log # l
    BY <2>1, <2>2 DEF Ledger, HeldOnce
  <2>6. HotIsActive'
    BY <1>2, <2>3, <2>4 DEF Ledger, HotIsActive
  <2>7. HeldRows'
    <3> SUFFICES ASSUME NEW v \in Worker, Held(v)' PROVE HeldRow(v)'
      BY DEF HeldRows
    <3>1. Held(v) /\ worker'[v] = worker[v] /\ worker[v].log # l /\ HeldRow(v)
      BY <1>1, <2>5 DEF Ledger, HeldRows
    <3> QED
      BY <1>2, <2>4, <3>1 DEF HeldRow, Active
  <2>8. HeldOnce'
    BY <1>1 DEF Ledger, HeldOnce
  <2> QED
    BY <1>2, <2>6, <2>7, <2>8 DEF Ledger, OneClaimPerWindow, ReconciledIsUncertain
<1>4. CASE ~At(w, "sending")
  <2>1. inFlight' = inFlight
    BY <1>4 DEF Crash
  <2>2. \A v \in Worker : Calm(v)
    BY <1>1 DEF Calm
  <2>3. \A l \in Log : Aged(l)
    BY <1>2 DEF Aged
  <2> QED
    BY <1>2, <2>1, <2>2, <2>3, AgedLedger
<1> QED
  BY <1>3, <1>4

\* The operator files evidence; only a proven non-delivery frees the window.
LEMMA ReconcileLedger ==
    ASSUME TypeOK, Ledger, NEW l \in Log, NEW e \in Evidence, Reconcile(l, e)
    PROVE  Ledger'
<1>1. /\ row[l].status = "UNCERTAIN" /\ row[l].reconciled = "NONE"
      /\ row'[l].status = "UNCERTAIN" /\ row'[l].reconciled = e
      /\ row'[l].window = row[l].window /\ row'[l].version = row[l].version
      /\ \A x \in Log : x # l => row'[x] = row[x]
  BY DEF Reconcile, TypeOK, Row
<1>2. worker' = worker /\ delivered' = delivered
  BY DEF Reconcile
<1>3. /\ Hot' \subseteq Hot /\ Hot \subseteq Log
      /\ e = "NOT_ACCEPTED_CONFIRMED" =>
           /\ l \notin Hot'
           /\ \A w \in Worker : ~(At(w, "sending") /\ worker[w].log = l)
  BY DEF Reconcile, Conclusive, Hot, TypeOK
<1>4. OneClaimPerWindow'
  BY <1>1, ClaimsKept DEF Ledger, Active
<1>5. HotIsActive'
  BY <1>1, <1>3 DEF Ledger, HotIsActive, Active
<1>6. HeldRows'
  <2> SUFFICES ASSUME NEW w \in Worker, Held(w) PROVE HeldRow(w)'
    BY <1>2 DEF HeldRows, Held
  <2>1. PICK x \in Log : worker[w].log = x
    BY WorkerType DEF Holding
  <2>2. HeldRow(w)
    BY DEF Ledger, HeldRows
  <2>3. CASE x # l
    BY <1>1, <1>2, <1>3, <2>1, <2>2, <2>3 DEF HeldRow, Active
  <2>4. CASE x = l
    BY <1>1, <1>2, <1>3, <2>1, <2>2, <2>4 DEF HeldRow, Active, At
  <2> QED
    BY <2>3, <2>4
<1>7. HeldOnce'
  BY <1>2 DEF Ledger, HeldOnce, Held
<1>8. ReconciledIsUncertain'
  BY <1>1 DEF Ledger, ReconciledIsUncertain
<1> QED
  BY <1>4, <1>5, <1>6, <1>7, <1>8 DEF Ledger

\* A new run quarantines stale provider requests.
LEMMA RunStartAged ==
    ASSUME TypeOK, NEW w \in Worker, RunStart(w)
    PROVE  \A l \in Log : Aged(l)
BY DEF TypeOK, RunStart, Aged, Quarantined, Row

\* The cutover gives up reservations and quarantines requests.
LEMMA CutoverAged ==
    ASSUME TypeOK, PrepareCutover
    PROVE  \A l \in Log : Aged(l)
<1> SUFFICES ASSUME NEW l \in Log PROVE Aged(l)
  OBVIOUS
<1>1. row[l] \in Row
  BY DEF TypeOK
<1>2. /\ row[l].status = "RESERVED" => row'[l] = [row[l] EXCEPT !.status = "SKIPPED"]
      /\ row[l].status = "SENDING" => row'[l] = Quarantined(row[l])
      /\ row[l].status \notin {"RESERVED", "SENDING"} => row'[l] = row[l]
  BY DEF PrepareCutover
<1> QED
  BY <1>1, <1>2 DEF Aged, Quarantined, Row

\* The second look at the deadline may give the reservation up.
LEMMA CheckAged ==
    ASSUME TypeOK, NEW w \in Worker, Check(w)
    PROVE  (\A l \in Log : Aged(l)) /\ (\A v \in Worker : Calm(v))
<1>1. Held(w) /\ worker[w].phase = "reserved"
  BY DEF Check, At, Held
<1>2. CASE Move(w, "checked") /\ row' = row
  <2>1. \A v \in Worker : Calm(v)
    BY <1>1, <1>2, MoveEffect DEF Calm
  <2> QED
    BY <1>2, <2>1 DEF Aged
<1>3. CASE /\ row' = [row EXCEPT ![worker[w].log].status = IF @ = "RESERVED" THEN "SKIPPED" ELSE @]
           /\ Go(w, Idle)
  <2>1. \A v \in Worker : Calm(v)
    BY <1>3, LetGoCalm DEF Idle
  <2>2. worker[w].log \in Log
    BY <1>1, WorkerType DEF Holding
  <2>3. \A l \in Log : Aged(l)
    BY <1>3, <2>2 DEF Aged, TypeOK, Row
  <2> QED
    BY <2>1, <2>3
<1> QED
  BY <1>2, <1>3 DEF Check

\* The ledger is inductive.
LEMMA LedgerNext == TypeOK /\ Ledger /\ [Next]_vars => Ledger'
<1> SUFFICES ASSUME TypeOK, Ledger, [Next]_vars PROVE Ledger'
  OBVIOUS
<1>1. ASSUME NEW w \in Worker, RunStart(w) PROVE Ledger'
  <2>1. \A v \in Worker : Calm(v)
    BY <1>1, LetGoCalm DEF RunStart
  <2> QED
    BY <1>1, <2>1, RunStartAged, AgedLedger DEF RunStart
<1>2. ASSUME NEW w \in Worker, SelectNone(w) \/ ReserveRefused(w) \/ \E v \in Window : Select(w, v)
      PROVE  Ledger'
  <2>1. \A v \in Worker : Calm(v)
    BY <1>2, LetGoCalm DEF SelectNone, ReserveRefused, Select, Idle
  <2>2. row' = row /\ delivered' = delivered /\ inFlight' = inFlight
    BY <1>2 DEF SelectNone, ReserveRefused, Select
  <2>3. \A l \in Log : Aged(l)
    BY <2>2 DEF Aged
  <2> QED
    BY <2>1, <2>2, <2>3, AgedLedger
<1>3. ASSUME NEW w \in Worker, NEW l \in Log, Reserve(w, l) PROVE Ledger'
  BY <1>3, ReserveLedger
<1>4. ASSUME NEW w \in Worker, Check(w) PROVE Ledger'
  BY <1>4, CheckAged, AgedLedger DEF Check
<1>5. ASSUME NEW w \in Worker, Begin(w) PROVE Ledger'
  <2>1. CASE row[worker[w].log].status = "RESERVED"
    BY <1>5, <2>1, BeginLedger DEF Begin
  <2>2. CASE row[worker[w].log].status # "RESERVED"
    <3>1. Go(w, Idle) /\ row' = row /\ delivered' = delivered /\ inFlight' = inFlight
      BY <1>5, <2>2 DEF Begin
    <3>2. (\A v \in Worker : Calm(v)) /\ (\A l \in Log : Aged(l))
      BY <3>1, LetGoCalm DEF Idle, Aged
    <3> QED
      BY <3>1, <3>2, AgedLedger
  <2> QED
    BY <2>1, <2>2
<1>6. ASSUME NEW w \in Worker, NEW o \in Outcome, Send(w, o) PROVE Ledger'
  BY <1>6, SendLedger
<1>7. ASSUME NEW w \in Worker, Finalize(w) \/ Crash(w) PROVE Ledger'
  BY <1>7, FinalizeLedger, CrashLedger
<1>8. ASSUME NEW l \in Log, LateDelivery(l) PROVE Ledger'
  <2>1. row' = row /\ worker' = worker /\ Hot' = Hot /\ delivered \subseteq delivered'
    BY <1>8 DEF LateDelivery, Hot
  <2>2. \A x \in Log : Active(x)' <=> Active(x)
    BY <2>1 DEF Active
  <2>3. HotIsActive'
    BY <2>1 DEF Ledger, HotIsActive, Active
  <2>4. HeldRows'
    BY <2>1 DEF Ledger, HeldRows, HeldRow, Held, Active
  <2> QED
    BY <2>1, <2>2, <2>3, <2>4
       DEF Ledger, OneClaimPerWindow, HeldOnce, ReconciledIsUncertain, Held
<1>9. ASSUME NEW l \in Log, NEW e \in Evidence, Reconcile(l, e) PROVE Ledger'
  BY <1>9, ReconcileLedger
<1>10. ASSUME worker' = worker, delivered' = delivered, inFlight' = inFlight,
              \A l \in Log : Aged(l)
       PROVE  Ledger'
  <2>1. \A v \in Worker : Calm(v)
    BY <1>10 DEF Calm, Held
  <2> QED
    BY <1>10, <2>1, AgedLedger
<1>11. ASSUME NEW l \in Log, GoStale(l) PROVE Ledger'
  <2>1. \A x \in Log : Aged(x)
    BY <1>11 DEF GoStale, Aged, TypeOK, Row
  <2> QED
    BY <1>10, <1>11, <2>1 DEF GoStale
<1>12. CASE PrepareCutover
  BY <1>10, <1>12, CutoverAged DEF PrepareCutover
<1>14. ASSUME NEW S \in SUBSET Log, LoseMembership(S) PROVE Ledger'
  <2>1. \A l \in Log : Aged(l)
    BY <1>14 DEF LoseMembership, Aged, TypeOK, Row
  <2> QED
    BY <1>10, <1>14, <2>1 DEF LoseMembership
<1>13. ASSUME row' = row, worker' = worker, delivered' = delivered, inFlight' = inFlight
       PROVE  Ledger'
  BY <1>10, <1>13 DEF Aged
<1> QED
  BY <1>1, <1>2, <1>3, <1>4, <1>5, <1>6, <1>7, <1>8, <1>9, <1>11, <1>12, <1>13, <1>14
     DEF Next, Run, Reschedule, Reconfigure, Close, ChangeEntitlement, NextDay, vars

\* The ledger of a deadline nobody was reminded of.
LEMMA LedgerInit == Init => Ledger
BY DEF Init, Ledger, OneClaimPerWindow, HotIsActive, HeldRows, HeldOnce,
       ReconciledIsUncertain, Active, Hot, Held, Idle, NoRow, Outcome

\* The ledger holds in every reachable state.
THEOREM LedgerHolds == Spec => []Ledger
BY LedgerInit, LedgerNext, TypeCorrect, PTL DEF Spec

\* "Each configured window fires at most once", for any number of overlapping
\* runs, rows, crashes and reconciliations.
THEOREM WindowFiresOnce == Spec => []OneEmailPerWindow
<1>1. TypeOK /\ Ledger => OneEmailPerWindow
  BY DEF TypeOK, Ledger, OneClaimPerWindow, HotIsActive, Hot, OneEmailPerWindow
<1> QED
  BY <1>1, TypeCorrect, LedgerHolds, PTL

\* No SKIPPED or FAILED reminder was delivered or still may be.
THEOREM UnsentNeverDelivered == Spec => []UnsentIsUndelivered
<1>1. Ledger => UnsentIsUndelivered
  BY DEF Ledger, HotIsActive, Hot, Active, UnsentIsUndelivered
<1> QED
  BY <1>1, LedgerHolds, PTL

-----------------------------------------------------------------------------
(* Evidence is final *)

\* No step rewrites a reconciled row.
LEMMA EvidenceNext ==
    ASSUME TypeOK, Ledger, [Next]_vars
    PROVE  \A l \in Log : row[l].reconciled # "NONE" => row'[l] = row[l]
<1> SUFFICES ASSUME NEW l \in Log, row[l].reconciled # "NONE" PROVE row'[l] = row[l]
  OBVIOUS
<1>0. row[l].status = "UNCERTAIN"
  BY DEF Ledger, ReconciledIsUncertain
<1>1. ASSUME NEW w \in Worker, NEW x \in Log, Reserve(w, x) PROVE row'[l] = row[l]
  <2>1. l # x /\ l \notin Claims(w)
    BY <1>0, <1>1 DEF Reserve, Expirable
  <2> QED
    BY <1>1, <2>1 DEF Reserve
<1>2. ASSUME NEW w \in Worker, RunStart(w) PROVE row'[l] = row[l]
  BY <1>0, <1>2 DEF RunStart
<1>3. ASSUME NEW w \in Worker, Check(w) PROVE row'[l] = row[l]
  <2>1. Held(w) /\ worker[w].phase = "reserved"
    BY <1>3 DEF Check, At, Held
  <2>2. worker[w].log \in Log /\ worker[w].log # l
    BY <1>0, <2>1, WorkerType DEF Holding, Ledger, HeldRows, HeldRow
  <2> QED
    BY <1>3, <2>2 DEF Check, TypeOK
<1>4. ASSUME NEW w \in Worker, Begin(w) PROVE row'[l] = row[l]
  BY <1>0, <1>4 DEF Begin, TypeOK
<1>5. ASSUME NEW w \in Worker, Finalize(w) PROVE row'[l] = row[l]
  BY <1>5 DEF Finalize, Owned, TypeOK
<1>6. ASSUME NEW x \in Log, NEW e \in Evidence, Reconcile(x, e)
      PROVE  row'[l] = row[l]
  BY <1>6 DEF Reconcile, TypeOK
<1>7. CASE PrepareCutover
  BY <1>0, <1>7 DEF PrepareCutover
<1>8. ASSUME NEW x \in Log, GoStale(x) PROVE row'[l] = row[l]
  BY <1>0, <1>8 DEF GoStale, TypeOK
<1>9. ASSUME NEW S \in SUBSET Log, LoseMembership(S) PROVE row'[l] = row[l]
  BY <1>0, <1>9 DEF LoseMembership
<1> QED
  BY <1>1, <1>2, <1>3, <1>4, <1>5, <1>6, <1>7, <1>8, <1>9
     DEF Next, Run, SelectNone, ReserveRefused, Crash, Select, Send, LateDelivery,
         Reschedule, Reconfigure, Close, ChangeEntitlement, NextDay, vars

\* An operator's evidence is final, also against a run that finalizes late.
THEOREM EvidenceIsFinal == Spec => ReconciliationIsFinal
<1>1. TypeOK /\ Ledger /\ [Next]_vars
        => [\A l \in Log : row[l].reconciled # "NONE" => row'[l] = row[l]]_vars
  BY EvidenceNext
<1> QED
  BY <1>1, TypeCorrect, LedgerHolds, PTL DEF Spec, ReconciliationIsFinal
=============================================================================
