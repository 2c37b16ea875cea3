----------------------- MODULE PasswordRecovery_proofs ----------------------
(***************************************************************************)
(* The theorems about PasswordRecovery, for every set of requests and      *)
(* workers and every bound: the safety properties its run checks, and that *)
(* recovery implements OneTimeLink.  Two inductive invariants carry them   *)
(* beside TypeOK: Custody, who holds a request and what its delivery state *)
(* says about the email; and Currency, under which password a request is   *)
(* open and what the snapshot of an operator's reset knows of it.          *)
(***************************************************************************)
EXTENDS PasswordRecovery, TLAPS

Settled == {"ACCEPTED", "REJECTED", "UNCERTAIN", "GONE"}

\* A worker's request still carries its claim, or its delivery is settled and
\* never returns to the queue.
ClaimIsHeld ==
    \A w \in Worker : Busy(w) =>
        LET r == worker[w].req IN
          \/ row[r].delivery = "SENDING" /\ row[r].claim = worker[w].claim
          \/ row[r].delivery \in Settled

\* What an unanswered or rejecting send may still write PENDING is not out.
NotOutYet ==
    \A w \in Worker :
        /\ Busy(w)
        /\ worker[w].phase \in {"claimed", "RETRYABLE", "REJECTED"}
        /\ row[worker[w].req].delivery = "SENDING"
        => worker[w].req \notin delivered

\* Rejected, deleted and unborn requests are closed, and so are used ones.
DeadIsClosed ==
    /\ \A r \in Request : row[r].delivery \in {"NONE", "REJECTED", "GONE"} => ~Open(r)
    /\ \A r \in used : ~Open(r)

\* An id that was never issued has reached nobody.
FreshIsUnsent == \A r \in Request : row[r].delivery = "NONE" => r \notin delivered \cup used

Custody ==
    /\ OneSenderPerRequest
    /\ DeliveredLinkIsConsumable
    /\ ClaimIsHeld
    /\ NotOutYet
    /\ DeadIsClosed
    /\ FreshIsUnsent

\* While an operator's reset is under way, an open request is in its snapshot, or
\* came in since, under the password that the reset replaces.
Covered ==
    operator # Idle =>
        \A r \in Request : Open(r) => \/ operator.rows[r].open
                                      \/ row[r].raced /\ row[r].pwd = pwd

\* What the snapshot shows open, it shows as issued.
SnapshotIssued ==
    operator # Idle =>
        \A r \in Request : operator.rows[r].open => operator.rows[r].delivery # "NONE"

Currency ==
    /\ OpenUnderCurrentPassword
    /\ Covered
    /\ SnapshotIssued

-----------------------------------------------------------------------------
(* Type correctness *)

\* A busy worker holds a claim.
LEMMA HoldingType ==
    ASSUME TypeOK, NEW w \in Worker, Busy(w)
    PROVE  worker[w] \in Holding
BY DEF TypeOK, Busy

\* A request is issued as a well-typed row.
LEMMA NewRowType ==
    ASSUME TypeOK, NEW delivery \in Delivery, NEW source \in Source, NEW raced \in BOOLEAN
    PROVE  NewRow(delivery, source, raced) \in Row
BY DEF TypeOK, NewRow, NoRow, Row, Source, Delivery

\* Terminating, quarantining, preparing and finalizing a row keep its type.
LEMMA RowChangeType ==
    ASSUME NEW x \in Row
    PROVE  /\ Terminated(x) \in Row
           /\ Quarantined(x) \in Row
           /\ PreparedLifetime(PreparedDelivery(x)) \in Row
           /\ \A outcome \in Outcome : Finalized(x, outcome) \in Row
<1>1. Terminated(x) \in Row /\ Quarantined(x) \in Row
  BY DEF Terminated, Quarantined, Row, Delivery
<1>2. PreparedDelivery(x) \in Row
  BY <1>1 DEF PreparedDelivery
<1>3. ASSUME NEW y \in Row PROVE Terminated(y) \in Row
  BY DEF Terminated, Row
<1>4. PreparedLifetime(PreparedDelivery(x)) \in Row
  BY <1>2, <1>3 DEF PreparedLifetime
<1>5. ASSUME NEW outcome \in Outcome PROVE Finalized(x, outcome) \in Row
  BY DEF Finalized, Outcome, Row, Delivery, Retry
<1> QED
  BY <1>1, <1>4, <1>5

\* The account starts with no request.
LEMMA TypeInit == Init => TypeOK
BY DEF Init, TypeOK, Row, NoRow, Delivery, Source

\* Every request, delivery step and password change keeps the types.
LEMMA TypeNext == TypeOK /\ [Next]_vars => TypeOK'
<1> SUFFICES ASSUME TypeOK, [Next]_vars PROVE TypeOK'
  OBVIOUS
<1>1. ASSUME NEW r \in Request, RequestReset(r) \/ IssueOperatorLink(r)
      PROVE  TypeOK'
  <2>1. ASSUME NEW d \in Delivery, NEW s \in Source, NEW raced \in BOOLEAN,
               row' = [row EXCEPT ![r] = NewRow(d, s, raced)]
        PROVE  row' \in [Request -> Row]
    BY <2>1, NewRowType DEF TypeOK
  <2>2. row' \in [Request -> Row]
    <3>1. (operator # Idle) \in BOOLEAN
      OBVIOUS
    <3> QED
      BY <1>1, <2>1, <3>1 DEF RequestReset, IssueOperatorLink, Delivery, Source
  <2> QED
    BY <1>1, <2>2 DEF RequestReset, IssueOperatorLink, Unserialized, TypeOK
<1>2. ASSUME NEW r \in Request, ClaimRefused(r) \/ Cleanup(r) \/ Expire(r) \/ GoStale(r)
      PROVE  TypeOK'
  <2>1. row[r] \in Row
    BY DEF TypeOK
  <2>2. /\ Terminated(row[r]) \in Row
        /\ [row[r] EXCEPT !.delivery = "GONE", !.open = FALSE] \in Row
        /\ [row[r] EXCEPT !.expired = TRUE] \in Row
        /\ [row[r] EXCEPT !.stale = TRUE] \in Row
    BY <2>1, RowChangeType DEF Row, Delivery
  <2> QED
    BY <1>2, <2>2 DEF ClaimRefused, Cleanup, Expire, GoStale, TypeOK
<1>3. ASSUME NEW r \in Request, ResetPassword(r)
      PROVE  TypeOK'
  BY <1>3, RowChangeType DEF ResetPassword, TerminateAll, Unserialized, TypeOK
<1>4. ASSUME NEW S \in SUBSET Request, Prepare(S)
      PROVE  TypeOK'
  BY <1>4, RowChangeType DEF Prepare, TypeOK
<1>5. ASSUME NEW w \in Worker, NEW r \in Request, Claim(w, r)
      PROVE  TypeOK'
  <2>1. row[r] \in Row /\ row[r].attempts + 1 \in Nat
    BY DEF TypeOK, Row
  <2>2. [row[r] EXCEPT !.delivery = "SENDING", !.attempts = row[r].attempts + 1,
                       !.claim = row[r].attempts + 1, !.stale = FALSE] \in Row
    BY <2>1 DEF Row, Delivery
  <2>3. [phase |-> "claimed", req |-> r, claim |-> row[r].attempts + 1] \in Holding
    BY <2>1 DEF Holding
  <2> QED
    BY <1>5, <2>2, <2>3 DEF Claim, TypeOK
<1>6. ASSUME NEW w \in Worker, NEW o \in Outcome, Send(w, o)
      PROVE  TypeOK'
  <2>1. worker[w] \in Holding
    BY <1>6, HoldingType DEF Send
  <2>2. [worker[w] EXCEPT !.phase = o] \in Holding /\ worker[w].req \in Request
    BY <2>1 DEF Holding
  <2> QED
    BY <1>6, <2>2 DEF Send, TypeOK
<1>7. ASSUME NEW r \in Request, LateDelivery(r)
      PROVE  TypeOK'
  BY <1>7 DEF LateDelivery, TypeOK
<1>8. ASSUME NEW w \in Worker, Finalize(w) \/ Crash(w)
      PROVE  TypeOK'
  <2>1. worker[w] \in Holding
    BY <1>8, HoldingType DEF Finalize, Crash
  <2>2. Finalize(w) => Finalized(row[worker[w].req], worker[w].phase) \in Row
    BY <2>1, RowChangeType DEF Finalize, TypeOK, Holding
  <2> QED
    BY <1>8, <2>1, <2>2 DEF Finalize, Crash, TypeOK, Holding
<1>9. CASE ChangePassword \/ OperatorReset \/ SuspendMember
  <2>1. \A r \in Request : Terminated(row[r]) \in Row /\ row[r] \in Row
    BY RowChangeType DEF TypeOK
  <2>2. row' \in [Request -> Row]
    BY <1>9, <2>1 DEF ChangePassword, OperatorReset, SuspendMember, TerminateAll
  <2>3. pwd' \in Nat
    BY <1>9 DEF ChangePassword, OperatorReset, SuspendMember, TypeOK
  <2>4. member' \in BOOLEAN
    BY <1>9, Zenon DEF ChangePassword, OperatorReset, SuspendMember, TypeOK
  <2>5. operator' = Idle
    BY <1>9 DEF ChangePassword, OperatorReset, SuspendMember, Unserialized
  <2> QED
    BY <1>9, <2>2, <2>3, <2>4, <2>5 DEF ChangePassword, OperatorReset, SuspendMember, TypeOK
<1>10. CASE ReactivateMember \/ OrganisationTransition \/ ControlTransition
  BY <1>10 DEF ReactivateMember, OrganisationTransition, ControlTransition, Unserialized, TypeOK
<1>12. CASE OperatorResetBegin \/ OperatorAbort
  BY <1>12 DEF OperatorResetBegin, OperatorAbort, ResetUnderWay, TypeOK
<1>11. CASE UNCHANGED vars
  BY <1>11 DEF vars, TypeOK
<1> QED
  BY <1>1, <1>2, <1>3, <1>4, <1>5, <1>6, <1>7, <1>8, <1>9, <1>10, <1>11, <1>12 DEF Next

\* Type correctness of the whole module.
THEOREM TypeCorrect == Spec => []TypeOK
BY TypeInit, TypeNext, PTL DEF Spec

-----------------------------------------------------------------------------
(* Who holds a request, and what its state says about its email *)

\* What every step but the issue does to a row: open, it was open before, with the
\* same history.
Lasting(r) ==
    Open(r)' => Open(r) /\ row'[r].pwd = row[r].pwd /\ row'[r].raced = row[r].raced

\* What most steps do to a row: it may be closed, its stale claim quarantined,
\* its closed evidence deleted.
QuietRow(r) ==
    /\ Lasting(r)
    /\ \/ row'[r].delivery = row[r].delivery /\ row'[r].claim = row[r].claim
       \/ row[r].delivery = "SENDING" /\ row'[r].delivery = "UNCERTAIN"
       \/ /\ row[r].delivery \notin {"NONE", "SENDING"}
          /\ row'[r].delivery = "GONE" /\ ~Open(r)'

\* Quiet rows keep custody while workers and mailbox stay as they are.
LEMMA QuietCustody ==
    ASSUME TypeOK, Custody, worker' = worker, delivered' = delivered, used' = used,
           \A r \in Request : QuietRow(r)
    PROVE  Custody'
<1>1. \A w \in Worker : Busy(w) => worker[w].req \in Request
  BY HoldingType DEF Holding
<1>3. OneSenderPerRequest'
  BY DEF Custody, OneSenderPerRequest, Busy
<1>4. DeliveredLinkIsConsumable'
  BY DEF Custody, DeliveredLinkIsConsumable, QuietRow, Lasting, Consumable, TypeOK
<1>5. ClaimIsHeld'
  BY <1>1 DEF Custody, ClaimIsHeld, QuietRow, Settled, Busy
<1>6. NotOutYet'
  BY <1>1 DEF Custody, NotOutYet, QuietRow, Busy
<1>7. DeadIsClosed'
  BY DEF Custody, DeadIsClosed, QuietRow, Lasting, TypeOK
<1>8. FreshIsUnsent'
  BY DEF Custody, FreshIsUnsent, QuietRow
<1> QED
  BY <1>3, <1>4, <1>5, <1>6, <1>7, <1>8 DEF Custody

\* The steps that are quiet.
LEMMA TerminateAllQuiet ==
    ASSUME TypeOK, TerminateAll
    PROVE  \A r \in Request : QuietRow(r) /\ ~Open(r)'
BY DEF TypeOK, TerminateAll, Terminated, QuietRow, Lasting, Open, Row

\* The operator's reset is quiet, and closes what its snapshot shows open.
LEMMA OperatorResetQuiet ==
    ASSUME TypeOK, OperatorReset
    PROVE  \A r \in Request : QuietRow(r) /\ (operator.rows[r].open => ~Open(r)')
<1> SUFFICES ASSUME NEW r \in Request
             PROVE  QuietRow(r) /\ (operator.rows[r].open => ~Open(r)')
  OBVIOUS
<1>1. row[r] \in Row
  BY DEF TypeOK
<1>2. row'[r] = IF operator.rows[r].open THEN Terminated(row[r]) ELSE row[r]
  BY DEF OperatorReset
<1> QED
  BY <1>1, <1>2 DEF Terminated, QuietRow, Lasting, Open, Row

\* A worker that looks for mail to send only quarantines or ends what it finds.
LEMMA PrepareQuiet ==
    ASSUME TypeOK, NEW S \in SUBSET Request, Prepare(S)
    PROVE  \A r \in Request : QuietRow(r)
<1> SUFFICES ASSUME NEW r \in Request PROVE QuietRow(r)
  OBVIOUS
<1>1. row[r] \in Row
  BY DEF TypeOK
<1> DEFINE x == row[r]
           q == PreparedDelivery(x)
           y == PreparedLifetime(q)
<1>2. /\ q.open = x.open /\ q.pwd = x.pwd /\ q.raced = x.raced
      /\ \/ q.delivery = x.delivery /\ q.claim = x.claim
         \/ x.delivery = "SENDING" /\ q.delivery = "UNCERTAIN"
      /\ q \in Row
  BY <1>1 DEF PreparedDelivery, Quarantined, Row, Delivery
<1>3. /\ y.open => q.open
      /\ y.pwd = q.pwd /\ y.raced = q.raced /\ y.delivery = q.delivery /\ y.claim = q.claim
  <2> HIDE DEF q
  <2> QED
    BY <1>2 DEF PreparedLifetime, Terminated, Row
<1>4. row'[r] = y \/ row'[r] = x
  BY DEF Prepare
<1> QED
  BY <1>2, <1>3, <1>4 DEF QuietRow, Lasting, Open

\* A refused claim, the clean-up and the passing of time are quiet.
LEMMA RowStepQuiet ==
    ASSUME TypeOK, NEW r \in Request, ClaimRefused(r) \/ Cleanup(r) \/ Expire(r) \/ GoStale(r)
    PROVE  \A x \in Request : QuietRow(x)
BY DEF TypeOK, ClaimRefused, Cleanup, Expire, GoStale, Terminated, QuietRow, Lasting, Open, Row

\* Issuing a link.
LEMMA IssueCustody ==
    ASSUME TypeOK, Custody, NEW r \in Request, NEW delivery \in {"PENDING", "ACCEPTED"},
           NEW source, NEW raced, row[r].delivery = "NONE",
           row' = [row EXCEPT ![r] = NewRow(delivery, source, raced)],
           delivered' = IF delivery = "ACCEPTED" THEN delivered \cup {r} ELSE delivered,
           UNCHANGED <<worker, used>>
    PROVE  Custody'
<1>1. /\ row'[r].delivery = delivery /\ row'[r].open
      /\ \A x \in Request : x # r => row'[x] = row[x]
  BY DEF TypeOK, NewRow, NoRow
<1>2. \A w \in Worker : Busy(w) => worker[w].req \in Request \ {r}
  BY HoldingType DEF Holding, Custody, ClaimIsHeld, Settled
<1>3. r \notin delivered \cup used
  BY DEF Custody, FreshIsUnsent
<1>5. OneSenderPerRequest'
  BY DEF Custody, OneSenderPerRequest, Busy
<1>6. DeliveredLinkIsConsumable'
  BY <1>1, <1>3 DEF Custody, DeliveredLinkIsConsumable, Consumable, Open, TypeOK
<1>7. ClaimIsHeld'
  BY <1>1, <1>2 DEF Custody, ClaimIsHeld, Busy
<1>8. NotOutYet'
  BY <1>1, <1>2 DEF Custody, NotOutYet, Busy
<1>9. DeadIsClosed'
  BY <1>1, <1>3 DEF Custody, DeadIsClosed, Open, TypeOK
<1>10. FreshIsUnsent'
  BY <1>1 DEF Custody, FreshIsUnsent
<1> QED
  BY <1>5, <1>6, <1>7, <1>8, <1>9, <1>10 DEF Custody

\* Claiming a request takes it from the queue, where nobody holds it.
LEMMA ClaimCustody ==
    ASSUME TypeOK, Custody, NEW w \in Worker, NEW r \in Request, Claim(w, r)
    PROVE  Custody'
<1>1. /\ row'[r].delivery = "SENDING"
      /\ row'[r].open = row[r].open /\ row'[r].claim = row[r].attempts + 1
      /\ \A x \in Request : x # r => row'[x] = row[x]
  BY DEF Claim, TypeOK, Row
<1>2. /\ worker'[w] = [phase |-> "claimed", req |-> r, claim |-> row[r].attempts + 1]
      /\ \A v \in Worker : v # w => worker'[v] = worker[v]
  BY DEF Claim, TypeOK
<1>3. row[r].delivery = "PENDING" /\ row[r].open
  BY DEF Claim, Claimable, Open
<1>4. \A v \in Worker : Busy(v) => worker[v].req \in Request \ {r}
  BY <1>3, HoldingType DEF Holding, Custody, ClaimIsHeld, Settled
<1>5. r \notin delivered
  BY <1>3 DEF Custody, DeliveredLinkIsConsumable, Consumable, Open
<1>6. delivered' = delivered /\ used' = used
  BY DEF Claim
<1>8. OneSenderPerRequest'
  BY <1>2, <1>4 DEF Custody, OneSenderPerRequest, Busy
<1>9. DeliveredLinkIsConsumable'
  BY <1>1, <1>5, <1>6 DEF Custody, DeliveredLinkIsConsumable, Open, TypeOK
<1>10. ClaimIsHeld'
  BY <1>1, <1>2, <1>4 DEF Custody, ClaimIsHeld, Busy
<1>11. NotOutYet'
  BY <1>1, <1>2, <1>4, <1>5, <1>6 DEF Custody, NotOutYet, Busy
<1>12. DeadIsClosed'
  BY <1>1, <1>3, <1>6 DEF Custody, DeadIsClosed, Open, TypeOK
<1>13. FreshIsUnsent'
  BY <1>1, <1>6 DEF Custody, FreshIsUnsent
<1> QED
  BY <1>8, <1>9, <1>10, <1>11, <1>12, <1>13 DEF Custody

\* Sending: only an accepted email is known to be out.
LEMMA SendCustody ==
    ASSUME TypeOK, Custody, NEW w \in Worker, NEW o \in Outcome, Send(w, o)
    PROVE  Custody'
<1>1. worker[w] \in Holding /\ Busy(w)
  BY HoldingType DEF Send
<1> DEFINE r == worker[w].req
<1>2. /\ worker'[w].phase = o /\ worker'[w].req = r /\ worker'[w].claim = worker[w].claim
      /\ \A v \in Worker : v # w => worker'[v] = worker[v]
      /\ Busy(w)' /\ r \in Request
  BY <1>1 DEF Send, TypeOK, Holding, Busy, Idle, Outcome
<1>3. \A v \in Worker : v # w /\ Busy(v) => worker[v].req \in Request \ {r}
  BY <1>1, HoldingType DEF Holding, Custody, OneSenderPerRequest
<1>4. \/ row[r].delivery = "SENDING" /\ row[r].claim = worker[w].claim
      \/ row[r].delivery \in Settled
  BY <1>1 DEF Custody, ClaimIsHeld
<1>5. row' = row /\ used' = used
  BY DEF Send
<1>6. /\ delivered' \subseteq delivered \cup {r}
      /\ o # "ACCEPTED" => delivered' = delivered
  BY DEF Send
<1>7. DeadIsClosed'
  BY <1>5 DEF Custody, DeadIsClosed, Open
<1>8. OneSenderPerRequest'
  BY <1>1, <1>2, <1>3 DEF Custody, OneSenderPerRequest, Busy
<1>9. DeliveredLinkIsConsumable'
  <2> HIDE DEF r
  <2>1. Open(r) => row[r].delivery \in Consumable
    BY <1>2, <1>4 DEF Settled, Consumable, Custody, DeadIsClosed
  <2> QED
    BY <2>1, <1>5, <1>6 DEF Custody, DeliveredLinkIsConsumable, Open
<1>10. ClaimIsHeld'
  BY <1>2, <1>4, <1>5 DEF Custody, ClaimIsHeld, Busy
<1>11. NotOutYet'
  <2> HIDE DEF r
  <2>1. ASSUME NEW v \in Worker, v # w, Busy(v)',
               worker'[v].phase \in {"claimed", "RETRYABLE", "REJECTED"},
               row'[worker'[v].req].delivery = "SENDING"
        PROVE  worker'[v].req \notin delivered'
    BY <2>1, <1>2, <1>3, <1>5, <1>6 DEF Custody, NotOutYet, Busy
  <2>2. ASSUME o \in {"RETRYABLE", "REJECTED"}, row[r].delivery = "SENDING"
        PROVE  r \notin delivered'
    BY <2>2, <1>1, <1>6 DEF Custody, NotOutYet, Send, r
  <2> QED
    BY <2>1, <2>2, <1>2, <1>5 DEF NotOutYet, Outcome
<1>12. FreshIsUnsent'
  <2> HIDE DEF r
  <2> QED
    BY <1>4, <1>5, <1>6 DEF Custody, FreshIsUnsent, Settled
<1> QED
  BY <1>7, <1>8, <1>9, <1>10, <1>11, <1>12 DEF Custody

\* The row an answer to a current claim leaves.
LEMMA FinalizedEffect ==
    ASSUME NEW x \in Row, NEW o \in Outcome
    PROVE  LET y == Finalized(x, o) IN
             /\ y.pwd = x.pwd /\ y.raced = x.raced
             /\ y.open => x.open
             /\ y.attempts = x.attempts
             /\ y.delivery \in {"ACCEPTED", "UNCERTAIN", "PENDING", "REJECTED"}
             /\ y.delivery = "PENDING" => o = "RETRYABLE"
             /\ y.delivery = "REJECTED" => o \in {"RETRYABLE", "REJECTED"} /\ ~y.open
BY DEF Finalized, Retry, Outcome, Row

\* Finalizing: the claim's only holder lets go.
LEMMA FinalizeCustody ==
    ASSUME TypeOK, Custody, NEW w \in Worker, Finalize(w)
    PROVE  Custody'
<1>1. worker[w] \in Holding /\ Busy(w) /\ worker[w].phase \in Outcome
  BY HoldingType DEF Finalize
<1> DEFINE r == worker[w].req
           o == worker[w].phase
<1>2. /\ ~Busy(w)'
      /\ \A v \in Worker : v # w => worker'[v] = worker[v]
  BY DEF Finalize, TypeOK, Busy
<1>3. r \in Request /\ row[r] \in Row /\ o \in Outcome
  BY <1>1 DEF Holding, TypeOK
<1>4. \A v \in Worker : v # w /\ Busy(v) => worker[v].req \in Request \ {r}
  BY <1>1, HoldingType DEF Holding, Custody, OneSenderPerRequest
<1>5. delivered' = delivered /\ used' = used
  BY DEF Finalize
<1>6. \A v \in Worker : Busy(v)' => v # w /\ Busy(v) /\ worker'[v] = worker[v]
  BY <1>2 DEF Busy
<1>7. OneSenderPerRequest'
  BY <1>6 DEF Custody, OneSenderPerRequest
<1>8. CASE row' = row
  <2>1. DeadIsClosed' /\ DeliveredLinkIsConsumable' /\ FreshIsUnsent'
    BY <1>5, <1>8 DEF Custody, DeadIsClosed, DeliveredLinkIsConsumable, FreshIsUnsent, Open
  <2>2. ClaimIsHeld' /\ NotOutYet'
    BY <1>5, <1>6, <1>8 DEF Custody, ClaimIsHeld, NotOutYet
  <2> QED
    BY <1>7, <2>1, <2>2 DEF Custody
<1>9. CASE /\ row[r].delivery = "SENDING"
           /\ row' = [row EXCEPT ![r] = Finalized(@, o)]
  <2>1. /\ row'[r] = Finalized(row[r], o)
        /\ \A x \in Request : x # r => row'[x] = row[x]
    BY <1>3, <1>9 DEF TypeOK
  <2>2. /\ row'[r].open => row[r].open
        /\ row'[r].delivery \in {"ACCEPTED", "UNCERTAIN", "PENDING", "REJECTED"}
        /\ row'[r].delivery = "PENDING" => o = "RETRYABLE"
        /\ row'[r].delivery = "REJECTED" => ~row'[r].open
    BY <1>3, <2>1, FinalizedEffect
  <2>3. o = "RETRYABLE" => r \notin delivered
    BY <1>1, <1>9 DEF Custody, NotOutYet
  <2> HIDE DEF r, o
  <2>5. DeadIsClosed'
    BY <1>3, <1>5, <2>1, <2>2 DEF Custody, DeadIsClosed, Open, TypeOK
  <2>6. DeliveredLinkIsConsumable'
    BY <1>5, <2>1, <2>2, <2>3 DEF Custody, DeliveredLinkIsConsumable, Consumable, Open, TypeOK
  <2>7. FreshIsUnsent'
    BY <1>5, <2>1, <2>2 DEF Custody, FreshIsUnsent
  <2>8. ClaimIsHeld'
    BY <1>4, <1>6, <2>1 DEF Custody, ClaimIsHeld
  <2>9. NotOutYet'
    BY <1>4, <1>5, <1>6, <2>1 DEF Custody, NotOutYet
  <2> QED
    BY <1>7, <2>5, <2>6, <2>7, <2>8, <2>9 DEF Custody
<1> QED
  BY <1>8, <1>9 DEF Finalize

\* Custody is inductive.
LEMMA CustodyNext == TypeOK /\ Custody /\ [Next]_vars => Custody'
<1> SUFFICES ASSUME TypeOK, Custody, [Next]_vars PROVE Custody'
  OBVIOUS
<1>1. ASSUME NEW r \in Request, RequestReset(r) \/ IssueOperatorLink(r)
      PROVE  Custody'
  <2>1. CASE RequestReset(r)
    BY <2>1, IssueCustody DEF RequestReset
  <2>2. CASE IssueOperatorLink(r)
    BY <2>2, IssueCustody DEF IssueOperatorLink
  <2> QED
    BY <1>1, <2>1, <2>2
<1>2. ASSUME NEW r \in Request, ClaimRefused(r) \/ Cleanup(r) \/ Expire(r) \/ GoStale(r)
      PROVE  Custody'
  BY <1>2, RowStepQuiet, QuietCustody DEF ClaimRefused, Cleanup, Expire, GoStale
<1>3. ASSUME NEW r \in Request, ResetPassword(r)
      PROVE  Custody'
  <2>1. \A x \in Request : QuietRow(x) /\ ~Open(x)'
    BY <1>3, TerminateAllQuiet DEF ResetPassword
  <2>2. row[r].delivery \in Consumable /\ worker' = worker /\ delivered' = delivered
    BY <1>3 DEF ResetPassword
  <2>3. used' = used \cup {r}
    BY <1>3 DEF ResetPassword
  <2>4. \A w \in Worker : Busy(w) => worker[w].req \in Request
    BY HoldingType DEF Holding
  <2>5. DeliveredLinkIsConsumable' /\ DeadIsClosed'
    BY <2>1, <2>2, <2>3 DEF DeliveredLinkIsConsumable, DeadIsClosed, TypeOK
  <2>6. OneSenderPerRequest'
    BY <2>2 DEF Custody, OneSenderPerRequest, Busy
  <2>7. ClaimIsHeld'
    BY <2>1, <2>2, <2>4 DEF Custody, ClaimIsHeld, QuietRow, Settled, Busy
  <2>8. NotOutYet'
    BY <2>1, <2>2, <2>4 DEF Custody, NotOutYet, QuietRow, Busy
  <2>9. FreshIsUnsent'
    BY <2>1, <2>2, <2>3 DEF Custody, FreshIsUnsent, QuietRow, Consumable
  <2> QED
    BY <2>5, <2>6, <2>7, <2>8, <2>9 DEF Custody
<1>4. ASSUME NEW S \in SUBSET Request, Prepare(S)
      PROVE  Custody'
  BY <1>4, PrepareQuiet, QuietCustody DEF Prepare
<1>5. ASSUME NEW w \in Worker, NEW r \in Request, Claim(w, r)
      PROVE  Custody'
  BY <1>5, ClaimCustody
<1>6. ASSUME NEW w \in Worker, NEW o \in Outcome, Send(w, o)
      PROVE  Custody'
  BY <1>6, SendCustody
<1>7. ASSUME NEW r \in Request, LateDelivery(r)
      PROVE  Custody'
  <2>1. /\ row' = row /\ worker' = worker /\ used' = used
        /\ delivered' = delivered \cup {r}
        /\ row[r].delivery \in {"UNCERTAIN", "SENDING"}
        /\ row[r].delivery = "SENDING" => \A w \in Worker : Busy(w) => worker[w].req # r
    BY <1>7 DEF LateDelivery
  <2>2. DeliveredLinkIsConsumable'
    BY <2>1 DEF Custody, DeliveredLinkIsConsumable, Consumable, Open
  <2>3. NotOutYet'
    BY <2>1 DEF Custody, NotOutYet, Busy
  <2>4. FreshIsUnsent'
    BY <2>1 DEF Custody, FreshIsUnsent
  <2> QED
    BY <2>1, <2>2, <2>3, <2>4 DEF Custody, OneSenderPerRequest, ClaimIsHeld,
                                  DeadIsClosed, Open, Busy
<1>8. ASSUME NEW w \in Worker, Finalize(w)
      PROVE  Custody'
  BY <1>8, FinalizeCustody
<1>9. ASSUME NEW w \in Worker, Crash(w)
      PROVE  Custody'
  <2>1. \A v \in Worker : Busy(v)' => Busy(v) /\ worker'[v] = worker[v]
    BY <1>9 DEF Crash, TypeOK, Busy
  <2>2. row' = row /\ delivered' = delivered /\ used' = used
    BY <1>9 DEF Crash
  <2>3. OneSenderPerRequest' /\ ClaimIsHeld' /\ NotOutYet'
    BY <2>1, <2>2 DEF Custody, OneSenderPerRequest, ClaimIsHeld, NotOutYet
  <2> QED
    BY <2>2, <2>3 DEF Custody, DeliveredLinkIsConsumable, DeadIsClosed, FreshIsUnsent, Open
<1>10. CASE ChangePassword \/ OperatorReset \/ SuspendMember
  <2>1. \A r \in Request : QuietRow(r)
    BY <1>10, TerminateAllQuiet, OperatorResetQuiet DEF ChangePassword, SuspendMember
  <2> QED
    BY <1>10, <2>1, QuietCustody DEF ChangePassword, OperatorReset, SuspendMember
<1>11. CASE \/ ReactivateMember \/ OrganisationTransition \/ ControlTransition
            \/ OperatorResetBegin \/ OperatorAbort \/ UNCHANGED vars
  <2>1. row' = row /\ worker' = worker /\ delivered' = delivered /\ used' = used
    BY <1>11 DEF ReactivateMember, OrganisationTransition, ControlTransition,
                 OperatorResetBegin, OperatorAbort, vars
  <2>2. \A r \in Request : QuietRow(r)
    BY <2>1 DEF QuietRow, Lasting, Open
  <2> QED
    BY <2>1, <2>2, QuietCustody
<1> QED
  BY <1>1, <1>2, <1>3, <1>4, <1>5, <1>6, <1>7, <1>8, <1>9, <1>10, <1>11 DEF Next

\* Custody of an account without requests.
LEMMA CustodyInit == Init => Custody
BY DEF Init, Custody, OneSenderPerRequest, DeliveredLinkIsConsumable,
       ClaimIsHeld, NotOutYet, DeadIsClosed, FreshIsUnsent,
       Open, Busy, NoRow

\* Every reachable state keeps custody.
THEOREM CustodyHolds == Spec => []Custody
BY CustodyInit, CustodyNext, TypeCorrect, PTL DEF Spec

-----------------------------------------------------------------------------
(* Under which password a request is open *)

\* Steps that leave the password alone and at most end the operator's reset.
LEMMA LastingCurrency ==
    ASSUME Currency, \A r \in Request : Lasting(r), pwd' = pwd,
           operator' = operator \/ operator' = Idle
    PROVE  Currency'
<1>1. OpenUnderCurrentPassword'
  BY DEF Currency, OpenUnderCurrentPassword, Lasting
<1>2. Covered'
  BY DEF Currency, Covered, Lasting
<1>3. SnapshotIssued'
  BY DEF Currency, SnapshotIssued
<1> QED
  BY <1>1, <1>2, <1>3 DEF Currency

\* Currency is inductive.
LEMMA CurrencyNext == TypeOK /\ Custody /\ Currency /\ [Next]_vars => Currency'
<1> SUFFICES ASSUME TypeOK, Custody, Currency, [Next]_vars PROVE Currency'
  OBVIOUS
<1>1. ASSUME NEW r \in Request, RequestReset(r) \/ IssueOperatorLink(r)
      PROVE  Currency'
  <2>1. /\ pwd' = pwd /\ row'[r].pwd = pwd
        /\ \A x \in Request : x # r => row'[x] = row[x]
    BY <1>1 DEF RequestReset, IssueOperatorLink, NewRow, NoRow, TypeOK
  <2>2. \/ operator' = Idle
        \/ operator' = operator /\ (operator # Idle => row'[r].raced)
    BY <1>1 DEF RequestReset, IssueOperatorLink, Unserialized, NewRow, NoRow, TypeOK
  <2>3. OpenUnderCurrentPassword'
    BY <2>1 DEF Currency, OpenUnderCurrentPassword, Open
  <2>4. Covered'
    BY <2>1, <2>2 DEF Currency, Covered, Open
  <2>5. SnapshotIssued'
    BY <2>2 DEF Currency, SnapshotIssued
  <2> QED
    BY <2>3, <2>4, <2>5 DEF Currency
<1>2. CASE ChangePassword \/ \E r \in Request : ResetPassword(r)
  <2>1. \A r \in Request : ~Open(r)'
    BY <1>2, TerminateAllQuiet DEF ChangePassword, ResetPassword
  <2>2. operator' = Idle
    BY <1>2 DEF ChangePassword, ResetPassword, Unserialized
  <2> QED
    BY <2>1, <2>2 DEF Currency, OpenUnderCurrentPassword, Covered, SnapshotIssued
<1>3. CASE OperatorResetBegin
  <2>1. row' = row /\ pwd' = pwd /\ operator'.rows = row
    BY <1>3 DEF OperatorResetBegin
  <2>2. OpenUnderCurrentPassword' /\ Covered'
    BY <2>1 DEF Currency, OpenUnderCurrentPassword, Covered, Open
  <2>3. SnapshotIssued'
    BY <2>1 DEF SnapshotIssued, Custody, DeadIsClosed, Open
  <2> QED
    BY <2>2, <2>3 DEF Currency
<1>4. CASE OperatorReset
  <2>1. pwd' = pwd + 1 /\ operator # Idle /\ operator' = Idle
    BY <1>4 DEF OperatorReset
  <2>2. ASSUME NEW r \in Request, Open(r)'
        PROVE  row'[r].raced /\ row'[r].pwd = pwd
    <3>1. Open(r) /\ ~operator.rows[r].open /\ row'[r].pwd = row[r].pwd
          /\ row'[r].raced = row[r].raced
      BY <1>4, <2>2, OperatorResetQuiet DEF QuietRow, Lasting
    <3> QED
      BY <2>1, <3>1 DEF Currency, Covered
  <2>3. OpenUnderCurrentPassword'
    BY <2>1, <2>2 DEF OpenUnderCurrentPassword
  <2> QED
    BY <2>1, <2>3 DEF Currency, Covered, SnapshotIssued
<1>5. ASSUME NEW w \in Worker, NEW r \in Request, Claim(w, r)
      PROVE  Currency'
  <2>1. \A x \in Request : Lasting(x)
    BY <1>5 DEF Claim, Lasting, Open, TypeOK, Row
  <2> QED
    BY <1>5, <2>1, LastingCurrency DEF Claim
<1>6. ASSUME NEW w \in Worker, Finalize(w)
      PROVE  Currency'
  <2>1. worker[w] \in Holding /\ worker[w].phase \in Outcome
    BY <1>6, HoldingType DEF Finalize
  <2> DEFINE r == worker[w].req
             y == Finalized(row[r], worker[w].phase)
  <2>2. r \in Request /\ row[r] \in Row
    BY <2>1 DEF Holding, TypeOK
  <2>3. y.open => row[r].open /\ y.pwd = row[r].pwd /\ y.raced = row[r].raced
    BY <2>1, <2>2, FinalizedEffect
  <2>4. \/ row' = row
        \/ row'[r] = y /\ \A x \in Request : x # r => row'[x] = row[x]
    BY <1>6, <2>2 DEF Finalize, TypeOK
  <2> HIDE DEF r, y
  <2>5. \A x \in Request : Lasting(x)
    BY <2>3, <2>4 DEF Lasting, Open
  <2> QED
    BY <1>6, <2>5, LastingCurrency DEF Finalize
<1>7. CASE \/ SuspendMember
           \/ \E r \in Request : ClaimRefused(r) \/ Cleanup(r) \/ Expire(r) \/ GoStale(r)
           \/ \E S \in SUBSET Request : Prepare(S)
  <2>1. pwd' = pwd /\ (operator' = operator \/ operator' = Idle)
    BY <1>7 DEF SuspendMember, Unserialized, ClaimRefused, Cleanup, Expire, GoStale, Prepare
  <2>2. \A r \in Request : Lasting(r)
    BY <1>7, TerminateAllQuiet, PrepareQuiet, RowStepQuiet DEF SuspendMember, QuietRow
  <2> QED
    BY <2>1, <2>2, LastingCurrency
<1>8. ASSUME row' = row, pwd' = pwd, operator' = operator \/ operator' = Idle
      PROVE  Currency'
  BY <1>8, LastingCurrency DEF Lasting, Open
<1> QED
  BY <1>1, <1>2, <1>3, <1>4, <1>5, <1>6, <1>7, <1>8
     DEF Next, Send, LateDelivery, Crash, ReactivateMember, OrganisationTransition,
         ControlTransition, OperatorAbort, Unserialized, vars

\* Currency of an account without requests.
LEMMA CurrencyInit == Init => Currency
BY DEF Init, Currency, OpenUnderCurrentPassword, Covered, SnapshotIssued, Open, NoRow

\* A request is open under the current password or, having come in during the
\* operator's reset, under the one which that reset replaced; and the snapshot of a
\* reset under way holds every other open request.
THEOREM CurrencyHolds == Spec => []Currency
BY CurrencyInit, CurrencyNext, TypeCorrect, CustodyHolds, PTL DEF Spec

\* Whatever replaces the password ends every link issued under the old one, for any
\* number of requests and workers, except a request that came in while the
\* operator's reset was under way.
THEOREM OpenLinksAreCurrent == Spec => []OpenUnderCurrentPassword
<1>1. Currency => OpenUnderCurrentPassword
  BY DEF Currency
<1> QED
  BY <1>1, CurrencyHolds, PTL

\* No two delivery workers ever hold the same request.
THEOREM SoleSender == Spec => []OneSenderPerRequest
<1>1. Custody => OneSenderPerRequest
  BY DEF Custody
<1> QED
  BY <1>1, CustodyHolds, PTL

\* A link that reached the mailbox works until it expires or is terminated.
THEOREM DeliveredLinksWork == Spec => []DeliveredLinkIsConsumable
<1>1. Custody => DeliveredLinkIsConsumable
  BY DEF Custody
<1> QED
  BY <1>1, CustodyHolds, PTL

-----------------------------------------------------------------------------
(* No resend *)

\* Attempts are counted only for a request whose email is not out.
LEMMA AttemptsNext ==
    ASSUME TypeOK, Custody, [Next]_vars
    PROVE  \A r \in delivered : row'[r].attempts = row[r].attempts
<1> SUFFICES ASSUME NEW d \in delivered PROVE row'[d].attempts = row[d].attempts
  OBVIOUS
<1>0. d \in Request /\ row[d] \in Row /\ row[d].delivery # "NONE"
  BY DEF TypeOK, Custody, FreshIsUnsent
<1>1. ASSUME NEW r \in Request, RequestReset(r) \/ IssueOperatorLink(r)
      PROVE  row'[d] = row[d]
  BY <1>0, <1>1 DEF RequestReset, IssueOperatorLink, TypeOK
<1>2. ASSUME NEW r \in Request, ClaimRefused(r) \/ Cleanup(r) \/ Expire(r) \/ GoStale(r)
      PROVE  row'[d].attempts = row[d].attempts
  BY <1>0, <1>2 DEF ClaimRefused, Cleanup, Expire, GoStale, Terminated, TypeOK, Row
<1>3. ASSUME TerminateAll
      PROVE  row'[d].attempts = row[d].attempts
  BY <1>0, <1>3 DEF TerminateAll, Terminated, TypeOK, Row
<1>7. ASSUME OperatorReset
      PROVE  row'[d].attempts = row[d].attempts
  BY <1>0, <1>7 DEF OperatorReset, Terminated, TypeOK, Row
<1>4. ASSUME NEW S \in SUBSET Request, Prepare(S)
      PROVE  row'[d].attempts = row[d].attempts
  <2>1. /\ PreparedDelivery(row[d]) \in Row
        /\ PreparedDelivery(row[d]).attempts = row[d].attempts
    BY <1>0 DEF PreparedDelivery, Quarantined, Row, Delivery
  <2>2. PreparedLifetime(PreparedDelivery(row[d])).attempts = PreparedDelivery(row[d]).attempts
    BY <2>1 DEF PreparedLifetime, Terminated, Row
  <2> QED
    BY <1>0, <1>4, <2>1, <2>2 DEF Prepare
<1>5. ASSUME NEW w \in Worker, NEW r \in Request, Claim(w, r)
      PROVE  row'[d] = row[d]
  <2>1. r # d
    BY <1>5 DEF Claim, Claimable, Custody, DeliveredLinkIsConsumable, Consumable
  <2> QED
    BY <1>0, <1>5, <2>1 DEF Claim, TypeOK
<1>6. ASSUME NEW w \in Worker, Finalize(w)
      PROVE  row'[d].attempts = row[d].attempts
  <2>1. worker[w] \in Holding /\ worker[w].phase \in Outcome
    BY <1>6, HoldingType DEF Finalize
  <2>2. Finalized(row[d], worker[w].phase).attempts = row[d].attempts
    BY <1>0, <2>1, FinalizedEffect
  <2> QED
    BY <1>0, <1>6, <2>1, <2>2 DEF Finalize, TypeOK, Holding
<1> QED
  BY <1>1, <1>2, <1>3, <1>4, <1>5, <1>6, <1>7
     DEF Next, ResetPassword, Send, LateDelivery, Crash, ChangePassword, SuspendMember,
         ReactivateMember, OrganisationTransition, ControlTransition,
         OperatorResetBegin, OperatorAbort, vars

\* A delivered email is never sent again.
THEOREM NoResend == Spec => NoResendAfterDelivery
<1>1. TypeOK /\ Custody /\ [Next]_vars
        => [\A r \in delivered : row'[r].attempts = row[r].attempts]_vars
  BY AttemptsNext
<1> QED
  BY <1>1, TypeCorrect, CustodyHolds, PTL DEF Spec, NoResendAfterDelivery

-----------------------------------------------------------------------------
(* Recovery implements one-time links *)

\* The promised step of a link between its issue and its use: nothing, or an
\* open link becomes void.
Fades(r) ==
    \/ LinkState(r)' = LinkState(r)
    \/ LinkState(r) = "open" /\ LinkState(r)' = "void"

\* The operator's reset is the replacement that takes time.
LEMMA ResetStep ==
    /\ operator' = operator => Links!GoesOn
    /\ operator' = Idle => Links!GivesUp
BY DEF Links!GoesOn, Links!GivesUp, Known

\* A link is open exactly while its request is.
LEMMA OpenLink ==
    ASSUME Custody, NEW r \in Request
    PROVE  LinkState(r) = "open" <=> Open(r)
BY DEF LinkState, Custody, DeadIsClosed

\* Links that only fade are expired by the abstract specification.
LEMMA FadeStep ==
    ASSUME \A r \in Request : Fades(r), pwd' = pwd,
           operator' = operator \/ operator' = Idle
    PROVE  Links!Next
<1> DEFINE S == {r \in Request : LinkState(r) = "open" /\ LinkState(r)' = "void"}
<1>1. S \in SUBSET Links!OpenLinks
  BY DEF Links!OpenLinks
<1>2. \A r \in Request : LinkState(r)' = IF r \in S THEN "void" ELSE LinkState(r)
  BY DEF Fades
<1>3. Links!GoesOn \/ Links!GivesUp
  BY ResetStep
<1>4. Links!Expire(S)
  BY <1>1, <1>2, <1>3 DEF Links!Expire, Links!Void
<1> QED
  BY <1>1, <1>4 DEF Links!Next

\* Quiet rows fade.
LEMMA QuietFades ==
    ASSUME Custody, Custody', used' = used, NEW r \in Request, QuietRow(r)
    PROVE  Fades(r)
<1>1. row'[r].delivery = "NONE" <=> row[r].delivery = "NONE"
  BY DEF QuietRow
<1> QED
  BY <1>1 DEF LinkState, Fades, QuietRow, Lasting, Custody, DeadIsClosed

\* Every step of recovery is a step of one-time links, or none.
LEMMA LinkNext ==
    ASSUME TypeOK, Custody, Custody', Currency, [Next]_vars
    PROVE  [Links!Next]_(Links!vars)
<1>1. ASSUME NEW r \in Request, RequestReset(r) \/ IssueOperatorLink(r)
      PROVE  Links!Issue(r)
  <2>0. row[r].delivery = "NONE"
    BY <1>1 DEF RequestReset, IssueOperatorLink
  <2>1. LinkState(r) = "none"
    BY <2>0 DEF LinkState, Custody, FreshIsUnsent
  <2>2. /\ row'[r].delivery # "NONE" /\ row'[r].open
        /\ \A x \in Request : x # r => row'[x] = row[x]
        /\ used' = used /\ pwd' = pwd
    BY <1>1 DEF RequestReset, IssueOperatorLink, NewRow, NoRow, TypeOK
  <2>3. LinkState(r)' = "open"
    BY <2>2 DEF LinkState, Open, Custody, DeadIsClosed
  <2>4. \A x \in Request : x # r => LinkState(x)' = LinkState(x)
    BY <2>2 DEF LinkState, Open
  <2>5. Links!GoesOn \/ Links!GivesUp
    BY <1>1, ResetStep DEF RequestReset, IssueOperatorLink, Unserialized
  <2> QED
    BY <2>1, <2>2, <2>3, <2>4, <2>5 DEF Links!Issue
<1>2. ASSUME NEW r \in Request, ResetPassword(r)
      PROVE  Links!Use(r)
  <2>1. \A x \in Request : QuietRow(x) /\ ~Open(x)'
    BY <1>2, TerminateAllQuiet DEF ResetPassword
  <2>2. used' = used \cup {r} /\ pwd' = pwd + 1 /\ row[r].delivery \in Consumable /\ Open(r)
    BY <1>2 DEF ResetPassword
  <2>3. LinkState(r) = "open" /\ LinkState(r)' = "used"
    BY <2>1, <2>2 DEF LinkState, QuietRow, Lasting, Consumable, Custody, DeadIsClosed
  <2>4. ASSUME NEW x \in Request, x # r
        PROVE  LinkState(x)' = IF LinkState(x) = "open" THEN "void" ELSE LinkState(x)
    BY <2>1, <2>2, <2>4 DEF LinkState, QuietRow, Lasting, Custody, DeadIsClosed
  <2>5. Links!GivesUp
    BY <1>2, ResetStep DEF ResetPassword, Unserialized
  <2> QED
    BY <2>2, <2>3, <2>4, <2>5 DEF Links!Use, Links!Void, Links!OpenLinks
<1>3. CASE ChangePassword
  <2>1. \A x \in Request : QuietRow(x) /\ ~Open(x)'
    BY <1>3, TerminateAllQuiet DEF ChangePassword
  <2>2. used' = used /\ pwd' = pwd + 1
    BY <1>3 DEF ChangePassword
  <2>3. ASSUME NEW x \in Request
        PROVE  LinkState(x)' = IF LinkState(x) = "open" THEN "void" ELSE LinkState(x)
    BY <2>1, <2>2 DEF LinkState, QuietRow, Lasting, Custody, DeadIsClosed
  <2>4. Links!GivesUp
    BY <1>3, ResetStep DEF ChangePassword, Unserialized
  <2> QED
    BY <2>2, <2>3, <2>4 DEF Links!Next, Links!Replace, Links!Void, Links!OpenLinks
<1>9. CASE OperatorResetBegin
  <2>1. /\ row' = row /\ used' = used /\ pwd' = pwd
        /\ operator = Idle /\ operator' # Idle /\ operator'.rows = row
    BY <1>9 DEF OperatorResetBegin, Idle
  <2>2. Known' = {r \in Request : LinkState(r) = "open"}
    BY <2>1, OpenLink DEF Known, Open
  <2>3. \A r \in Request : LinkState(r)' = LinkState(r)
    BY <2>1 DEF LinkState, Open
  <2> QED
    BY <2>1, <2>2, <2>3 DEF Links!Next, Links!Start, Links!OpenLinks
<1>10. CASE OperatorReset
  <2>1. \A r \in Request : QuietRow(r) /\ (operator.rows[r].open => ~Open(r)')
    BY <1>10, OperatorResetQuiet
  <2>2. /\ operator # Idle /\ Undisturbed /\ used' = used /\ pwd' = pwd + 1
        /\ \A r \in Request : ~operator.rows[r].open => row'[r] = row[r]
    BY <1>10 DEF OperatorReset
  <2>3. ASSUME NEW r \in Request, operator.rows[r].open
        PROVE  Open(r)
    <3>1. operator.rows[r].delivery # "NONE"
      BY <2>2, <2>3 DEF Currency, SnapshotIssued
    <3>2. Columns(row[r]) = Columns(operator.rows[r])
      BY <2>2, <3>1 DEF Undisturbed
    <3> QED
      BY <2>3, <3>2 DEF Columns, Open
  <2>4. Known \subseteq {r \in Request : LinkState(r) = "open"}
    BY <2>3, OpenLink DEF Known
  <2>5. ASSUME NEW r \in Request
        PROVE  LinkState(r)' = IF r \in Known THEN "void" ELSE LinkState(r)
    <3>1. CASE r \in Known
      BY <2>1, <2>2, <2>3, <3>1 DEF Known, LinkState, QuietRow, Custody, DeadIsClosed
    <3>2. CASE r \notin Known
      BY <2>2, <3>2 DEF Known, LinkState, Open
    <3> QED
      BY <3>1, <3>2
  <2>6. Links!GivesUp
    BY <1>10, ResetStep DEF OperatorReset
  <2> QED
    BY <2>2, <2>4, <2>5, <2>6 DEF Links!Next, Links!Finish, Links!Void, Links!OpenLinks
<1>4. ASSUME used' = used, pwd' = pwd, \A r \in Request : QuietRow(r),
             operator' = operator \/ operator' = Idle
      PROVE  Links!Next
  BY <1>4, QuietFades, FadeStep
<1>5. ASSUME NEW w \in Worker, NEW r \in Request, Claim(w, r)
      PROVE  Links!Next
  <2>1. /\ row[r].delivery = "PENDING" /\ row'[r].delivery = "SENDING"
        /\ row'[r].open = row[r].open
        /\ \A x \in Request : x # r => row'[x] = row[x]
        /\ used' = used /\ pwd' = pwd /\ operator' = operator
    BY <1>5 DEF Claim, Claimable, TypeOK, Row
  <2>2. \A x \in Request : LinkState(x)' = LinkState(x)
    BY <2>1 DEF LinkState, Open
  <2> QED
    BY <2>1, <2>2, FadeStep DEF Fades
<1>6. ASSUME NEW w \in Worker, Finalize(w)
      PROVE  Links!Next
  <2>1. worker[w] \in Holding /\ worker[w].phase \in Outcome
    BY <1>6, HoldingType DEF Finalize
  <2> DEFINE r == worker[w].req
             y == Finalized(row[r], worker[w].phase)
  <2>2. r \in Request /\ row[r] \in Row
    BY <2>1 DEF Holding, TypeOK
  <2>3. (y.open => row[r].open) /\ y.delivery # "NONE"
    BY <2>1, <2>2, FinalizedEffect
  <2>4. /\ row' = row \/ (row[r].delivery = "SENDING" /\ row'[r] = y
                            /\ \A x \in Request : x # r => row'[x] = row[x])
        /\ used' = used /\ pwd' = pwd /\ operator' = operator
    BY <1>6, <2>2 DEF Finalize, TypeOK
  <2> HIDE DEF r, y
  <2>5. ASSUME NEW x \in Request PROVE Fades(x)
    BY <2>3, <2>4 DEF Fades, LinkState, Open, Custody, DeadIsClosed
  <2> QED
    BY <2>4, <2>5, FadeStep
<1>7. CASE \/ SuspendMember
           \/ \E r \in Request : ClaimRefused(r) \/ Cleanup(r) \/ Expire(r) \/ GoStale(r)
           \/ \E S \in SUBSET Request : Prepare(S)
  <2>1. used' = used /\ pwd' = pwd /\ (operator' = operator \/ operator' = Idle)
    BY <1>7 DEF SuspendMember, Unserialized, ClaimRefused, Cleanup, Expire, GoStale, Prepare
  <2>2. \A r \in Request : QuietRow(r)
    BY <1>7, TerminateAllQuiet, PrepareQuiet, RowStepQuiet DEF SuspendMember
  <2> QED
    BY <1>4, <2>1, <2>2
<1>8. ASSUME row' = row, used' = used, pwd' = pwd, operator' = operator \/ operator' = Idle
      PROVE  Links!Next
  BY <1>8, FadeStep DEF Fades, LinkState, Open
<1> QED
  BY <1>1, <1>2, <1>3, <1>5, <1>6, <1>7, <1>8, <1>9, <1>10
     DEF Next, Links!Next, Send, LateDelivery, Crash, ReactivateMember,
         OrganisationTransition, ControlTransition, OperatorAbort, Unserialized, vars

\* Recovery starts as one-time links do.
LEMMA LinkInit == Init => Links!Init
BY DEF Init, Links!Init, LinkState, NoRow, Known

\* Password recovery implements OneTimeLink: whatever delivery, crashes and late
\* answers do, a link is issued once, using one replaces the password and voids
\* every other open link in the same step, and the operator's reset voids the
\* links that were open when it started, or nothing.
THEOREM Refinement == Spec => ImplementsOneTimeLink
BY LinkInit, LinkNext, TypeCorrect, CustodyHolds, CurrencyHolds, PTL DEF Spec, ImplementsOneTimeLink, Links!Spec
=============================================================================
