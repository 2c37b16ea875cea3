------------------------------- MODULE Billing -------------------------------
(***************************************************************************)
(* Checkout and Billing Portal of one organisation: the owner's requests,  *)
(* the authority grants that tie a provider capability to its claimant,    *)
(* the checkout attempt, Stripe, its completion webhook, the interlock on  *)
(* ownership changes and the operator's release of a grant.                *)
(* billing.service.ts, billing-authority-interlock.ts,                     *)
(* jobs/reconcile-billing-authority.ts and the grant migration.            *)
(*                                                                         *)
(* A database transaction and a call of Stripe are one action each.  The   *)
(* Checkout session and the subscription of an attempt are named by the    *)
(* attempt: it is the idempotency key of the first and in the metadata of  *)
(* both.  0 stands for a null id.  The owner has one session; a request    *)
(* from another one is refused while a grant is open.                      *)
(***************************************************************************)
EXTENDS Naturals

CONSTANTS
    User,          \* members who may own the organisation
    Request,       \* requests the API works on at a time
    MaxAttempts,   \* bound on the checkout attempts
    MaxGrants      \* bound on the authority grants

ASSUME BillingAssumption ==
    /\ User # {}
    /\ MaxAttempts \in Nat
    /\ MaxGrants \in Nat

Attempt == 1..MaxAttempts
Grant == 1..MaxGrants

VARIABLES
    owner,      \* the active owner
    grant,      \* BillingAuthorityGrant rows
    attempt,    \* the organisation's BillingCheckoutAttempt row
    elapsed,    \* attempts whose expiresAt has passed
    local,      \* Subscription.stripeSubscriptionId
    recorded,   \* attempts whose completion event is in StripeWebhookEvent
    request,    \* the requests in progress
    wire,       \* create calls sent to Stripe and not yet carried out
    checkout,   \* status of each Checkout session at Stripe
    by,         \* the grant in the metadata of each Checkout session
    portal,     \* status of each grant's Billing Portal session at Stripe
    sub,        \* each attempt's subscription at Stripe
    shown,      \* grants whose capability was returned to the browser
    hooks       \* completion events between their retrieval and their transaction

vars == <<owner, grant, attempt, elapsed, local, recorded, request, wire, checkout,
          by, portal, sub, shown, hooks>>
rows == <<owner, grant, attempt, local, recorded>>
stripe == <<checkout, by, portal, sub>>

-----------------------------------------------------------------------------
Kind == {"CHECKOUT", "PORTAL"}
Open == {"CLAIMED", "PROVIDER_STARTED", "CAPABILITY_ISSUED"}

\* Why a grant was released: NOT_ISSUED, REVOKED, TERMINAL and ELAPSED stand for
\* the four reasons of a checkout, ATTESTED for the one of a portal.
Reason == {"NOT_ISSUED", "REVOKED", "TERMINAL", "ELAPSED", "ATTESTED"}

\* Constraints state_evidence_check and release_reason_consistency_check.
GrantRow == {r \in [kind: Kind, actor: User, state: Open \cup {"RELEASED"},
                    resource: 0..MaxAttempts, reason: Reason \cup {"none"}] :
               /\ r.state = "RELEASED" <=> r.reason # "none"
               /\ r.state \in {"CLAIMED", "PROVIDER_STARTED"} => r.resource = 0
               /\ r.kind = "CHECKOUT" /\ r.state = "CAPABILITY_ISSUED" => r.resource # 0
               /\ r.reason \in {"REVOKED", "TERMINAL", "ELAPSED"} => r.resource # 0
               /\ r.reason = "ATTESTED" => r.kind = "PORTAL"}
NoGrant == [state |-> "none"]

\* previous is expectedPreviousStripeSubscriptionId.
AttemptRow == [id: Attempt, status: {"PENDING", "SESSION_CREATED", "COMPLETED"},
               previous: 0..MaxAttempts]
NoAttempt == [id |-> 0, status |-> "COMPLETED", previous |-> 0]

\* Where a request is, the grant it created or joined, the
\* subscriptions Stripe listed as terminal, the attempt it works on, and the last
\* attempt that was more than PENDING when it began.
Step == {"idle", "issued", "started", "legacy", "reconcile", "list", "attempt",
         "start", "creating", "record", "check", "failing"}
RequestState == [at: Step, grant: 0..MaxGrants, terminal: SUBSET Attempt,
                 attempt: 0..MaxAttempts, since: 0..MaxAttempts]
Idle == [at |-> "idle", grant |-> 0, terminal |-> {}, attempt |-> 0, since |-> 0]

\* Every variable has its type; a grant row satisfies the constraints on its
\* state, evidence and release reason whatever mix of requests, webhooks and
\* operators wrote it.
TypeOK ==
    /\ owner \in User
    /\ grant \in [Grant -> GrantRow \cup {NoGrant}]
    /\ attempt \in AttemptRow \cup {NoAttempt}
    /\ elapsed \subseteq Attempt
    /\ local \in 0..MaxAttempts
    /\ recorded \subseteq Attempt
    /\ request \in [Request -> RequestState]
    /\ wire \subseteq [grant: Grant, attempt: 0..MaxAttempts]
    /\ checkout \in [Attempt -> {"none", "open", "complete", "expired"}]
    /\ by \in [Attempt -> 0..MaxGrants]
    /\ portal \in [Grant -> {"none", "open", "ended"}]
    /\ sub \in [Attempt -> {"none", "live", "ended"}]
    /\ shown \subseteq Grant
    /\ hooks \subseteq Attempt

Init ==
    /\ owner \in User
    /\ grant = [g \in Grant |-> NoGrant]
    /\ attempt = NoAttempt
    /\ elapsed = {}
    /\ local = 0
    /\ recorded = {}
    /\ request = [r \in Request |-> Idle]
    /\ wire = {}
    /\ checkout = [a \in Attempt |-> "none"]
    /\ by = [a \in Attempt |-> 0]
    /\ portal = [g \in Grant |-> "none"]
    /\ sub = [a \in Attempt |-> "none"]
    /\ shown = {}
    /\ hooks = {}

-----------------------------------------------------------------------------
OpenGrants == {g \in Grant : grant[g].state \in Open}

\* The attempt row that must not be replaced: neither completed nor expired.
Pending == attempt.status # "COMPLETED" /\ attempt.id \notin elapsed

\* The last attempt beyond PENDING.
Settled == IF attempt.status = "PENDING" THEN attempt.id - 1 ELSE attempt.id

Goes(r, step) == request' = [request EXCEPT ![r].at = step]
Ends(r) == request' = [request EXCEPT ![r] = Idle]
Own(r) == request[r].grant

Released(row, reason) == [row EXCEPT !.state = "RELEASED", !.reason = reason]

\* An issued checkout whose safeReleaseAfter, the attempt's expiresAt, has passed.
SafelyElapsed(g) ==
    /\ grant[g].kind = "CHECKOUT"
    /\ grant[g].state = "CAPABILITY_ISSUED"
    /\ grant[g].resource \in elapsed

\* Mutant: a grant whose safe-release time has not come is released as well.
InterlockUntimed ==
    /\ \A g \in OpenGrants : grant[g].state = "CAPABILITY_ISSUED" /\ grant[g].kind = "CHECKOUT"
    /\ grant' = [g \in Grant |-> IF g \in OpenGrants THEN Released(grant[g], "ELAPSED")
                                                     ELSE grant[g]]

\* assertBillingAuthorityAllowsOwnershipChange: refused while a grant is open,
\* unless it has safely elapsed; that one is released.
Interlock ==
    /\ \A g \in OpenGrants : SafelyElapsed(g)
    /\ grant' = [g \in Grant |-> IF g \in OpenGrants THEN Released(grant[g], "ELAPSED")
                                                     ELSE grant[g]]

\* Ownership moves: transferOwnership, recover-team-ownership.
MoveOwnership(u) ==
    /\ u # owner
    /\ owner' = u
    /\ Interlock
    /\ UNCHANGED <<attempt, elapsed, local, recorded, request, wire, stripe, shown, hooks>>

\* claimCurrentOwnerAuthority joins the open grant of the same claimant...
JoinGrant(r, kind) ==
    /\ request[r] = Idle
    /\ \E g \in OpenGrants :
         /\ ~SafelyElapsed(g)
         /\ grant[g].kind = kind /\ grant[g].actor = owner
         /\ kind = "PORTAL" => grant[g].state = "CLAIMED"
         /\ request' = [request EXCEPT ![r] =
              [Idle EXCEPT !.grant = g, !.since = Settled,
                 !.at = CASE kind = "PORTAL"                         -> "start"
                          [] grant[g].state = "CAPABILITY_ISSUED"    -> "issued"
                          [] grant[g].state = "PROVIDER_STARTED"     -> "started"
                          [] OTHER                                   -> "reconcile"]]
    /\ UNCHANGED <<rows, elapsed, wire, stripe, shown, hooks>>

\* ... or creates one, after releasing a checkout that has safely elapsed.
NewGrant(r, kind) ==
    /\ request[r] = Idle
    /\ \A g \in OpenGrants : SafelyElapsed(g)
    /\ \E g \in Grant :
         /\ \A f \in Grant : grant[f] = NoGrant <=> f >= g
         /\ grant' = [f \in Grant |->
              IF f = g THEN [kind |-> kind, actor |-> owner, state |-> "CLAIMED",
                             resource |-> 0, reason |-> "none"]
              ELSE IF f \in OpenGrants THEN Released(grant[f], "ELAPSED")
              ELSE grant[f]]
         /\ request' = [request EXCEPT ![r] =
              [Idle EXCEPT !.grant = g, !.since = Settled,
                 !.at = IF kind = "PORTAL" THEN "start" ELSE "legacy"]]
    /\ UNCHANGED <<owner, attempt, local, recorded, elapsed, wire, stripe, shown, hooks>>

\* createCheckoutSessionForCurrentOwner with an issued grant: its URL again.
ReuseIssued(r) ==
    /\ request[r].at = "issued"
    /\ IF attempt.status = "SESSION_CREATED" /\ Pending
            /\ attempt.id = grant[Own(r)].resource
         THEN request' = [request EXCEPT ![r].at = "check", ![r].attempt = attempt.id]
         ELSE Ends(r)
    /\ UNCHANGED <<rows, elapsed, wire, stripe, shown, hooks>>

\* The same with a started grant whose session was recorded.
ResumeStarted(r) ==
    /\ request[r].at = "started"
    /\ IF attempt.status = "SESSION_CREATED" /\ Pending
         THEN request' = [request EXCEPT ![r].at = "record", ![r].attempt = attempt.id]
         ELSE Ends(r)
    /\ UNCHANGED <<rows, elapsed, wire, stripe, shown, hooks>>

\* Mutant: a release without its reason.
GivesBackSilently(g) ==
    grant' = IF grant[g].state = "CLAIMED"
               THEN [grant EXCEPT ![g].state = "RELEASED"]
               ELSE grant

\* releaseClaimedBillingAuthorityWithoutCapability.
GivesBack(g) ==
    grant' = IF grant[g].state = "CLAIMED"
               THEN [grant EXCEPT ![g] = Released(@, "NOT_ISSUED")]
               ELSE grant

\* The creator of a grant steps back from an attempt no open grant is bound to.
LegacyAttempt(r) ==
    /\ request[r].at = "legacy"
    /\ IF Pending THEN GivesBack(Own(r)) /\ Ends(r)
                  ELSE Goes(r, "reconcile") /\ UNCHANGED grant
    /\ UNCHANGED <<owner, attempt, local, recorded, elapsed, wire, stripe, shown, hooks>>

\* The error path of a request that never started the provider.
GiveBack(r) ==
    /\ request[r].at = "failing"
    /\ GivesBack(Own(r))
    /\ Ends(r)
    /\ UNCHANGED <<owner, attempt, local, recorded, elapsed, wire, stripe, shown, hooks>>

-----------------------------------------------------------------------------
\* reconcileExpiredCheckoutAttempt: an expired attempt's session must not have
\* been completed, and is closed when Stripe still calls it open.
ReconcileExpired(r) ==
    /\ request[r].at = "reconcile"
    /\ LET a == attempt.id
           recordedSession == attempt.status = "SESSION_CREATED" /\ a \in elapsed
       IN /\ Goes(r, IF recordedSession /\ checkout[a] = "complete" THEN "failing" ELSE "list")
          /\ checkout' = IF recordedSession /\ checkout[a] = "open"
                           THEN [checkout EXCEPT ![a] = "expired"]
                           ELSE checkout
    /\ UNCHANGED <<rows, elapsed, wire, by, portal, sub, shown, hooks>>

\* Mutant: only a subscription the organisation does not know stops a checkout.
ListSubscriptionsKnown(r) ==
    /\ request[r].at = "list"
    /\ IF \E a \in Attempt : sub[a] = "live" /\ a # local
         THEN Goes(r, "failing")
         ELSE request' = [request EXCEPT ![r].at = "attempt",
                            ![r].terminal = {a \in Attempt : sub[a] # "none"}]
    /\ UNCHANGED <<rows, elapsed, wire, stripe, shown, hooks>>

\* assertNoNonTerminalStripeSubscriptions.
ListSubscriptions(r) ==
    /\ request[r].at = "list"
    /\ IF \E a \in Attempt : sub[a] = "live"
         THEN Goes(r, "failing")
         ELSE request' = [request EXCEPT ![r].at = "attempt",
                            ![r].terminal = {a \in Attempt : sub[a] = "ended"}]
    /\ UNCHANGED <<rows, elapsed, wire, stripe, shown, hooks>>

\* Mutant: a new attempt does not expect the subscription it replaces.
ClaimAttemptUnlinked(r) ==
    /\ request[r].at = "attempt"
    /\ IF \/ local # 0 /\ local \notin request[r].terminal
          \/ Pending /\ attempt.status = "SESSION_CREATED"
         THEN Goes(r, "failing") /\ UNCHANGED attempt
         ELSE /\ Pending \/ attempt.id < MaxAttempts
              /\ attempt' = IF Pending THEN attempt
                            ELSE [id |-> attempt.id + 1, status |-> "PENDING",
                                  previous |-> 0]
              /\ request' = [request EXCEPT ![r].at = "start", ![r].attempt = attempt'.id]
    /\ UNCHANGED <<owner, grant, local, recorded, elapsed, wire, stripe, shown, hooks>>

\* claimCheckoutAttempt: the pending attempt, or a new one in place of a dead one.
\* A session already recorded is not this request's to return.
ClaimAttempt(r) ==
    /\ request[r].at = "attempt"
    /\ IF \/ local # 0 /\ local \notin request[r].terminal
          \/ Pending /\ attempt.status = "SESSION_CREATED"
         THEN Goes(r, "failing") /\ UNCHANGED attempt
         ELSE /\ Pending \/ attempt.id < MaxAttempts
              /\ attempt' = IF Pending THEN attempt
                            ELSE [id |-> attempt.id + 1, status |-> "PENDING",
                                  previous |-> local]
              /\ request' = [request EXCEPT ![r].at = "start", ![r].attempt = attempt'.id]
    /\ UNCHANGED <<owner, grant, local, recorded, elapsed, wire, stripe, shown, hooks>>

\* A check or a call before the provider is started fails: another plan than the
\* pending attempt's, too little of its lease left, no answer from Stripe.
FailsEarly(r) ==
    /\ request[r].at \in {"reconcile", "list", "attempt", "start"}
    /\ Goes(r, "failing")
    /\ UNCHANGED <<rows, elapsed, wire, stripe, shown, hooks>>

\* markBillingProviderStarted, and the create call leaves for Stripe.
StartProvider(r) ==
    /\ request[r].at = "start"
    /\ IF grant[Own(r)].state = "CLAIMED"
         THEN /\ grant' = [grant EXCEPT ![Own(r)].state = "PROVIDER_STARTED"]
              /\ wire' = wire \cup {[grant |-> Own(r), attempt |-> request[r].attempt]}
              /\ Goes(r, "creating")
         ELSE Goes(r, "failing") /\ UNCHANGED <<grant, wire>>
    /\ UNCHANGED <<owner, attempt, local, recorded, elapsed, stripe, shown, hooks>>

\* Stripe carries out a create call: a Checkout session (once for its idempotency
\* key, and only with half an hour of its lease left) or a portal session.
CreateCheckout(m) ==
    /\ m \in wire /\ m.attempt # 0
    /\ wire' = wire \ {m}
    /\ IF checkout[m.attempt] = "none" /\ m.attempt \notin elapsed
         THEN /\ checkout' = [checkout EXCEPT ![m.attempt] = "open"]
              /\ by' = [by EXCEPT ![m.attempt] = m.grant]
         ELSE UNCHANGED <<checkout, by>>
    /\ UNCHANGED <<rows, elapsed, request, portal, sub, shown, hooks>>

CreatePortal(m) ==
    /\ m \in wire /\ m.attempt = 0
    /\ wire' = wire \ {m}
    /\ portal' = [portal EXCEPT ![m.grant] = "open"]
    /\ UNCHANGED <<rows, elapsed, request, checkout, by, sub, shown, hooks>>

CreateLost(m) ==
    /\ m \in wire
    /\ wire' = wire \ {m}
    /\ UNCHANGED <<rows, elapsed, request, stripe, shown, hooks>>

\* Stripe's answer: the attempt records its session (a portal has no attempt).
Answered(r) ==
    LET a == request[r].attempt IN
      IF a = 0 THEN portal[Own(r)] # "none"
               ELSE checkout[a] # "none" /\ by[a] = Own(r)
Finalize(r) ==
    /\ request[r].at = "creating"
    /\ Answered(r)
    /\ attempt' = IF attempt.id = request[r].attempt /\ attempt.status = "PENDING"
                    THEN [attempt EXCEPT !.status = "SESSION_CREATED"]
                    ELSE attempt
    /\ IF request[r].attempt = 0 \/ attempt.id = request[r].attempt
         THEN Goes(r, "record")
         ELSE Ends(r)
    /\ UNCHANGED <<owner, grant, local, recorded, elapsed, wire, stripe, shown, hooks>>

\* The evidence recordBillingCapabilityIssued and the final check accept: this
\* capability issued, or completed and released by its webhook.
IssuedOrTerminal(row, a) ==
    /\ row.resource = a
    /\ \/ row.state = "CAPABILITY_ISSUED"
       \/ row.state = "RELEASED" /\ row.reason = "TERMINAL"

\* recordBillingCapabilityIssued.
RecordIssued(r) ==
    /\ request[r].at = "record"
    /\ LET g == Own(r) IN
         /\ grant' = IF grant[g].state = "PROVIDER_STARTED"
                       THEN [grant EXCEPT ![g].state = "CAPABILITY_ISSUED",
                                          ![g].resource = request[r].attempt]
                       ELSE grant
         /\ IF IssuedOrTerminal(grant'[g], request[r].attempt) THEN Goes(r, "check") ELSE Ends(r)
    /\ UNCHANGED <<owner, attempt, local, recorded, elapsed, wire, stripe, shown, hooks>>

\* assertBillingCapabilityClaimantStillCurrent; only then is the URL returned.
ReturnCapability(r) ==
    /\ request[r].at = "check"
    /\ LET row == grant[Own(r)] IN
         shown' = IF IssuedOrTerminal(row, request[r].attempt) /\ row.actor = owner
                    THEN shown \cup {Own(r)} ELSE shown
    /\ Ends(r)
    /\ UNCHANGED <<rows, elapsed, wire, stripe, hooks>>

\* A request dies with its process, loses its answer from Stripe, or finds its
\* session revoked at the final check.
Crash(r) ==
    /\ request[r] # Idle
    /\ Ends(r)
    /\ UNCHANGED <<rows, elapsed, wire, stripe, shown, hooks>>

-----------------------------------------------------------------------------
\* The attempt's lease runs out.  A session is created with half an hour of it
\* left and no request takes that long, so those in progress neither work on the
\* attempt nor began before its session was recorded.
Elapse ==
    /\ attempt.id \in Attempt \ elapsed
    /\ \A r \in Request : request[r] # Idle =>
         /\ request[r].attempt # attempt.id
         /\ attempt.status # "PENDING" => request[r].since >= attempt.id
    /\ elapsed' = elapsed \cup {attempt.id}
    /\ UNCHANGED <<rows, request, wire, stripe, shown, hooks>>

\* The URL of a Checkout session takes a payment until expires_at.
Payable(a) == checkout[a] = "open" /\ a \notin elapsed /\ by[a] \in shown

Pay(a) ==
    /\ Payable(a)
    /\ checkout' = [checkout EXCEPT ![a] = "complete"]
    /\ sub' = [sub EXCEPT ![a] = "live"]
    /\ UNCHANGED <<rows, elapsed, request, wire, by, portal, shown, hooks>>

\* A subscription ends: cancelled in the portal, or unpaid.
Cancel(a) ==
    /\ sub[a] = "live"
    /\ sub' = [sub EXCEPT ![a] = "ended"]
    /\ UNCHANGED <<rows, elapsed, request, wire, checkout, by, portal, shown, hooks>>

\* A session is closed: by an operator, or by Stripe when it expires.
CloseCheckout(a) ==
    /\ checkout[a] = "open"
    /\ checkout' = [checkout EXCEPT ![a] = "expired"]
    /\ UNCHANGED <<rows, elapsed, request, wire, by, portal, sub, shown, hooks>>

ClosePortal(g) ==
    /\ portal[g] = "open"
    /\ portal' = [portal EXCEPT ![g] = "ended"]
    /\ UNCHANGED <<rows, elapsed, request, wire, checkout, by, sub, shown, hooks>>

\* handleWebhook: checkout.session.completed is delivered until a transaction
\* records it; the subscription is retrieved and must be the only one left.
DeliverCompleted(a) ==
    /\ checkout[a] = "complete" /\ a \notin recorded \cup hooks
    /\ \A b \in Attempt \ {a} : sub[b] # "live"
    /\ hooks' = hooks \cup {a}
    /\ UNCHANGED <<rows, elapsed, request, wire, stripe, shown>>

\* handleCheckoutCompleted, in one transaction with the event's record.  What a
\* request or a claim of the attempt commits under it makes its updates fail (the
\* row is gone, recorded evidence is immutable) and the event is delivered again.
Accepts(a) ==
    /\ attempt.id = a
    /\ local = attempt.previous
    /\ grant[by[a]].kind = "CHECKOUT" /\ grant[by[a]].resource \in {0, a}
CompleteCheckout(a) ==
    /\ a \in hooks
    /\ Accepts(a)
    /\ local' = a
    /\ attempt' = [attempt EXCEPT !.status = "COMPLETED"]
    /\ grant' = [grant EXCEPT ![by[a]] = IF @.state = "RELEASED" THEN @
                                         ELSE Released([@ EXCEPT !.resource = a], "TERMINAL")]
    /\ recorded' = recorded \cup {a}
    /\ hooks' = hooks \ {a}
    /\ UNCHANGED <<owner, elapsed, request, wire, stripe, shown>>

\* The transaction is refused, or the process dies before it: Stripe delivers again.
LoseDelivery(a) ==
    /\ a \in hooks
    /\ hooks' = hooks \ {a}
    /\ UNCHANGED <<rows, elapsed, request, wire, stripe, shown>>

-----------------------------------------------------------------------------
\* reconcile-billing-authority --release, with evidence that is true.  Without
\* an issued capability the operator has drained the provider I/O.
Quiesced(g) ==
    /\ \A r \in Request : Own(r) # g
    /\ \A m \in wire : m.grant # g
NoneOutstanding(g) == \A a \in Attempt : by[a] = g => checkout[a] = "expired"

AssertReasonAllowed(g, reason) ==
    LET row == grant[g] IN
      \/ /\ row.kind = "PORTAL" /\ reason = "ATTESTED"
         /\ portal[g] # "open"
      \/ /\ row.kind = "CHECKOUT" /\ reason = "NOT_ISSUED"
         /\ row.resource = 0 /\ NoneOutstanding(g)
      \/ /\ row.kind = "CHECKOUT" /\ reason = "REVOKED"
         /\ row.resource # 0 /\ checkout[row.resource] = "expired"
      \/ /\ row.kind = "CHECKOUT" /\ reason = "TERMINAL"
         /\ row.resource # 0 /\ checkout[row.resource] \in {"complete", "expired"}
      \/ reason = "ELAPSED" /\ SafelyElapsed(g)

OperatorRelease(g, reason) ==
    /\ g \in OpenGrants
    /\ grant[g].state # "CAPABILITY_ISSUED" => Quiesced(g)
    /\ AssertReasonAllowed(g, reason)
    /\ grant' = [grant EXCEPT ![g] = Released(@, reason)]
    /\ UNCHANGED <<owner, attempt, local, recorded, elapsed, request, wire, stripe, shown,
                   hooks>>

-----------------------------------------------------------------------------
CheckoutStep(r) ==
    \/ ReuseIssued(r) \/ ResumeStarted(r) \/ LegacyAttempt(r) \/ ReconcileExpired(r)
    \/ ListSubscriptions(r) \/ ClaimAttempt(r) \/ FailsEarly(r) \/ GiveBack(r)
    \/ StartProvider(r) \/ Finalize(r) \/ RecordIssued(r) \/ ReturnCapability(r)

Next ==
    \/ \E u \in User : MoveOwnership(u)
    \/ \E r \in Request, k \in Kind : JoinGrant(r, k) \/ NewGrant(r, k)
    \/ \E r \in Request : CheckoutStep(r) \/ Crash(r)
    \/ \E m \in wire : CreateCheckout(m) \/ CreatePortal(m) \/ CreateLost(m)
    \/ Elapse
    \/ \E a \in Attempt : Pay(a) \/ Cancel(a) \/ CloseCheckout(a)
    \/ \E g \in Grant : ClosePortal(g)
    \/ \E a \in Attempt : DeliverCompleted(a) \/ CompleteCheckout(a) \/ LoseDelivery(a)
    \/ \E g \in Grant, reason \in Reason : OperatorRelease(g, reason)

Spec == Init /\ [][Next]_vars

-----------------------------------------------------------------------------
\* "at most one non-terminal subscription": no interleaving of owner requests,
\* payments, late webhooks and operator releases gives the customer two
\* subscriptions at Stripe that are not terminal.
OneLiveSubscription ==
    \A a, b \in Attempt : sub[a] = "live" /\ sub[b] = "live" => a = b

\* The authority interlock: while a browser holds a Checkout session that takes
\* payments or an open portal session, the member it was issued to owns the
\* organisation.
CapabilityKeepsOwner ==
    /\ \A a \in Attempt : Payable(a) => grant[by[a]].actor = owner
    /\ \A g \in shown : portal[g] = "open" => grant[g].actor = owner

\* A subscription that charges is known: it is the one the organisation records,
\* or its attempt is still there and accepts the completion event when Stripe
\* delivers it.
PaidIsNotForgotten ==
    \A a \in Attempt : sub[a] = "live" =>
      \/ local = a
      \/ attempt.status # "COMPLETED" /\ Accepts(a)
=============================================================================
