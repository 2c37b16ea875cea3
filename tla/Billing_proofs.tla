---------------------------- MODULE Billing_proofs ----------------------------
(***************************************************************************)
(* Proofs about Billing, for any members, requests and bounds: whatever    *)
(* requests, Stripe, webhooks and operators do in between, a customer has  *)
(* one live subscription at most, a capability that works belongs to the   *)
(* owner, and what was paid for is known to the organisation.              *)
(*                                                                         *)
(* The argument: at most one grant is open and its actor is the owner      *)
(* (OneOpenGrant).  A session that can take a payment belongs to a grant   *)
(* that is open and past CLAIMED (Sessions), while a request that has      *)
(* listed Stripe's subscriptions may only start a grant that is still      *)
(* CLAIMED (Payments): so between the listing and the creation of a        *)
(* session nothing else can be paid.                                       *)
(***************************************************************************)
EXTENDS Billing, TLAPS

-----------------------------------------------------------------------------
\* Where requests, calls and sessions may be: they belong to a grant that exists
\* and is of their kind.
Engaged == {"PROVIDER_STARTED", "CAPABILITY_ISSUED"}
Begun == Engaged \cup {"RELEASED"}

PlacedRequest(r) ==
    LET q == request[r] IN
      /\ q.at = "idle" => q = Idle
      /\ q.at # "idle" =>
           /\ q.grant \in Grant /\ grant[q.grant] # NoGrant
           /\ q.at \in {"issued", "started", "creating", "record", "check"} =>
                grant[q.grant].state # "CLAIMED"
           /\ grant[q.grant].kind = "PORTAL" =>
                q.attempt = 0 /\ q.at \in {"start", "creating", "record", "check", "failing"}
           /\ grant[q.grant].kind = "CHECKOUT" =>
                (q.at \in {"start", "creating", "record", "check"} => q.attempt # 0)

PlacedCall(m) ==
    /\ grant[m.grant].state \in Begun
    /\ grant[m.grant].kind = IF m.attempt = 0 THEN "PORTAL" ELSE "CHECKOUT"

PlacedSession(a) ==
    /\ checkout[a] = "none" <=> by[a] = 0
    /\ by[a] # 0 => grant[by[a]].state \in Begun /\ grant[by[a]].kind = "CHECKOUT"

Placed ==
    /\ \A r \in Request : PlacedRequest(r)
    /\ \A m \in wire : PlacedCall(m)
    /\ \A a \in Attempt : PlacedSession(a)
    /\ \A g \in Grant : portal[g] # "none" => grant[g].state \in Begun
    /\ \A a \in hooks : checkout[a] = "complete"

-----------------------------------------------------------------------------
\* The inductive invariant.

\* A session that takes a payment as soon as its URL is known.
Usable(a) == checkout[a] = "open" /\ a \notin elapsed

\* The interlock on ownership.
OneOpenGrant ==
    /\ \A g \in OpenGrants : grant[g].actor = owner
    /\ \A f, g \in OpenGrants : f = g

\* Attempts follow each other: one is replaced when it has elapsed or is paid.
Attempts ==
    /\ \A a \in Attempt : a < attempt.id => a \in elapsed \/ checkout[a] = "complete"
    /\ attempt.id # 0 /\ attempt.status = "COMPLETED" => checkout[attempt.id] = "complete"
    /\ attempt.status = "SESSION_CREATED" => checkout[attempt.id] # "none"
    /\ attempt.status # "COMPLETED" => local = attempt.previous
    /\ \A a \in Attempt : a \in elapsed \/ checkout[a] # "none" => a <= attempt.id
    /\ \A a \in Attempt : checkout[a] = "complete" => a <= Settled

\* A grant has one session.  While it can be paid the grant is open, and the grant
\* of a recorded session is bound to its attempt.
Sessions ==
    /\ \A a, b \in Attempt : by[a] # 0 /\ by[a] = by[b] => a = b
    /\ \A a \in Attempt : Usable(a) => grant[by[a]].state \in Engaged
    /\ \A a \in Attempt : by[a] # 0 => grant[by[a]].resource \in {0, a}
    /\ \A g \in Grant : grant[g] # NoGrant => grant[g].resource <= Settled
    /\ \A g \in shown : grant[g] # NoGrant /\ (grant[g].kind = "CHECKOUT" => grant[g].resource # 0)
    /\ \A g \in Grant : portal[g] = "open" => grant[g].state \in Engaged /\ grant[g].kind = "PORTAL"
    /\ attempt.status = "SESSION_CREATED" /\ attempt.id \notin elapsed =>
         \A g \in Grant : grant[g].state \in Engaged /\ grant[g].kind = "CHECKOUT" =>
           by[attempt.id] = g

\* A call on its way to Stripe is the only one of its grant.
Calls ==
    /\ \A m \in wire :
         /\ grant[m.grant].state = "PROVIDER_STARTED"
         /\ portal[m.grant] = "none"
         /\ m.attempt <= attempt.id
         /\ \A a \in Attempt : by[a] # m.grant
    /\ \A m, n \in wire : m.grant = n.grant => m = n

\* A request does not outlive the lease it works under.  One that starts the
\* provider works on the attempt that is pending, and is the only one to do so.
WorkingRequest(r) ==
    LET q == request[r] IN
      /\ q.attempt <= attempt.id /\ q.attempt \notin elapsed
      /\ q.since <= Settled
      /\ q.at = "record" =>
           /\ q.attempt <= Settled
           /\ q.attempt = 0 => portal[q.grant] # "none"
           /\ q.attempt # 0 /\ grant[q.grant].state = "PROVIDER_STARTED" =>
                by[q.attempt] = q.grant
      /\ q.at = "start" /\ q.attempt # 0 /\ grant[q.grant].state = "CLAIMED" =>
           attempt.id = q.attempt /\ attempt.status = "PENDING"
      /\ q.at = "creating" /\ q.attempt # 0 =>
           /\ grant[q.grant].state = "PROVIDER_STARTED"
           /\ attempt.id = q.attempt /\ attempt.status = "PENDING"
           /\ \A a \in Attempt : by[a] = q.grant => a = q.attempt
           /\ \A m \in wire : m.grant = q.grant => m.attempt = q.attempt

Working ==
    /\ \A r \in Request : WorkingRequest(r)
    /\ \A r, s \in Request :
         /\ request[r].at = "creating" /\ request[r].attempt # 0
         /\ request[s].at = "creating" /\ request[s].attempt # 0
         => r = s

Authority == OneOpenGrant /\ Attempts /\ Sessions /\ Calls /\ Working

-----------------------------------------------------------------------------
\* What can be paid, and what was.
NoneLive == \A a \in Attempt : sub[a] # "live"

\* The steps of a request before it starts the provider.
BeforeStart == {"legacy", "reconcile", "list", "attempt"}

PreparingRequest(r) ==
    LET q == request[r] IN
      /\ q.at \in BeforeStart => \A a \in Attempt : Usable(a) => q.since < a
      /\ q.at = "attempt" => \A a \in Attempt : sub[a] = "live" => q.since < a
      /\ q.at = "attempt" \/ (q.at = "start" /\ q.attempt # 0) =>
           (grant[q.grant].state = "CLAIMED" => NoneLive)
      /\ q.at # "idle" /\ attempt.status = "SESSION_CREATED" /\ attempt.id \in elapsed =>
           attempt.id <= q.since

Payments ==
    /\ \A r \in Request : PreparingRequest(r)
    /\ \A m \in wire : m.attempt # 0 => NoneLive
    /\ \A a \in Attempt : Usable(a) => NoneLive
    /\ \A a \in Attempt : sub[a] = "live" =>
         /\ checkout[a] = "complete"
         /\ \A b \in Attempt : checkout[b] = "complete" => b <= a
         /\ local = a \/ (attempt.id = a /\ attempt.status = "SESSION_CREATED")

-----------------------------------------------------------------------------
(* Rows and requests *)

\* Releasing an open grant for a reason its evidence supports gives a legal row.
LEMMA ReleasedRow ==
    ASSUME NEW x \in GrantRow, x.state # "RELEASED", NEW reason \in Reason,
           reason \in {"REVOKED", "TERMINAL", "ELAPSED"} => x.resource # 0,
           reason = "ATTESTED" => x.kind = "PORTAL"
    PROVE  /\ Released(x, reason) \in GrantRow
           /\ Released(x, reason).kind = x.kind
           /\ Released(x, reason).actor = x.actor
           /\ Released(x, reason).resource = x.resource
           /\ Released(x, reason).state = "RELEASED"
<1> DEFINE y == [x EXCEPT !.state = "RELEASED", !.reason = reason]
<1>1. y \in [kind: Kind, actor: User, state: Open \cup {"RELEASED"},
             resource: 0..MaxAttempts, reason: Reason \cup {"none"}]
  BY DEF GrantRow
<1>2. y.state = "RELEASED" /\ y.reason = reason /\ y.kind = x.kind /\ y.actor = x.actor
      /\ y.resource = x.resource
  BY DEF GrantRow
<1>3. x.state = "CAPABILITY_ISSUED" \/ x.resource = 0
  BY DEF GrantRow, Open
<1>4. y \in GrantRow
  BY <1>1, <1>2, <1>3 DEF GrantRow, Reason, Open
<1> QED
  BY <1>2, <1>4 DEF Released

\* A grant is not the absence of one.
LEMMA RowFacts ==
    /\ \A x \in GrantRow : x # NoGrant /\ x.state \in Open \cup {"RELEASED"} /\ x.actor \in User
                           /\ x.kind \in Kind /\ x.resource \in 0..MaxAttempts
                           /\ (x.state \in {"CLAIMED", "PROVIDER_STARTED"} => x.resource = 0)
                           /\ (x.kind = "CHECKOUT" /\ x.state = "CAPABILITY_ISSUED" => x.resource # 0)
    /\ NoGrant.state = "none"
BY DEF GrantRow, NoGrant, Open

\* What an operator or the interlock releases: a capability that has ended.
Spent(g) ==
    \/ /\ grant[g].kind = "PORTAL" /\ portal[g] # "open"
       /\ grant[g].state # "CAPABILITY_ISSUED" => Quiesced(g)
    \/ /\ grant[g].kind = "CHECKOUT" /\ grant[g].resource = 0
       /\ NoneOutstanding(g) /\ Quiesced(g)
    \/ /\ grant[g].kind = "CHECKOUT" /\ grant[g].resource # 0
       /\ grant[g].resource \in elapsed \/ checkout[grant[g].resource] \in {"complete", "expired"}

\* What a step may do to a grant: create it, start it, issue it or release it.
StartsGrant(g) ==
    /\ grant[g].state = "CLAIMED" /\ grant'[g].state = "PROVIDER_STARTED"
    /\ grant'[g].resource = 0
    /\ \E r \in Request : StartProvider(r) /\ Own(r) = g
IssuesGrant(g) ==
    /\ grant[g].state = "PROVIDER_STARTED" /\ grant'[g].state = "CAPABILITY_ISSUED"
    /\ \E r \in Request : RecordIssued(r) /\ Own(r) = g /\ grant'[g].resource = request[r].attempt
ReleasesGrant(g) ==
    /\ grant'[g].state = "RELEASED"
    /\ \/ grant[g].state = "CLAIMED" /\ grant'[g].resource = grant[g].resource
       \/ grant[g].state \in Open /\ grant'[g].resource = grant[g].resource /\ Spent(g)
       \/ /\ grant[g].state \in Engaged
          /\ \E a \in Attempt : CompleteCheckout(a) /\ by[a] = g /\ grant'[g].resource = a

GrantStep(g) ==
    \/ grant'[g] = grant[g]
    \/ /\ grant[g] = NoGrant
       /\ grant'[g] \in GrantRow
       /\ grant'[g].state = "CLAIMED" /\ grant'[g].actor = owner /\ grant'[g].resource = 0
       /\ \E r \in Request, k \in Kind : NewGrant(r, k)
    \/ /\ grant[g] \in GrantRow /\ grant'[g] \in GrantRow
       /\ grant'[g].kind = grant[g].kind /\ grant'[g].actor = grant[g].actor
       /\ StartsGrant(g) \/ IssuesGrant(g) \/ ReleasesGrant(g)

\* The interlock releases what it releases lawfully.
LEMMA InterlockStep ==
    ASSUME TypeOK, NEW g \in Grant, \A f \in OpenGrants : SafelyElapsed(f),
           g \in OpenGrants, NEW x, x = Released(grant[g], "ELAPSED")
    PROVE  /\ grant[g] \in GrantRow /\ x \in GrantRow
           /\ x.kind = grant[g].kind /\ x.actor = grant[g].actor
           /\ x.state = "RELEASED" /\ x.resource = grant[g].resource
           /\ grant[g].state = "CAPABILITY_ISSUED" /\ grant[g].kind = "CHECKOUT"
           /\ grant[g].resource \in elapsed
<1>1. grant[g] \in GrantRow
  BY RowFacts DEF TypeOK, OpenGrants, Open
<1>2. /\ grant[g].state = "CAPABILITY_ISSUED" /\ grant[g].kind = "CHECKOUT"
      /\ grant[g].resource \in elapsed
  BY DEF SafelyElapsed
<1>3. grant[g].resource # 0
  BY <1>1, <1>2, RowFacts
<1> QED
  BY <1>1, <1>2, <1>3, ReleasedRow DEF Reason

\* A new grant is a legal row.
LEMMA ClaimedRow ==
    ASSUME NEW k \in Kind, NEW u \in User,
           NEW x, x = [kind |-> k, actor |-> u, state |-> "CLAIMED", resource |-> 0, reason |-> "none"]
    PROVE  x \in GrantRow /\ x.state = "CLAIMED" /\ x.actor = u /\ x.kind = k /\ x.resource = 0
<1>1. 0 \in 0..MaxAttempts
  BY BillingAssumption
<1> QED
  BY <1>1 DEF GrantRow, Open, Reason

-----------------------------------------------------------------------------
(* What each operation does to a grant *)

\* The grant of a request in progress.
LEMMA OwnGrant ==
    ASSUME TypeOK, Placed, NEW r \in Request, request[r].at # "idle"
    PROVE  /\ request[r] \in RequestState /\ Own(r) = request[r].grant
           /\ Own(r) \in Grant /\ grant[Own(r)] \in GrantRow
BY DEF TypeOK, Placed, PlacedRequest, Own

\* The grant of a session.
LEMMA SessionGrant ==
    ASSUME TypeOK, Placed, NEW a \in Attempt, by[a] # 0
    PROVE  /\ by[a] \in Grant /\ grant[by[a]] \in GrantRow
           /\ grant[by[a]].state \in Begun /\ grant[by[a]].kind = "CHECKOUT"
<1>1. by[a] \in Grant
  BY DEF TypeOK, Grant
<1>2. grant[by[a]].state \in Begun /\ grant[by[a]].kind = "CHECKOUT"
  BY DEF Placed, PlacedSession
<1>3. grant[by[a]] # NoGrant
  BY <1>2, RowFacts DEF Begun, Engaged
<1> QED
  BY <1>1, <1>2, <1>3 DEF TypeOK

\* A grant becomes another row.
LEMMA GrantUpdate ==
    ASSUME TypeOK, NEW g \in Grant, NEW x \in GrantRow, grant' = [grant EXCEPT ![g] = x]
    PROVE  /\ grant' \in [Grant -> GrantRow \cup {NoGrant}]
           /\ grant'[g] = x
           /\ \A f \in Grant : f # g => grant'[f] = grant[f]
BY DEF TypeOK

\* What ownership changes and new grants release.
LEMMA MoveEffect ==
    ASSUME TypeOK, Interlock
    PROVE  /\ grant' \in [Grant -> GrantRow \cup {NoGrant}]
           /\ \A g \in Grant : g \notin OpenGrants => grant'[g] = grant[g]
           /\ \A g \in OpenGrants :
                /\ grant[g].state = "CAPABILITY_ISSUED" /\ grant[g].kind = "CHECKOUT"
                /\ grant[g].resource \in elapsed
                /\ grant'[g].state = "RELEASED" /\ grant'[g].resource = grant[g].resource
           /\ \A g \in Grant : GrantStep(g)
<1>1. \A g \in Grant : g \notin OpenGrants => grant'[g] = grant[g]
  BY DEF Interlock
<1>2. ASSUME NEW g \in OpenGrants
      PROVE  /\ grant[g] \in GrantRow /\ grant'[g] \in GrantRow
             /\ grant'[g].kind = grant[g].kind /\ grant'[g].actor = grant[g].actor
             /\ grant'[g].state = "RELEASED" /\ grant'[g].resource = grant[g].resource
             /\ grant[g].state = "CAPABILITY_ISSUED" /\ grant[g].kind = "CHECKOUT"
             /\ grant[g].resource \in elapsed
  <2>1. g \in Grant /\ grant'[g] = Released(grant[g], "ELAPSED")
    BY DEF OpenGrants, Interlock
  <2>2. \A f \in OpenGrants : SafelyElapsed(f)
    BY DEF Interlock
  <2> QED
    BY <2>1, <2>2, InterlockStep
<1>3. \A g \in Grant : grant[g] \in GrantRow \cup {NoGrant}
  BY DEF TypeOK
<1>4. grant' \in [Grant -> GrantRow \cup {NoGrant}]
  <2>1. \A g \in Grant : grant'[g] \in GrantRow \cup {NoGrant}
    BY <1>1, <1>2, <1>3
  <2>2. grant' = [g \in Grant |-> grant'[g]]
    BY DEF Interlock
  <2> QED
    BY <2>1, <2>2
<1> QED
  BY <1>1, <1>2, <1>4, RowFacts DEF GrantStep, ReleasesGrant, Spent, Open

\* What a new grant releases is what the interlock would.
LEMMA NewEffect ==
    ASSUME TypeOK, NEW r \in Request, NEW k \in Kind, NewGrant(r, k)
    PROVE  /\ request[r] = Idle
           /\ grant' \in [Grant -> GrantRow \cup {NoGrant}]
           /\ \A g \in OpenGrants :
                /\ grant[g].state = "CAPABILITY_ISSUED" /\ grant[g].kind = "CHECKOUT"
                /\ grant[g].resource \in elapsed
                /\ grant'[g].state = "RELEASED" /\ grant'[g].resource = grant[g].resource
           /\ \A g \in Grant : GrantStep(g)
<1> PICK g \in Grant :
         /\ \A f \in Grant : grant[f] = NoGrant <=> f >= g
         /\ grant' = [f \in Grant |->
              IF f = g THEN [kind |-> k, actor |-> owner, state |-> "CLAIMED",
                             resource |-> 0, reason |-> "none"]
              ELSE IF f \in OpenGrants THEN Released(grant[f], "ELAPSED")
              ELSE grant[f]]
  BY DEF NewGrant
<1>1. grant[g] = NoGrant
  BY DEF Grant
<1>2. g \notin OpenGrants
  BY <1>1, RowFacts DEF OpenGrants, Open
<1>3. /\ grant'[g] \in GrantRow /\ grant'[g].state = "CLAIMED" /\ grant'[g].actor = owner
      /\ grant'[g].kind = k /\ grant'[g].resource = 0
  <2>1. grant'[g] = [kind |-> k, actor |-> owner, state |-> "CLAIMED",
                     resource |-> 0, reason |-> "none"]
    OBVIOUS
  <2>2. owner \in User
    BY DEF TypeOK
  <2> QED
    BY <2>1, <2>2, ClaimedRow
<1>4. \A f \in Grant : f # g /\ f \notin OpenGrants => grant'[f] = grant[f]
  OBVIOUS
<1>5. ASSUME NEW f \in OpenGrants
      PROVE  /\ grant[f] \in GrantRow /\ grant'[f] \in GrantRow
             /\ grant'[f].kind = grant[f].kind /\ grant'[f].actor = grant[f].actor
             /\ grant'[f].state = "RELEASED" /\ grant'[f].resource = grant[f].resource
             /\ grant[f].state = "CAPABILITY_ISSUED" /\ grant[f].kind = "CHECKOUT"
             /\ grant[f].resource \in elapsed
  <2>1. f \in Grant
    BY DEF OpenGrants
  <2>2. grant'[f] = Released(grant[f], "ELAPSED")
    BY <1>2, <2>1
  <2>3. \A h \in OpenGrants : SafelyElapsed(h)
    BY DEF NewGrant
  <2> QED
    BY <2>1, <2>2, <2>3, InterlockStep
<1>6. \A f \in Grant : grant[f] \in GrantRow \cup {NoGrant}
  BY DEF TypeOK
<1>7. grant' \in [Grant -> GrantRow \cup {NoGrant}]
  <2>1. \A f \in Grant : grant'[f] \in GrantRow \cup {NoGrant}
    BY <1>3, <1>4, <1>5, <1>6
  <2>2. grant' = [f \in Grant |-> grant'[f]]
    OBVIOUS
  <2> QED
    BY <2>1, <2>2
<1>8. \A f \in Grant : GrantStep(f)
  BY <1>1, <1>3, <1>4, <1>5, RowFacts DEF GrantStep, ReleasesGrant, Spent, Open
<1>9. request[r] = Idle
  BY DEF NewGrant
<1> QED
  BY <1>1, <1>3, <1>4, <1>5, <1>7, <1>8, <1>9

\* Only grant g moves, to a row of its own kind and actor.
Moves(g, from, to) ==
    /\ grant[g] \in GrantRow /\ grant'[g] \in GrantRow
    /\ grant[g].state \in from /\ grant'[g].state = to
    /\ grant'[g].kind = grant[g].kind /\ grant'[g].actor = grant[g].actor
    /\ \A f \in Grant : f # g => grant'[f] = grant[f]
    /\ grant' \in [Grant -> GrantRow \cup {NoGrant}]

\* What a request that steps back does to its grant.
LEMMA GiveBackEffect ==
    ASSUME TypeOK, NEW g \in Grant, grant[g] \in GrantRow, GivesBack(g)
    PROVE  \/ grant' = grant
           \/ Moves(g, {"CLAIMED"}, "RELEASED") /\ grant'[g].resource = grant[g].resource
<1> SUFFICES ASSUME grant[g].state = "CLAIMED"
             PROVE  Moves(g, {"CLAIMED"}, "RELEASED") /\ grant'[g].resource = grant[g].resource
  BY DEF GivesBack
<1> DEFINE x == Released(grant[g], "NOT_ISSUED")
<1>1. /\ x \in GrantRow /\ x.kind = grant[g].kind /\ x.actor = grant[g].actor
      /\ x.state = "RELEASED" /\ x.resource = grant[g].resource
  BY ReleasedRow DEF Reason
<1>2. grant' = [grant EXCEPT ![g] = x]
  BY DEF GivesBack
<1> HIDE DEF x
<1> QED
  BY <1>1, <1>2, GrantUpdate DEF Moves

\* What markBillingProviderStarted does to it.
LEMMA StartEffect ==
    ASSUME TypeOK, Placed, NEW r \in Request, StartProvider(r), grant[Own(r)].state = "CLAIMED"
    PROVE  Moves(Own(r), {"CLAIMED"}, "PROVIDER_STARTED") /\ grant'[Own(r)].resource = 0
<1>1. Own(r) \in Grant /\ grant[Own(r)] \in GrantRow
  BY OwnGrant DEF StartProvider
<1> DEFINE g == Own(r)
           x == [grant[g] EXCEPT !.state = "PROVIDER_STARTED"]
<1>2. /\ x \in GrantRow /\ x.kind = grant[g].kind /\ x.actor = grant[g].actor
      /\ x.state = "PROVIDER_STARTED" /\ x.resource = 0
  BY <1>1 DEF GrantRow, Open
<1>3. grant' = [grant EXCEPT ![g] = x]
  BY DEF StartProvider
<1> HIDE DEF x
<1> QED
  BY <1>1, <1>2, <1>3, GrantUpdate DEF Moves

\* What recordBillingCapabilityIssued does to it.
LEMMA RecordEffect ==
    ASSUME TypeOK, Placed, NEW r \in Request, RecordIssued(r)
    PROVE  \/ grant' = grant
           \/ /\ Moves(Own(r), {"PROVIDER_STARTED"}, "CAPABILITY_ISSUED")
              /\ grant'[Own(r)].resource = request[r].attempt
<1> DEFINE g == Own(r)
           a == request[r].attempt
<1>1. g \in Grant /\ grant[g] \in GrantRow /\ request[r].at = "record"
  BY OwnGrant DEF RecordIssued
<1>2. a \in 0..MaxAttempts /\ (grant[g].kind = "CHECKOUT" => a # 0)
  BY <1>1 DEF TypeOK, RequestState, Placed, PlacedRequest, Own
<1> SUFFICES ASSUME grant[g].state = "PROVIDER_STARTED"
             PROVE  /\ Moves(g, {"PROVIDER_STARTED"}, "CAPABILITY_ISSUED")
                    /\ grant'[g].resource = a
  BY DEF RecordIssued
<1> DEFINE x == [grant[g] EXCEPT !.state = "CAPABILITY_ISSUED", !.resource = a]
<1>3. /\ x.kind = grant[g].kind /\ x.actor = grant[g].actor /\ x.reason = grant[g].reason
      /\ x.state = "CAPABILITY_ISSUED" /\ x.resource = a
  BY <1>1 DEF GrantRow
<1>4. x \in [kind: Kind, actor: User, state: Open \cup {"RELEASED"},
             resource: 0..MaxAttempts, reason: Reason \cup {"none"}]
  BY <1>1, <1>2 DEF GrantRow, Open
<1>5. x \in GrantRow
  <2>1. grant[g].reason = "none"
    BY <1>1 DEF GrantRow
  <2> QED
    BY <1>2, <1>3, <1>4, <2>1 DEF GrantRow, Reason
<1>6. grant' = [grant EXCEPT ![g] = x]
  BY DEF RecordIssued
<1> HIDE DEF x
<1> QED
  BY <1>1, <1>3, <1>5, <1>6, GrantUpdate DEF Moves

\* The webhook releases the grant of the session, which is of its attempt then.
LEMMA CompleteEffect ==
    ASSUME TypeOK, Placed, NEW a \in Attempt, CompleteCheckout(a)
    PROVE  /\ by[a] \in Grant /\ grant[by[a]] \in GrantRow /\ grant[by[a]].kind = "CHECKOUT"
           /\ grant[by[a]].state \in Begun
           /\ \/ grant' = grant
              \/ Moves(by[a], Engaged, "RELEASED") /\ grant'[by[a]].resource = a
<1> DEFINE g == by[a]
<1>1. g # 0
  BY DEF CompleteCheckout, Placed, PlacedSession
<1>2. g \in Grant /\ grant[g] \in GrantRow /\ grant[g].state \in Begun /\ grant[g].kind = "CHECKOUT"
  BY <1>1, SessionGrant
<1>3. CASE grant[g].state = "RELEASED"
  <2>1. grant' = [grant EXCEPT ![g] = grant[g]]
    BY <1>3 DEF CompleteCheckout
  <2>2. grant' = grant
    BY <1>2, <2>1 DEF TypeOK
  <2> QED
    BY <1>2, <2>2
<1>4. CASE grant[g].state \in Engaged
  <2> DEFINE y == [grant[g] EXCEPT !.resource = a]
             x == Released(y, "TERMINAL")
  <2>1. /\ y.kind = "CHECKOUT" /\ y.actor = grant[g].actor /\ y.state = grant[g].state
        /\ y.resource = a /\ y.reason = grant[g].reason
    BY <1>2 DEF GrantRow
  <2>2. a # 0 /\ a \in 0..MaxAttempts
    BY DEF Attempt
  <2>3. /\ x \in GrantRow
        /\ x.kind = "CHECKOUT" /\ x.actor = grant[g].actor /\ x.state = "RELEASED"
        /\ x.resource = a
    BY <1>2, <2>2 DEF GrantRow, Released, Reason
  <2>4. grant' = [grant EXCEPT ![g] = x]
    BY <1>4 DEF CompleteCheckout, Engaged
  <2> HIDE DEF x
  <2> QED
    BY <1>2, <1>4, <2>3, <2>4, GrantUpdate DEF Moves
<1> QED
  BY <1>2, <1>3, <1>4 DEF Begun

\* What the reconciliation command does: the evidence it asks for is there.
LEMMA OperatorEffect ==
    ASSUME TypeOK, NEW g \in Grant, NEW reason \in Reason, OperatorRelease(g, reason)
    PROVE  Moves(g, Open, "RELEASED") /\ grant'[g].resource = grant[g].resource /\ Spent(g)
<1>1. grant[g] \in GrantRow /\ grant[g].state \in Open
  BY RowFacts DEF OperatorRelease, OpenGrants, TypeOK, Open
<1>2. reason \in {"REVOKED", "TERMINAL", "ELAPSED"} => grant[g].resource # 0
  BY <1>1, RowFacts DEF OperatorRelease, AssertReasonAllowed, SafelyElapsed
<1>3. reason = "ATTESTED" => grant[g].kind = "PORTAL"
  BY DEF OperatorRelease, AssertReasonAllowed
<1> DEFINE x == Released(grant[g], reason)
<1>4. /\ x \in GrantRow /\ x.kind = grant[g].kind /\ x.actor = grant[g].actor
      /\ x.state = "RELEASED" /\ x.resource = grant[g].resource
  BY <1>1, <1>2, <1>3, ReleasedRow DEF Open
<1>5. grant' = [grant EXCEPT ![g] = x]
  BY DEF OperatorRelease
<1>6. Spent(g)
  BY <1>1, <1>2, RowFacts DEF OperatorRelease, AssertReasonAllowed, SafelyElapsed, Spent
<1> HIDE DEF x
<1> QED
  BY <1>1, <1>4, <1>5, <1>6, GrantUpdate DEF Moves

\* A grant that moves takes a step.
LEMMA MovesStep ==
    ASSUME NEW g, NEW from, NEW to, Moves(g, from, to),
           StartsGrant(g) \/ IssuesGrant(g) \/ ReleasesGrant(g)
    PROVE  \A f \in Grant : GrantStep(f)
BY DEF Moves, GrantStep

\* Where nothing is said of the grants they stay.
LEMMA KeptGrants ==
    ASSUME TypeOK, grant' = grant
    PROVE  grant' \in [Grant -> GrantRow \cup {NoGrant}] /\ \A g \in Grant : GrantStep(g)
BY DEF TypeOK, GrantStep

\* Every step takes every grant at most one stage further.
LEMMA GrantsNext ==
    ASSUME TypeOK, Placed, [Next]_vars
    PROVE  grant' \in [Grant -> GrantRow \cup {NoGrant}] /\ \A g \in Grant : GrantStep(g)
<1>1. ASSUME NEW u \in User, MoveOwnership(u)
      PROVE  grant' \in [Grant -> GrantRow \cup {NoGrant}] /\ \A g \in Grant : GrantStep(g)
  BY <1>1, MoveEffect DEF MoveOwnership
<1>2. ASSUME NEW r \in Request, NEW k \in Kind, JoinGrant(r, k) \/ NewGrant(r, k)
      PROVE  grant' \in [Grant -> GrantRow \cup {NoGrant}] /\ \A g \in Grant : GrantStep(g)
  <2>1. CASE JoinGrant(r, k)
    BY <2>1, KeptGrants DEF JoinGrant, rows
  <2>2. CASE NewGrant(r, k)
    BY <2>2, NewEffect
  <2> QED
    BY <1>2, <2>1, <2>2
<1>3. ASSUME NEW r \in Request, CheckoutStep(r) \/ Crash(r)
      PROVE  grant' \in [Grant -> GrantRow \cup {NoGrant}] /\ \A g \in Grant : GrantStep(g)
  <2>1. CASE \/ ReuseIssued(r) \/ ResumeStarted(r) \/ ReconcileExpired(r) \/ ListSubscriptions(r)
             \/ ClaimAttempt(r) \/ FailsEarly(r) \/ Finalize(r) \/ ReturnCapability(r) \/ Crash(r)
    <3>1. grant' = grant
      BY <2>1 DEF ReuseIssued, ResumeStarted, ReconcileExpired, ListSubscriptions, ClaimAttempt,
                  FailsEarly, Finalize, ReturnCapability, Crash, rows
    <3> QED
      BY <3>1, KeptGrants
  <2>2. CASE LegacyAttempt(r) \/ GiveBack(r)
    <3>1. request[r].at # "idle" /\ (GivesBack(Own(r)) \/ grant' = grant)
      BY <2>2 DEF LegacyAttempt, GiveBack
    <3>2. Own(r) \in Grant /\ grant[Own(r)] \in GrantRow
      BY <3>1, OwnGrant
    <3>3. \/ grant' = grant
          \/ /\ Moves(Own(r), {"CLAIMED"}, "RELEASED")
             /\ grant'[Own(r)].resource = grant[Own(r)].resource
      BY <3>1, <3>2, GiveBackEffect
    <3> QED
      BY <3>3, KeptGrants, MovesStep DEF Moves, ReleasesGrant
  <2>3. CASE StartProvider(r)
    <3>1. \/ grant' = grant
          \/ Moves(Own(r), {"CLAIMED"}, "PROVIDER_STARTED") /\ grant'[Own(r)].resource = 0
      BY <2>3, StartEffect DEF StartProvider
    <3> QED
      BY <2>3, <3>1, KeptGrants, MovesStep DEF Moves, StartsGrant
  <2>4. CASE RecordIssued(r)
    <3>1. \/ grant' = grant
          \/ /\ Moves(Own(r), {"PROVIDER_STARTED"}, "CAPABILITY_ISSUED")
             /\ grant'[Own(r)].resource = request[r].attempt
      BY <2>4, RecordEffect
    <3> QED
      BY <2>4, <3>1, KeptGrants, MovesStep DEF Moves, IssuesGrant
  <2> QED
    BY <1>3, <2>1, <2>2, <2>3, <2>4 DEF CheckoutStep
<1>4. ASSUME NEW m \in wire, CreateCheckout(m) \/ CreatePortal(m) \/ CreateLost(m)
      PROVE  grant' \in [Grant -> GrantRow \cup {NoGrant}] /\ \A g \in Grant : GrantStep(g)
  BY <1>4, KeptGrants DEF CreateCheckout, CreatePortal, CreateLost, rows
<1>5. ASSUME NEW a \in Attempt, \/ Pay(a) \/ Cancel(a) \/ CloseCheckout(a) \/ DeliverCompleted(a)
                                \/ LoseDelivery(a)
      PROVE  grant' \in [Grant -> GrantRow \cup {NoGrant}] /\ \A g \in Grant : GrantStep(g)
  BY <1>5, KeptGrants DEF Pay, Cancel, CloseCheckout, DeliverCompleted, LoseDelivery, rows
<1>6. ASSUME NEW a \in Attempt, CompleteCheckout(a)
      PROVE  grant' \in [Grant -> GrantRow \cup {NoGrant}] /\ \A g \in Grant : GrantStep(g)
  <2>1. grant' = grant \/ (Moves(by[a], Engaged, "RELEASED") /\ grant'[by[a]].resource = a)
    BY <1>6, CompleteEffect
  <2> QED
    BY <1>6, <2>1, KeptGrants, MovesStep DEF Moves, ReleasesGrant
<1>7. ASSUME NEW g \in Grant, NEW reason \in Reason, OperatorRelease(g, reason)
      PROVE  grant' \in [Grant -> GrantRow \cup {NoGrant}] /\ \A f \in Grant : GrantStep(f)
  <2>1. Moves(g, Open, "RELEASED") /\ grant'[g].resource = grant[g].resource /\ Spent(g)
    BY <1>7, OperatorEffect
  <2> QED
    BY <2>1, MovesStep DEF Moves, ReleasesGrant
<1>8. CASE Elapse \/ (\E g \in Grant : ClosePortal(g)) \/ UNCHANGED vars
  BY <1>8, KeptGrants DEF Elapse, ClosePortal, rows, vars
<1> QED
  BY <1>1, <1>2, <1>3, <1>4, <1>5, <1>6, <1>7, <1>8 DEF Next

\* What a grant never loses.
LEMMA GrantKept ==
    ASSUME TypeOK, Placed, [Next]_vars, NEW g \in Grant, grant[g] # NoGrant
    PROVE  /\ grant[g] \in GrantRow /\ grant'[g] \in GrantRow /\ grant'[g] # NoGrant
           /\ grant'[g].kind = grant[g].kind /\ grant'[g].actor = grant[g].actor
           /\ grant[g].state # "CLAIMED" => grant'[g].state # "CLAIMED"
           /\ grant[g].state \in Begun => grant'[g].state \in Begun
<1>1. GrantStep(g) /\ grant[g] \in GrantRow
  BY GrantsNext DEF TypeOK
<1> QED
  BY <1>1, RowFacts DEF GrantStep, StartsGrant, IssuesGrant, ReleasesGrant, Begun, Engaged, Open

-----------------------------------------------------------------------------
(* Type correctness *)

\* Only request r moves.
LEMMA RequestUpdate ==
    ASSUME TypeOK, NEW r \in Request, NEW x \in RequestState, request' = [request EXCEPT ![r] = x]
    PROVE  /\ request' \in [Request -> RequestState]
           /\ request'[r] = x
           /\ \A s \in Request : s # r => request'[s] = request[s]
BY DEF TypeOK

\* A request goes on to its next step with what it knew.
LEMMA GoesEffect ==
    ASSUME TypeOK, NEW r \in Request, NEW step \in Step, Goes(r, step)
    PROVE  /\ request' \in [Request -> RequestState]
           /\ \A s \in Request : s # r => request'[s] = request[s]
           /\ request'[r].at = step /\ request'[r].grant = request[r].grant
           /\ request'[r].attempt = request[r].attempt /\ request'[r].since = request[r].since
<1> DEFINE x == [request[r] EXCEPT !.at = step]
<1>1. request[r] \in RequestState
  BY DEF TypeOK
<1>2. /\ x \in RequestState /\ x.at = step /\ x.grant = request[r].grant
      /\ x.attempt = request[r].attempt /\ x.since = request[r].since
  BY <1>1 DEF RequestState
<1>3. request' = [request EXCEPT ![r] = x]
  BY DEF Goes
<1> HIDE DEF x
<1> QED
  BY <1>2, <1>3, RequestUpdate

\* A handler without a request.
LEMMA IdleRequest == Idle \in RequestState /\ Idle.at = "idle" /\ Idle.grant = 0
                     /\ Idle.attempt = 0 /\ Idle.since = 0
<1>1. 0 \in 0..MaxGrants /\ 0 \in 0..MaxAttempts
  BY BillingAssumption
<1> QED
  BY <1>1 DEF Idle, RequestState, Step

\* A request ends.
LEMMA EndsEffect ==
    ASSUME TypeOK, NEW r \in Request, Ends(r)
    PROVE  /\ request' \in [Request -> RequestState]
           /\ \A s \in Request : s # r => request'[s] = request[s]
           /\ request'[r] = Idle
BY IdleRequest, RequestUpdate DEF Ends

\* A request takes an attempt on.
LEMMA TakesEffect ==
    ASSUME TypeOK, NEW r \in Request, NEW step \in Step, NEW a \in 0..MaxAttempts,
           request' = [request EXCEPT ![r].at = step, ![r].attempt = a]
    PROVE  /\ request' \in [Request -> RequestState]
           /\ \A s \in Request : s # r => request'[s] = request[s]
           /\ request'[r].at = step /\ request'[r].grant = request[r].grant
           /\ request'[r].attempt = a /\ request'[r].since = request[r].since
<1> DEFINE x == [request[r] EXCEPT !.at = step, !.attempt = a]
<1>1. request[r] \in RequestState
  BY DEF TypeOK
<1>2. /\ x \in RequestState /\ x.at = step /\ x.grant = request[r].grant
      /\ x.attempt = a /\ x.since = request[r].since
  BY <1>1 DEF RequestState
<1>3. request' = [request EXCEPT ![r] = x]
  BY <1>1 DEF TypeOK, RequestState
<1> HIDE DEF x
<1> QED
  BY <1>2, <1>3, RequestUpdate

\* The attempt row and its numbers.
LEMMA AttemptFacts ==
    ASSUME TypeOK
    PROVE  /\ attempt.id \in 0..MaxAttempts /\ Settled \in 0..MaxAttempts
           /\ attempt.status \in {"PENDING", "SESSION_CREATED", "COMPLETED"}
           /\ attempt.previous \in 0..MaxAttempts
           /\ attempt.status # "COMPLETED" => attempt \in AttemptRow /\ attempt.id \in Attempt
           /\ attempt.id # 0 => attempt \in AttemptRow
           /\ Settled <= attempt.id
           /\ attempt.status # "PENDING" => Settled = attempt.id
           /\ attempt.status = "PENDING" => Settled = attempt.id - 1
<1>1. MaxAttempts \in Nat
  BY BillingAssumption
<1>2. CASE attempt = NoAttempt
  BY <1>1, <1>2 DEF NoAttempt, Settled
<1>3. CASE attempt \in AttemptRow
  BY <1>1, <1>3 DEF AttemptRow, Attempt, Settled
<1> QED
  BY <1>2, <1>3 DEF TypeOK

\* What a request that starts knows.
LEMMA BeginsEffect ==
    ASSUME TypeOK, NEW r \in Request, NEW step \in Step, NEW g \in Grant,
           request' = [request EXCEPT ![r] = [Idle EXCEPT !.grant = g, !.since = Settled, !.at = step]]
    PROVE  /\ request' \in [Request -> RequestState]
           /\ \A s \in Request : s # r => request'[s] = request[s]
           /\ request'[r].at = step /\ request'[r].grant = g
           /\ request'[r].attempt = 0 /\ request'[r].since = Settled
<1> DEFINE x == [Idle EXCEPT !.grant = g, !.since = Settled, !.at = step]
<1>1. Settled \in 0..MaxAttempts /\ g \in 0..MaxGrants
  BY AttemptFacts DEF Grant
<1>2. x \in RequestState /\ x.at = step /\ x.grant = g /\ x.attempt = 0 /\ x.since = Settled
  BY <1>1, IdleRequest DEF RequestState, Idle
<1>3. request' = [request EXCEPT ![r] = x]
  OBVIOUS
<1> HIDE DEF x
<1> QED
  BY <1>2, <1>3, RequestUpdate

\* What an owner's request does first: it joins a grant that is open ...
LEMMA JoinEffect ==
    ASSUME TypeOK, NEW r \in Request, NEW k \in Kind, JoinGrant(r, k)
    PROVE  /\ request[r] = Idle
           /\ request' \in [Request -> RequestState]
           /\ \A s \in Request : s # r => request'[s] = request[s]
           /\ request'[r].attempt = 0 /\ request'[r].since = Settled
           /\ request'[r].grant \in OpenGrants
           /\ grant[request'[r].grant].kind = k
           /\ k = "PORTAL" => request'[r].at = "start"
           /\ k # "PORTAL" =>
                \/ /\ grant[request'[r].grant].state # "CLAIMED"
                   /\ request'[r].at \in {"issued", "started"}
                \/ /\ grant[request'[r].grant].state = "CLAIMED"
                   /\ request'[r].at = "reconcile"
<1> DEFINE At(g) == CASE k = "PORTAL"                         -> "start"
                      [] grant[g].state = "CAPABILITY_ISSUED" -> "issued"
                      [] grant[g].state = "PROVIDER_STARTED"  -> "started"
                      [] OTHER                                -> "reconcile"
<1> PICK g \in OpenGrants :
         /\ grant[g].kind = k
         /\ k = "PORTAL" => grant[g].state = "CLAIMED"
         /\ request' = [request EXCEPT ![r] = [Idle EXCEPT !.grant = g, !.since = Settled, !.at = At(g)]]
  BY DEF JoinGrant
<1>1. grant[g].state \in Open /\ g \in Grant
  BY DEF OpenGrants
<1>2. /\ At(g) \in Step
      /\ k = "PORTAL" => At(g) = "start"
      /\ k # "PORTAL" => \/ grant[g].state # "CLAIMED" /\ At(g) \in {"issued", "started"}
                         \/ grant[g].state = "CLAIMED" /\ At(g) = "reconcile"
  <2>1. CASE k = "PORTAL"
    BY <2>1 DEF Step
  <2>2. CASE k # "PORTAL" /\ grant[g].state = "CAPABILITY_ISSUED"
    BY <2>2 DEF Step
  <2>3. CASE k # "PORTAL" /\ grant[g].state = "PROVIDER_STARTED"
    BY <2>3 DEF Step
  <2>4. CASE k # "PORTAL" /\ grant[g].state = "CLAIMED"
    BY <2>4 DEF Step
  <2> QED
    BY <1>1, <2>1, <2>2, <2>3, <2>4 DEF Open
<1> HIDE DEF At
<1>3. request[r] = Idle
  BY DEF JoinGrant
<1> QED
  BY <1>1, <1>2, <1>3, BeginsEffect

\* ... or creates one ...
LEMMA NewRequest ==
    ASSUME TypeOK, NEW r \in Request, NEW k \in Kind, NewGrant(r, k)
    PROVE  /\ request[r] = Idle
           /\ request' \in [Request -> RequestState]
           /\ \A s \in Request : s # r => request'[s] = request[s]
           /\ request'[r].attempt = 0 /\ request'[r].since = Settled
           /\ request'[r].at = IF k = "PORTAL" THEN "start" ELSE "legacy"
           /\ request'[r].grant \in Grant /\ grant[request'[r].grant] = NoGrant
           /\ grant'[request'[r].grant] \in GrantRow
           /\ grant'[request'[r].grant].state = "CLAIMED"
           /\ grant'[request'[r].grant].kind = k
           /\ grant'[request'[r].grant].actor = owner
           /\ grant'[request'[r].grant].resource = 0
           /\ \A f \in Grant : f # request'[r].grant /\ f \notin OpenGrants => grant'[f] = grant[f]
<1> PICK g \in Grant :
         /\ \A f \in Grant : grant[f] = NoGrant <=> f >= g
         /\ grant' = [f \in Grant |->
              IF f = g THEN [kind |-> k, actor |-> owner, state |-> "CLAIMED",
                             resource |-> 0, reason |-> "none"]
              ELSE IF f \in OpenGrants THEN Released(grant[f], "ELAPSED")
              ELSE grant[f]]
         /\ request' = [request EXCEPT ![r] =
              [Idle EXCEPT !.grant = g, !.since = Settled,
                 !.at = IF k = "PORTAL" THEN "start" ELSE "legacy"]]
  BY DEF NewGrant
<1>1. grant[g] = NoGrant /\ \A f \in Grant : f # g /\ f \notin OpenGrants => grant'[f] = grant[f]
  BY DEF Grant
<1>2. /\ grant'[g] \in GrantRow /\ grant'[g].state = "CLAIMED" /\ grant'[g].actor = owner
      /\ grant'[g].kind = k /\ grant'[g].resource = 0
  <2>1. grant'[g] = [kind |-> k, actor |-> owner, state |-> "CLAIMED",
                     resource |-> 0, reason |-> "none"]
    OBVIOUS
  <2>2. owner \in User
    BY DEF TypeOK
  <2> QED
    BY <2>1, <2>2, ClaimedRow
<1> DEFINE step == IF k = "PORTAL" THEN "start" ELSE "legacy"
<1>3. step \in Step
  BY DEF Step
<1>4. request' = [request EXCEPT ![r] = [Idle EXCEPT !.grant = g, !.since = Settled, !.at = step]]
  OBVIOUS
<1>5. step = IF k = "PORTAL" THEN "start" ELSE "legacy"
  OBVIOUS
<1> HIDE DEF step
<1>6. /\ request' \in [Request -> RequestState]
      /\ \A s \in Request : s # r => request'[s] = request[s]
      /\ request'[r].at = step /\ request'[r].grant = g
      /\ request'[r].attempt = 0 /\ request'[r].since = Settled
  BY <1>3, <1>4, BeginsEffect
<1>7. request[r] = Idle
  BY DEF NewGrant
<1> QED
  BY <1>1, <1>2, <1>5, <1>6, <1>7

\* ... and then a step at a time.
OwnStep(r) ==
    LET p == request[r]
        q == request'[r]
    IN
      /\ p.at # "idle"
      /\ request' \in [Request -> RequestState]
      /\ \A s \in Request : s # r => request'[s] = request[s]
      /\ \/ q = Idle
         \/ /\ q.grant = p.grant /\ q.since = p.since
            /\ \/ /\ p.at = "issued" /\ q.at = "check" /\ q.attempt = attempt.id
                  /\ attempt.status = "SESSION_CREATED" /\ Pending
               \/ /\ p.at = "started" /\ q.at = "record" /\ q.attempt = attempt.id
                  /\ attempt.status = "SESSION_CREATED" /\ Pending
               \/ /\ p.at = "attempt" /\ q.at = "start" /\ q.attempt = attempt'.id
                  /\ ClaimAttempt(r) /\ ~(Pending /\ attempt.status = "SESSION_CREATED")
               \/ /\ q.attempt = p.attempt
                  /\ \/ p.at = "legacy" /\ q.at = "reconcile"
                     \/ p.at = "reconcile" /\ q.at = "list"
                     \/ p.at = "list" /\ q.at = "attempt" /\ \A a \in Attempt : sub[a] # "live"
                     \/ p.at \in {"reconcile", "list", "attempt", "start"} /\ q.at = "failing"
                     \/ p.at = "start" /\ q.at = "creating" /\ StartProvider(r)
                        /\ grant[p.grant].state = "CLAIMED"
                     \/ p.at = "creating" /\ q.at = "record" /\ Finalize(r)
                        /\ (p.attempt = 0 \/ attempt.id = p.attempt)
                     \/ /\ p.at = "record" /\ q.at = "check"
                        /\ grant'[p.grant].state \in {"CAPABILITY_ISSUED", "RELEASED"}

\* The steps of a request are those listed in OwnStep.
LEMMA CheckoutEffect ==
    ASSUME TypeOK, Placed, NEW r \in Request, CheckoutStep(r) \/ Crash(r)
    PROVE  OwnStep(r)
<1>1. \A s \in {"reconcile", "list", "attempt", "failing", "creating", "record", "check", "start"} :
        s \in Step
  BY DEF Step
<1>2. attempt.id \in 0..MaxAttempts
  BY AttemptFacts
<1>3. ASSUME Ends(r), request[r].at # "idle" PROVE OwnStep(r)
  BY <1>3, EndsEffect DEF OwnStep
<1>4. CASE ReuseIssued(r)
  <2>1. CASE Ends(r)
    BY <1>3, <1>4, <2>1 DEF ReuseIssued
  <2>2. CASE ~Ends(r)
    <3>1. /\ request' = [request EXCEPT ![r].at = "check", ![r].attempt = attempt.id]
          /\ attempt.status = "SESSION_CREATED" /\ Pending
      BY <1>4, <2>2 DEF ReuseIssued
    <3>5. /\ request' \in [Request -> RequestState]
          /\ \A s \in Request : s # r => request'[s] = request[s]
          /\ request'[r].at = "check" /\ request'[r].grant = request[r].grant
          /\ request'[r].attempt = attempt.id /\ request'[r].since = request[r].since
      BY <1>1, <1>2, <3>1, TakesEffect
    <3> QED
      BY <1>4, <3>1, <3>5 DEF OwnStep, ReuseIssued
  <2> QED
    BY <2>1, <2>2
<1>5. CASE ResumeStarted(r)
  <2>1. CASE Ends(r)
    BY <1>3, <1>5, <2>1 DEF ResumeStarted
  <2>2. CASE ~Ends(r)
    <3>1. /\ request' = [request EXCEPT ![r].at = "record", ![r].attempt = attempt.id]
          /\ attempt.status = "SESSION_CREATED" /\ Pending
      BY <1>5, <2>2 DEF ResumeStarted
    <3>5. /\ request' \in [Request -> RequestState]
          /\ \A s \in Request : s # r => request'[s] = request[s]
          /\ request'[r].at = "record" /\ request'[r].grant = request[r].grant
          /\ request'[r].attempt = attempt.id /\ request'[r].since = request[r].since
      BY <1>1, <1>2, <3>1, TakesEffect
    <3> QED
      BY <1>5, <3>1, <3>5 DEF OwnStep, ResumeStarted
  <2> QED
    BY <2>1, <2>2
<1>6. CASE LegacyAttempt(r)
  <2>1. request[r].at = "legacy" /\ (Ends(r) \/ Goes(r, "reconcile"))
    BY <1>6 DEF LegacyAttempt
  <2> QED
    BY <1>1, <1>3, <2>1, GoesEffect DEF OwnStep
<1>7. CASE ReconcileExpired(r)
  <2>1. request[r].at = "reconcile" /\ (Goes(r, "failing") \/ Goes(r, "list"))
    BY <1>7 DEF ReconcileExpired
  <2> QED
    BY <1>1, <2>1, GoesEffect DEF OwnStep
<1>8. CASE ListSubscriptions(r)
  <2>1. CASE Goes(r, "failing")
    BY <1>1, <1>8, <2>1, GoesEffect DEF OwnStep, ListSubscriptions
  <2>2. CASE ~Goes(r, "failing")
    <3> DEFINE x == [request[r] EXCEPT !.at = "attempt", !.terminal = {a \in Attempt : sub[a] = "ended"}]
    <3>1. /\ request' = [request EXCEPT ![r].at = "attempt",
                           ![r].terminal = {a \in Attempt : sub[a] = "ended"}]
          /\ \A a \in Attempt : sub[a] # "live"
          /\ request[r].at = "list"
      BY <1>8, <2>2 DEF ListSubscriptions
    <3>2. request[r] \in RequestState
      BY DEF TypeOK
    <3>3. /\ x \in RequestState /\ x.at = "attempt" /\ x.grant = request[r].grant
          /\ x.attempt = request[r].attempt /\ x.since = request[r].since
      BY <1>1, <3>2 DEF RequestState
    <3>4. request' = [request EXCEPT ![r] = x]
      BY <3>1, <3>2 DEF TypeOK, RequestState
    <3> HIDE DEF x
    <3> QED
      BY <3>1, <3>3, <3>4, RequestUpdate DEF OwnStep
  <2> QED
    BY <2>1, <2>2
<1>9. CASE ClaimAttempt(r)
  <2>1. CASE Goes(r, "failing")
    BY <1>1, <1>9, <2>1, GoesEffect DEF OwnStep, ClaimAttempt
  <2>2. CASE ~Goes(r, "failing")
    <3>1. /\ request' = [request EXCEPT ![r].at = "start", ![r].attempt = attempt'.id]
          /\ ~(Pending /\ attempt.status = "SESSION_CREATED")
          /\ request[r].at = "attempt"
          /\ Pending \/ attempt.id < MaxAttempts
          /\ attempt' = IF Pending THEN attempt
                        ELSE [id |-> attempt.id + 1, status |-> "PENDING", previous |-> local]
      BY <1>9, <2>2 DEF ClaimAttempt
    <3>2. attempt'.id \in 0..MaxAttempts
      BY <1>2, <3>1, BillingAssumption
    <3>5. /\ request' \in [Request -> RequestState]
          /\ \A s \in Request : s # r => request'[s] = request[s]
          /\ request'[r].at = "start" /\ request'[r].grant = request[r].grant
          /\ request'[r].attempt = attempt'.id /\ request'[r].since = request[r].since
      BY <1>1, <3>1, <3>2, TakesEffect
    <3> QED
      BY <1>9, <3>1, <3>5 DEF OwnStep
  <2> QED
    BY <2>1, <2>2
<1>10. CASE FailsEarly(r)
  <2>1. request[r].at \in {"reconcile", "list", "attempt", "start"} /\ Goes(r, "failing")
    BY <1>10 DEF FailsEarly
  <2> QED
    BY <1>1, <2>1, GoesEffect DEF OwnStep
<1>11. CASE GiveBack(r) \/ ReturnCapability(r)
  <2>1. Ends(r) /\ request[r].at # "idle"
    BY <1>11 DEF GiveBack, ReturnCapability
  <2> QED
    BY <1>3, <2>1
<1>12. CASE StartProvider(r)
  <2>1. /\ request[r].at = "start"
        /\ \/ Goes(r, "failing")
           \/ Goes(r, "creating") /\ grant[request[r].grant].state = "CLAIMED"
    BY <1>12 DEF StartProvider, Own
  <2> QED
    BY <1>1, <1>12, <2>1, GoesEffect DEF OwnStep
<1>13. CASE Finalize(r)
  <2>1. /\ request[r].at = "creating"
        /\ \/ Ends(r)
           \/ Goes(r, "record") /\ (request[r].attempt = 0 \/ attempt.id = request[r].attempt)
    BY <1>13 DEF Finalize
  <2> QED
    BY <1>1, <1>3, <1>13, <2>1, GoesEffect DEF OwnStep
<1>14. CASE RecordIssued(r)
  <2>1. /\ request[r].at = "record"
        /\ \/ Ends(r)
           \/ /\ Goes(r, "check")
              /\ grant'[request[r].grant].state \in {"CAPABILITY_ISSUED", "RELEASED"}
    BY <1>14 DEF RecordIssued, IssuedOrTerminal, Own
  <2> QED
    BY <1>1, <1>3, <2>1, GoesEffect DEF OwnStep
<1>15. CASE Crash(r)
  <2>1. request[r].at # "idle"
    BY <1>15 DEF Crash, Placed, PlacedRequest
  <2> QED
    BY <1>3, <1>15, <2>1 DEF Crash
<1> QED
  BY <1>4, <1>5, <1>6, <1>7, <1>8, <1>9, <1>10, <1>11, <1>12, <1>13, <1>14, <1>15 DEF CheckoutStep

\* Every request is typed after every step.
LEMMA RequestsNext ==
    ASSUME TypeOK, Placed, [Next]_vars
    PROVE  request' \in [Request -> RequestState]
<1>1. ASSUME NEW r \in Request, NEW k \in Kind, JoinGrant(r, k) \/ NewGrant(r, k)
      PROVE  request' \in [Request -> RequestState]
  <2>1. CASE JoinGrant(r, k)
    BY <2>1, JoinEffect
  <2>2. CASE NewGrant(r, k)
    BY <2>2, NewRequest
  <2> QED
    BY <1>1, <2>1, <2>2
<1>2. ASSUME NEW r \in Request, CheckoutStep(r) \/ Crash(r)
      PROVE  request' \in [Request -> RequestState]
  BY <1>2, CheckoutEffect DEF OwnStep
<1>3. ASSUME request' = request PROVE request' \in [Request -> RequestState]
  BY <1>3 DEF TypeOK
<1> QED
  BY <1>1, <1>2, <1>3
     DEF Next, MoveOwnership, CreateCheckout, CreatePortal, CreateLost, Elapse, Pay, Cancel,
         CloseCheckout, ClosePortal, DeliverCompleted, CompleteCheckout, LoseDelivery,
         OperatorRelease, vars

\* How the attempt row moves.
LEMMA AttemptNext ==
    ASSUME TypeOK, Placed, [Next]_vars
    PROVE  attempt' \in AttemptRow \cup {NoAttempt}
<1>1. ASSUME NEW r \in Request, ClaimAttempt(r) PROVE attempt' \in AttemptRow \cup {NoAttempt}
  <2>1. CASE attempt' = attempt
    BY <2>1 DEF TypeOK
  <2>2. CASE attempt' # attempt
    <3>1. /\ attempt' = [id |-> attempt.id + 1, status |-> "PENDING", previous |-> local]
          /\ attempt.id < MaxAttempts
      BY <1>1, <2>2 DEF ClaimAttempt
    <3>2. attempt.id + 1 \in Attempt /\ local \in 0..MaxAttempts
      <4>1. attempt.id \in 0..MaxAttempts
        BY AttemptFacts
      <4>2. local \in 0..MaxAttempts
        BY DEF TypeOK
      <4> QED
        BY <3>1, <4>1, <4>2, BillingAssumption DEF Attempt
    <3> QED
      BY <3>1, <3>2 DEF AttemptRow
  <2> QED
    BY <2>1, <2>2
<1>2. ASSUME NEW r \in Request, Finalize(r) PROVE attempt' \in AttemptRow \cup {NoAttempt}
  <2>1. CASE attempt' = attempt
    BY <2>1 DEF TypeOK
  <2>2. CASE attempt' # attempt
    <3>1. attempt' = [attempt EXCEPT !.status = "SESSION_CREATED"] /\ attempt.status = "PENDING"
      BY <1>2, <2>2 DEF Finalize
    <3> QED
      BY <3>1, AttemptFacts DEF AttemptRow
  <2> QED
    BY <2>1, <2>2
<1>3. ASSUME NEW a \in Attempt, CompleteCheckout(a) PROVE attempt' \in AttemptRow \cup {NoAttempt}
  <2>1. attempt' = [attempt EXCEPT !.status = "COMPLETED"] /\ attempt.id = a /\ a # 0
    BY <1>3 DEF CompleteCheckout, Accepts, Attempt
  <2> QED
    BY <2>1, AttemptFacts DEF AttemptRow
<1>4. ASSUME attempt' = attempt PROVE attempt' \in AttemptRow \cup {NoAttempt}
  BY <1>4 DEF TypeOK
<1> QED
  BY <1>1, <1>2, <1>3, <1>4
     DEF Next, MoveOwnership, JoinGrant, NewGrant, CheckoutStep, Crash, CreateCheckout, CreatePortal,
         CreateLost, Elapse, Pay, Cancel, CloseCheckout, ClosePortal, DeliverCompleted, LoseDelivery,
         OperatorRelease, ReuseIssued, ResumeStarted, LegacyAttempt, ReconcileExpired,
         ListSubscriptions, FailsEarly, GiveBack, StartProvider, RecordIssued, ReturnCapability,
         rows, vars

\* What Stripe and the calls to it hold.
StripeTyped ==
    /\ wire \subseteq [grant: Grant, attempt: 0..MaxAttempts]
    /\ checkout \in [Attempt -> {"none", "open", "complete", "expired"}]
    /\ by \in [Attempt -> 0..MaxGrants]
    /\ portal \in [Grant -> {"none", "open", "ended"}]
    /\ sub \in [Attempt -> {"none", "live", "ended"}]
    /\ shown \subseteq Grant
    /\ hooks \subseteq Attempt

\* What Stripe holds stays typed.
LEMMA StripeNext ==
    ASSUME TypeOK, Placed, [Next]_vars
    PROVE  StripeTyped'
<1>0. StripeTyped
  BY DEF TypeOK, StripeTyped
<1>1. ASSUME NEW r \in Request, StartProvider(r) PROVE StripeTyped'
  <2>1. Own(r) \in Grant /\ request[r].attempt \in 0..MaxAttempts
    BY <1>1, OwnGrant DEF StartProvider, RequestState
  <2>2. [grant |-> Own(r), attempt |-> request[r].attempt] \in [grant: Grant, attempt: 0..MaxAttempts]
    BY <2>1
  <2> QED
    BY <1>0, <1>1, <2>2 DEF StartProvider, StripeTyped, stripe
<1>2. ASSUME NEW r \in Request, ReconcileExpired(r) PROVE StripeTyped'
  BY <1>0, <1>2 DEF ReconcileExpired, StripeTyped
<1>3. ASSUME NEW r \in Request, ReturnCapability(r) PROVE StripeTyped'
  <2>1. Own(r) \in Grant
    BY <1>3, OwnGrant DEF ReturnCapability
  <2> QED
    BY <1>0, <1>3, <2>1 DEF ReturnCapability, StripeTyped, stripe
<1>4. ASSUME NEW m \in wire, CreateCheckout(m) \/ CreatePortal(m) \/ CreateLost(m) PROVE StripeTyped'
  <2>1. m.grant \in Grant /\ m.attempt \in 0..MaxAttempts /\ (m.attempt # 0 => m.attempt \in Attempt)
        /\ m.grant \in 0..MaxGrants
    BY BillingAssumption DEF TypeOK, Attempt, Grant
  <2> QED
    BY <1>0, <1>4, <2>1 DEF CreateCheckout, CreatePortal, CreateLost, StripeTyped, stripe
<1>5. ASSUME NEW a \in Attempt, \/ Pay(a) \/ Cancel(a) \/ CloseCheckout(a) \/ DeliverCompleted(a)
                                \/ LoseDelivery(a) \/ CompleteCheckout(a)
      PROVE StripeTyped'
  BY <1>0, <1>5 DEF Pay, Cancel, CloseCheckout, DeliverCompleted, LoseDelivery, CompleteCheckout,
                    StripeTyped, stripe
<1>6. ASSUME NEW g \in Grant, ClosePortal(g) PROVE StripeTyped'
  BY <1>0, <1>6 DEF ClosePortal, StripeTyped
<1>7. ASSUME UNCHANGED <<wire, stripe, shown, hooks>> PROVE StripeTyped'
  BY <1>0, <1>7 DEF StripeTyped, stripe
<1> QED
  BY <1>1, <1>2, <1>3, <1>4, <1>5, <1>6, <1>7
     DEF Next, MoveOwnership, JoinGrant, NewGrant, CheckoutStep, Crash, Elapse, OperatorRelease,
         ReuseIssued, ResumeStarted, LegacyAttempt, ListSubscriptions, ClaimAttempt, FailsEarly,
         GiveBack, Finalize, RecordIssued, stripe, vars

\* Type correctness is preserved by every step.
LEMMA TypeNext ==
    ASSUME TypeOK, Placed, [Next]_vars
    PROVE  TypeOK'
<1>1. owner' \in User
  BY DEF Next, MoveOwnership, JoinGrant, NewGrant, CheckoutStep, Crash, CreateCheckout, CreatePortal,
         CreateLost, Elapse, Pay, Cancel, CloseCheckout, ClosePortal, DeliverCompleted, LoseDelivery,
         CompleteCheckout, OperatorRelease, ReuseIssued, ResumeStarted, LegacyAttempt,
         ReconcileExpired, ListSubscriptions, ClaimAttempt, FailsEarly, GiveBack, StartProvider,
         Finalize, RecordIssued, ReturnCapability, rows, vars, TypeOK
<1>2. elapsed' \subseteq Attempt
  BY DEF Next, MoveOwnership, JoinGrant, NewGrant, CheckoutStep, Crash, CreateCheckout, CreatePortal,
         CreateLost, Elapse, Pay, Cancel, CloseCheckout, ClosePortal, DeliverCompleted, LoseDelivery,
         CompleteCheckout, OperatorRelease, ReuseIssued, ResumeStarted, LegacyAttempt,
         ReconcileExpired, ListSubscriptions, ClaimAttempt, FailsEarly, GiveBack, StartProvider,
         Finalize, RecordIssued, ReturnCapability, rows, vars, TypeOK
<1>3. local' \in 0..MaxAttempts /\ recorded' \subseteq Attempt
  <2>1. \A a \in Attempt : a \in 0..MaxAttempts
    BY DEF Attempt
  <2> QED
    BY <2>1 DEF Next, MoveOwnership, JoinGrant, NewGrant, CheckoutStep, Crash, CreateCheckout,
         CreatePortal, CreateLost, Elapse, Pay, Cancel, CloseCheckout, ClosePortal, DeliverCompleted,
         LoseDelivery, CompleteCheckout, OperatorRelease, ReuseIssued, ResumeStarted, LegacyAttempt,
         ReconcileExpired, ListSubscriptions, ClaimAttempt, FailsEarly, GiveBack, StartProvider,
         Finalize, RecordIssued, ReturnCapability, rows, vars, TypeOK
<1> QED
  BY <1>1, <1>2, <1>3, GrantsNext, RequestsNext, AttemptNext, StripeNext DEF TypeOK, StripeTyped

-----------------------------------------------------------------------------
(* Everything has its place *)

\* A request that does not move keeps its place.
LEMMA StandingPlace ==
    ASSUME TypeOK, Placed, [Next]_vars, NEW s \in Request, request'[s] = request[s]
    PROVE  PlacedRequest(s)'
<1> DEFINE q == request[s]
<1>1. CASE q.at = "idle"
  BY <1>1 DEF Placed, PlacedRequest
<1>2. CASE q.at # "idle"
  <2>1. q.grant \in Grant /\ grant[q.grant] # NoGrant
    BY <1>2 DEF Placed, PlacedRequest
  <2>2. /\ grant'[q.grant] # NoGrant /\ grant'[q.grant].kind = grant[q.grant].kind
        /\ grant[q.grant].state # "CLAIMED" => grant'[q.grant].state # "CLAIMED"
    BY <2>1, GrantKept
  <2> QED
    BY <1>2, <2>1, <2>2 DEF Placed, PlacedRequest
<1> QED
  BY <1>1, <1>2

\* A request that takes a step has its place.
LEMMA OwnPlace ==
    ASSUME TypeOK, Placed, [Next]_vars, NEW r \in Request, OwnStep(r)
    PROVE  PlacedRequest(r)'
<1> DEFINE p == request[r]
           q == request'[r]
<1>1. CASE q = Idle
  BY <1>1, IdleRequest DEF PlacedRequest
<1>2. CASE q # Idle
  <2>1. p.at # "idle" /\ q.grant = p.grant
    BY <1>2 DEF OwnStep
  <2>2. p.grant \in Grant /\ grant[p.grant] # NoGrant /\ grant[p.grant] \in GrantRow
    BY <2>1, OwnGrant DEF Placed, PlacedRequest, Own
  <2>3. /\ grant'[p.grant] # NoGrant /\ grant'[p.grant].kind = grant[p.grant].kind
        /\ grant[p.grant].state # "CLAIMED" => grant'[p.grant].state # "CLAIMED"
    BY <2>2, GrantKept
  <2>4. grant[p.grant].kind \in {"CHECKOUT", "PORTAL"}
    BY <2>2, RowFacts DEF Kind
  <2>5. /\ p.at \in {"issued", "started", "creating", "record", "check"} =>
             grant[p.grant].state # "CLAIMED"
        /\ grant[p.grant].kind = "PORTAL" =>
             p.attempt = 0 /\ p.at \in {"start", "creating", "record", "check", "failing"}
        /\ grant[p.grant].kind = "CHECKOUT" =>
             (p.at \in {"start", "creating", "record", "check"} => p.attempt # 0)
    BY <2>1 DEF Placed, PlacedRequest
  <2>6. attempt.status = "SESSION_CREATED" => attempt.id # 0
    BY AttemptFacts DEF Attempt
  <2>7. p.at = "attempt" /\ q.at = "start" => q.attempt # 0
    <3> SUFFICES ASSUME p.at = "attempt", q.at = "start" PROVE q.attempt # 0
      OBVIOUS
    <3>1. /\ q.attempt = attempt'.id
          /\ ClaimAttempt(r) /\ ~(Pending /\ attempt.status = "SESSION_CREATED")
      BY <1>2 DEF OwnStep
    <3>2. local # 0 /\ local \notin p.terminal => request'[r].at = "failing"
      BY <3>1, GoesEffect DEF ClaimAttempt, Step
    <3>3. attempt' = IF Pending THEN attempt
                     ELSE [id |-> attempt.id + 1, status |-> "PENDING", previous |-> local]
      BY <3>1, <3>2 DEF ClaimAttempt
    <3>4. attempt.id \in Nat /\ (Pending => attempt.id # 0)
      BY AttemptFacts, BillingAssumption DEF Pending, Attempt
    <3> QED
      BY <3>1, <3>3, <3>4
  <2>8. p.at = "start" /\ q.at = "creating" => grant'[p.grant].state # "CLAIMED"
    <3> SUFFICES ASSUME p.at = "start", q.at = "creating" PROVE grant'[p.grant].state # "CLAIMED"
      OBVIOUS
    <3>1. StartProvider(r) /\ grant[p.grant].state = "CLAIMED"
      BY <1>2 DEF OwnStep
    <3> QED
      BY <3>1, StartEffect DEF Own, Moves
  <2> QED
    BY <1>2, <2>1, <2>2, <2>3, <2>4, <2>5, <2>6, <2>7, <2>8 DEF OwnStep, PlacedRequest
<1> QED
  BY <1>1, <1>2

\* A request that starts has its place.
LEMMA BeginPlace ==
    ASSUME TypeOK, Placed, [Next]_vars, NEW r \in Request, NEW k \in Kind,
           JoinGrant(r, k) \/ NewGrant(r, k)
    PROVE  \A s \in Request : PlacedRequest(s)'
<1>1. CASE JoinGrant(r, k)
  <2>1. \A s \in Request : s # r => request'[s] = request[s]
    BY <1>1, JoinEffect
  <2>2. request'[r].grant \in Grant /\ grant' = grant /\ grant[request'[r].grant] # NoGrant
    <3>1. request'[r].grant \in OpenGrants /\ grant' = grant
      BY <1>1, JoinEffect DEF JoinGrant, rows
    <3> QED
      BY <3>1, RowFacts DEF OpenGrants, Open
  <2>3. PlacedRequest(r)'
    BY <1>1, <2>2, JoinEffect DEF PlacedRequest
  <2> QED
    BY <2>1, <2>3, StandingPlace
<1>2. CASE NewGrant(r, k)
  <2>1. \A s \in Request : s # r => request'[s] = request[s]
    BY <1>2, NewRequest
  <2>2. PlacedRequest(r)'
    BY <1>2, NewRequest, RowFacts DEF PlacedRequest
  <2> QED
    BY <2>1, <2>2, StandingPlace
<1> QED
  BY <1>1, <1>2

\* Every request has its place after every step.
LEMMA RequestsPlaced ==
    ASSUME TypeOK, Placed, [Next]_vars
    PROVE  \A s \in Request : PlacedRequest(s)'
<1>1. ASSUME NEW r \in Request, CheckoutStep(r) \/ Crash(r)
      PROVE  \A s \in Request : PlacedRequest(s)'
  <2>1. OwnStep(r)
    BY <1>1, CheckoutEffect
  <2>2. \A s \in Request : s # r => request'[s] = request[s]
    BY <2>1 DEF OwnStep
  <2> QED
    BY <2>1, <2>2, OwnPlace, StandingPlace
<1>2. ASSUME request' = request PROVE \A s \in Request : PlacedRequest(s)'
  BY <1>2, StandingPlace
<1> QED
  BY <1>1, <1>2, BeginPlace
     DEF Next, MoveOwnership, CreateCheckout, CreatePortal, CreateLost, Elapse, Pay, Cancel,
         CloseCheckout, ClosePortal, DeliverCompleted, CompleteCheckout, LoseDelivery,
         OperatorRelease, vars

\* Calls and sessions keep their place.
LEMMA StandingCall ==
    ASSUME TypeOK, Placed, [Next]_vars, NEW m \in wire
    PROVE  PlacedCall(m)'
<1>1. m.grant \in Grant /\ grant[m.grant].state \in Begun /\ PlacedCall(m)
  BY DEF TypeOK, Placed, PlacedCall
<1>2. grant[m.grant] # NoGrant
  BY <1>1, RowFacts DEF Begun, Engaged
<1> QED
  BY <1>1, <1>2, GrantKept DEF PlacedCall

\* So has every call.
LEMMA CallsPlaced ==
    ASSUME TypeOK, Placed, [Next]_vars
    PROVE  \A m \in wire' : PlacedCall(m)'
<1>1. ASSUME NEW r \in Request, StartProvider(r), wire' # wire
      PROVE  \A m \in wire' : PlacedCall(m)'
  <2> PICK n : n = [grant |-> Own(r), attempt |-> request[r].attempt]
    OBVIOUS
  <2>1. wire' = wire \cup {n} /\ grant[Own(r)].state = "CLAIMED" /\ request[r].at = "start"
    BY <1>1 DEF StartProvider
  <2>2. grant'[Own(r)].state = "PROVIDER_STARTED" /\ grant'[Own(r)].kind = grant[Own(r)].kind
        /\ grant[Own(r)] \in GrantRow
    BY <1>1, <2>1, StartEffect DEF Moves
  <2>3. grant[Own(r)].kind = IF request[r].attempt = 0 THEN "PORTAL" ELSE "CHECKOUT"
    BY <2>1, <2>2, RowFacts DEF Placed, PlacedRequest, Own, Kind
  <2>4. PlacedCall(n)'
    <3>1. n.grant = Own(r) /\ n.attempt = request[r].attempt
      OBVIOUS
    <3> QED
      BY <2>2, <2>3, <3>1 DEF PlacedCall, Begun, Engaged
  <2>5. ASSUME NEW m \in wire' PROVE PlacedCall(m)'
    BY <2>1, <2>4, <2>5, StandingCall
  <2> QED
    BY <2>5
<1>2. ASSUME wire' \subseteq wire PROVE \A m \in wire' : PlacedCall(m)'
  BY <1>2, StandingCall
<1> QED
  BY <1>1, <1>2
     DEF Next, MoveOwnership, JoinGrant, NewGrant, CheckoutStep, Crash, Elapse, OperatorRelease,
         CreateCheckout, CreatePortal, CreateLost, Pay, Cancel, CloseCheckout, ClosePortal,
         DeliverCompleted, CompleteCheckout, LoseDelivery, ReuseIssued, ResumeStarted,
         LegacyAttempt, ReconcileExpired, ListSubscriptions, ClaimAttempt, FailsEarly, GiveBack,
         StartProvider, Finalize, RecordIssued, ReturnCapability, vars

\* What may happen to a Checkout session: it is created, and once it is it ends.
SessionStep(a) ==
    \/ checkout'[a] = checkout[a] /\ by'[a] = by[a]
    \/ /\ checkout[a] = "open" /\ by'[a] = by[a]
       /\ checkout'[a] = "expired" \/ (checkout'[a] = "complete" /\ Pay(a))
    \/ /\ checkout[a] = "none" /\ checkout'[a] = "open" /\ a \notin elapsed
       /\ \E m \in wire : m.attempt = a /\ m.grant = by'[a] /\ CreateCheckout(m)

\* Checkout sessions take no other steps.
LEMMA SessionsNext ==
    ASSUME TypeOK, Placed, [Next]_vars
    PROVE  \A a \in Attempt : SessionStep(a)
<1>1. ASSUME NEW m \in wire, CreateCheckout(m) PROVE \A a \in Attempt : SessionStep(a)
  BY <1>1 DEF CreateCheckout, SessionStep, TypeOK
<1>2. ASSUME NEW r \in Request, ReconcileExpired(r) PROVE \A a \in Attempt : SessionStep(a)
  BY <1>2 DEF ReconcileExpired, SessionStep, TypeOK
<1>3. ASSUME NEW a \in Attempt, Pay(a) \/ CloseCheckout(a) PROVE \A b \in Attempt : SessionStep(b)
  BY <1>3 DEF Pay, Payable, CloseCheckout, SessionStep, TypeOK
<1>4. ASSUME UNCHANGED <<checkout, by>> PROVE \A a \in Attempt : SessionStep(a)
  BY <1>4 DEF SessionStep
<1> QED
  BY <1>1, <1>2, <1>3, <1>4
     DEF Next, MoveOwnership, JoinGrant, NewGrant, CheckoutStep, Crash, Elapse, OperatorRelease,
         CreatePortal, CreateLost, Cancel, ClosePortal, DeliverCompleted, CompleteCheckout,
         LoseDelivery, ReuseIssued, ResumeStarted, LegacyAttempt, ListSubscriptions,
         ClaimAttempt, FailsEarly, GiveBack, StartProvider, Finalize, RecordIssued,
         ReturnCapability, stripe, vars

\* The same for a portal session.
PortalStep(g) ==
    \/ portal'[g] = portal[g]
    \/ portal[g] = "open" /\ portal'[g] = "ended"
    \/ portal'[g] = "open" /\ \E m \in wire : m.grant = g /\ m.attempt = 0 /\ CreatePortal(m)

\* Portal sessions take no other steps.
LEMMA PortalNext ==
    ASSUME TypeOK, Placed, [Next]_vars
    PROVE  \A g \in Grant : PortalStep(g)
<1>1. ASSUME NEW m \in wire, CreatePortal(m) PROVE \A g \in Grant : PortalStep(g)
  BY <1>1 DEF CreatePortal, PortalStep, TypeOK
<1>2. ASSUME NEW h \in Grant, ClosePortal(h) PROVE \A g \in Grant : PortalStep(g)
  BY <1>2 DEF ClosePortal, PortalStep, TypeOK
<1>3. ASSUME portal' = portal PROVE \A g \in Grant : PortalStep(g)
  BY <1>3 DEF PortalStep
<1> QED
  BY <1>1, <1>2, <1>3
     DEF Next, MoveOwnership, JoinGrant, NewGrant, CheckoutStep, Crash, Elapse, OperatorRelease,
         CreateCheckout, CreateLost, Pay, Cancel, CloseCheckout, DeliverCompleted, CompleteCheckout,
         LoseDelivery, ReuseIssued, ResumeStarted, LegacyAttempt, ReconcileExpired,
         ListSubscriptions, ClaimAttempt, FailsEarly, GiveBack, StartProvider, Finalize,
         RecordIssued, ReturnCapability, stripe, vars

\* Every step leaves everything in its place.
LEMMA PlacedNext ==
    ASSUME TypeOK, Placed, [Next]_vars
    PROVE  Placed'
<1>1. ASSUME NEW a \in Attempt PROVE PlacedSession(a)'
  <2>1. PlacedSession(a) /\ SessionStep(a)
    BY SessionsNext DEF Placed
  <2>2. CASE by'[a] = by[a] /\ by[a] # 0
    <3>1. by[a] \in Grant /\ grant[by[a]].state \in Begun /\ grant[by[a]].kind = "CHECKOUT"
          /\ grant[by[a]] # NoGrant
      BY <2>2, SessionGrant, RowFacts
    <3>2. grant'[by[a]].state \in Begun /\ grant'[by[a]].kind = "CHECKOUT"
      BY <3>1, GrantKept
    <3>3. checkout[a] # "none" /\ checkout'[a] # "none"
      BY <2>1, <2>2 DEF PlacedSession, SessionStep
    <3> QED
      BY <2>2, <3>2, <3>3 DEF PlacedSession
  <2>3. CASE by'[a] = by[a] /\ by[a] = 0
    <3>1. checkout[a] = "none" /\ checkout'[a] = "none"
      <4>1. checkout[a] = "none"
        BY <2>1, <2>3 DEF PlacedSession
      <4>2. ASSUME NEW m \in wire, m.grant = by'[a] PROVE FALSE
        BY <2>3, <4>2 DEF TypeOK, Grant
      <4> QED
        BY <2>1, <4>1, <4>2 DEF SessionStep
    <3> QED
      BY <2>3, <3>1 DEF PlacedSession
  <2>4. CASE by'[a] # by[a]
    <3>1. PICK m \in wire : m.attempt = a /\ m.grant = by'[a] /\ checkout'[a] = "open"
      BY <2>1, <2>4 DEF SessionStep
    <3>2. m.grant \in Grant /\ m.grant # 0 /\ m.attempt # 0
      BY <3>1 DEF TypeOK, Grant, Attempt
    <3>3. grant'[m.grant].state \in Begun /\ grant'[m.grant].kind = "CHECKOUT"
      BY <3>2, StandingCall DEF PlacedCall
    <3> QED
      BY <3>1, <3>2, <3>3 DEF PlacedSession
  <2> QED
    BY <2>2, <2>3, <2>4
<1>2. ASSUME NEW a \in hooks' PROVE checkout'[a] = "complete"
  <2>1. a \in Attempt
    BY StripeNext DEF StripeTyped
  <2>2. checkout[a] = "complete"
    BY DEF Placed, Next, MoveOwnership, JoinGrant, NewGrant, CheckoutStep, Crash, Elapse,
         OperatorRelease, CreateCheckout, CreatePortal, CreateLost, Pay, Cancel, CloseCheckout,
         ClosePortal, DeliverCompleted, CompleteCheckout, LoseDelivery, ReuseIssued, ResumeStarted,
         LegacyAttempt, ReconcileExpired, ListSubscriptions, ClaimAttempt, FailsEarly, GiveBack,
         StartProvider, Finalize, RecordIssued, ReturnCapability, vars
  <2> QED
    BY <2>1, <2>2, SessionsNext DEF SessionStep
<1>3. ASSUME NEW g \in Grant, portal'[g] # "none" PROVE grant'[g].state \in Begun
  <2>1. CASE portal[g] # "none"
    <3>1. grant[g].state \in Begun /\ grant[g] # NoGrant
      BY <2>1, RowFacts DEF Placed, Begun, Engaged
    <3> QED
      BY <3>1, GrantKept
  <2>2. CASE portal[g] = "none"
    <3>1. PICK m \in wire : m.grant = g
      BY <1>3, <2>2, PortalNext DEF PortalStep
    <3> QED
      BY <3>1, StandingCall DEF PlacedCall
  <2> QED
    BY <2>1, <2>2
<1> QED
  BY <1>1, <1>2, <1>3, RequestsPlaced, CallsPlaced DEF Placed

\* An organisation that never opened billing.
LEMMA TypeInit == Init => TypeOK /\ Placed
<1> SUFFICES ASSUME Init PROVE TypeOK /\ Placed
  OBVIOUS
<1>1. 0 \in 0..MaxAttempts /\ 0 \in 0..MaxGrants
  BY BillingAssumption
<1>2. TypeOK
  BY <1>1, IdleRequest DEF Init, TypeOK
<1>3. Placed
  BY IdleRequest DEF Init, Placed, PlacedRequest, PlacedSession
<1> QED
  BY <1>2, <1>3

\* Every reachable state is well-typed.
THEOREM TypeCorrect == Spec => [](TypeOK /\ Placed)
<1>1. TypeOK /\ Placed /\ [Next]_vars => (TypeOK /\ Placed)'
  BY TypeNext, PlacedNext
<1> QED
  BY <1>1, TypeInit, PTL DEF Spec

-----------------------------------------------------------------------------
(* One open grant, one pending attempt, one session for each *)

\* What a step may do to the attempt and to the organisation's subscription.
ReplacesAttempt ==
    /\ ~Pending /\ local' = local
    /\ attempt'.id = attempt.id + 1 /\ attempt'.status = "PENDING" /\ attempt'.previous = local
    /\ \E r \in Request : ClaimAttempt(r)
RecordsSession ==
    /\ attempt.status = "PENDING" /\ attempt'.status = "SESSION_CREATED" /\ local' = local
    /\ attempt'.id = attempt.id /\ attempt'.previous = attempt.previous
    /\ \E r \in Request : Finalize(r) /\ request[r].attempt = attempt.id
Completes ==
    /\ attempt'.status = "COMPLETED" /\ attempt'.id = attempt.id /\ local' = attempt.id
    /\ CompleteCheckout(attempt.id) /\ attempt.id \in hooks
AttemptStep ==
    \/ attempt' = attempt /\ local' = local
    \/ ReplacesAttempt
    \/ RecordsSession
    \/ Completes

\* The attempt takes no other steps.
LEMMA AttemptStepNext ==
    ASSUME TypeOK, Placed, [Next]_vars
    PROVE  AttemptStep
<1>1. ASSUME NEW r \in Request, ClaimAttempt(r) PROVE AttemptStep
  BY <1>1 DEF ClaimAttempt, AttemptStep, ReplacesAttempt
<1>2. ASSUME NEW r \in Request, Finalize(r) PROVE AttemptStep
  <2>1. CASE attempt' = attempt
    BY <1>2, <2>1 DEF AttemptStep, Finalize
  <2>2. CASE attempt' # attempt
    <3>1. /\ attempt' = [attempt EXCEPT !.status = "SESSION_CREATED"] /\ attempt.status = "PENDING"
          /\ request[r].attempt = attempt.id /\ local' = local
      BY <1>2, <2>2 DEF Finalize
    <3>2. attempt \in AttemptRow
      BY <3>1, AttemptFacts
    <3>3. attempt'.id = attempt.id /\ attempt'.previous = attempt.previous
          /\ attempt'.status = "SESSION_CREATED"
      BY <3>1, <3>2 DEF AttemptRow
    <3> QED
      BY <1>2, <3>1, <3>3 DEF AttemptStep, RecordsSession
  <2> QED
    BY <2>1, <2>2
<1>3. ASSUME NEW a \in Attempt, CompleteCheckout(a) PROVE AttemptStep
  <2>1. /\ attempt' = [attempt EXCEPT !.status = "COMPLETED"] /\ attempt.id = a
        /\ local' = a /\ a \in hooks
    BY <1>3 DEF CompleteCheckout, Accepts
  <2>2. attempt \in AttemptRow
    BY <2>1, AttemptFacts DEF Attempt
  <2>3. attempt'.id = a /\ attempt'.status = "COMPLETED"
    BY <2>1, <2>2 DEF AttemptRow
  <2> QED
    BY <1>3, <2>1, <2>3 DEF AttemptStep, Completes
<1>4. ASSUME attempt' = attempt, local' = local PROVE AttemptStep
  BY <1>4 DEF AttemptStep
<1> QED
  BY <1>1, <1>2, <1>3, <1>4
     DEF Next, MoveOwnership, JoinGrant, NewGrant, CheckoutStep, Crash, CreateCheckout, CreatePortal,
         CreateLost, Elapse, Pay, Cancel, CloseCheckout, ClosePortal, DeliverCompleted, LoseDelivery,
         OperatorRelease, ReuseIssued, ResumeStarted, LegacyAttempt, ReconcileExpired,
         ListSubscriptions, FailsEarly, GiveBack, StartProvider, RecordIssued, ReturnCapability,
         rows, vars

\* A lease only runs out.
LEMMA ElapsedNext ==
    ASSUME [Next]_vars
    PROVE  elapsed' = elapsed \/ Elapse
BY DEF Next, MoveOwnership, JoinGrant, NewGrant, CheckoutStep, Crash, CreateCheckout, CreatePortal,
       CreateLost, Pay, Cancel, CloseCheckout, ClosePortal, DeliverCompleted, LoseDelivery,
       CompleteCheckout, OperatorRelease, ReuseIssued, ResumeStarted, LegacyAttempt,
       ReconcileExpired, ListSubscriptions, ClaimAttempt, FailsEarly, GiveBack, StartProvider,
       Finalize, RecordIssued, ReturnCapability, vars

\* Nothing that is settled is undone.
LEMMA Grows ==
    ASSUME TypeOK, Placed, [Next]_vars
    PROVE  /\ attempt.id <= attempt'.id /\ Settled <= Settled'
           /\ attempt'.id \in Nat /\ Settled' \in Nat
           /\ attempt'.status # "PENDING" => Settled' = attempt'.id
           /\ attempt'.status = "PENDING" => Settled' = attempt'.id - 1
           /\ elapsed \subseteq elapsed'
           /\ \A a \in Attempt : checkout[a] = "complete" => checkout'[a] = "complete"
           /\ \A a \in Attempt : checkout[a] # "none" => checkout'[a] # "none" /\ by'[a] = by[a]
<1>1. attempt.id \in Nat /\ Settled \in Nat /\ Settled <= attempt.id
      /\ (attempt.status # "PENDING" => Settled = attempt.id)
      /\ (attempt.status = "PENDING" => Settled = attempt.id - 1)
  BY AttemptFacts, BillingAssumption
<1>2. /\ attempt'.id \in Nat /\ Settled' \in Nat
      /\ attempt'.status # "PENDING" => Settled' = attempt'.id
      /\ attempt'.status = "PENDING" => Settled' = attempt'.id - 1
  <2>1. attempt' \in AttemptRow \cup {NoAttempt}
    BY AttemptNext
  <2> QED
    BY <2>1, BillingAssumption DEF AttemptRow, Attempt, NoAttempt, Settled
<1>3. attempt.id <= attempt'.id /\ Settled <= Settled'
  BY <1>1, <1>2, AttemptStepNext DEF AttemptStep, ReplacesAttempt, RecordsSession, Completes
<1>4. elapsed \subseteq elapsed'
  BY ElapsedNext DEF Elapse
<1>5. \A a \in Attempt : SessionStep(a)
  BY SessionsNext
<1> QED
  BY <1>2, <1>3, <1>4, <1>5 DEF SessionStep

\* A session that was completed, or is of a grant whose capability went out, was
\* recorded first.
LEMMA PaidWasRecorded ==
    ASSUME TypeOK, Placed, Authority, NEW a \in Attempt, Payable(a)
    PROVE  Usable(a) /\ by[a] # 0 /\ a <= Settled
<1>1. Usable(a) /\ by[a] \in shown /\ by[a] # 0
  BY DEF Payable, Usable, Placed, PlacedSession
<1>2. grant[by[a]] # NoGrant /\ grant[by[a]].kind = "CHECKOUT" /\ by[a] \in Grant
  BY <1>1, SessionGrant, RowFacts
<1>3. grant[by[a]].resource # 0
  BY <1>1, <1>2 DEF Authority, Sessions
<1>4. grant[by[a]].resource = a /\ grant[by[a]].resource <= Settled
  BY <1>1, <1>2, <1>3 DEF Authority, Sessions
<1> QED
  BY <1>1, <1>4

\* Attempts still follow each other.
LEMMA AttemptsNext ==
    ASSUME TypeOK, Placed, Authority, [Next]_vars
    PROVE  Attempts'
<1>0. Attempts /\ AttemptStep /\ attempt.id \in Nat
  BY AttemptStepNext, AttemptFacts, BillingAssumption DEF Authority
<1>1. ASSUME NEW a \in Attempt, a < attempt'.id PROVE a \in elapsed' \/ checkout'[a] = "complete"
  <2>1. a < attempt.id \/ (a = attempt.id /\ ReplacesAttempt)
    BY <1>0, <1>1 DEF AttemptStep, ReplacesAttempt, RecordsSession, Completes, Attempt
  <2>2. a \in elapsed \/ checkout[a] = "complete"
    BY <1>0, <2>1 DEF Attempts, ReplacesAttempt, Pending, Attempt
  <2> QED
    BY <2>2, Grows
<1>2. ASSUME attempt'.id # 0, attempt'.status = "COMPLETED" PROVE checkout'[attempt'.id] = "complete"
  <2>1. attempt'.id = attempt.id /\ (attempt.status = "COMPLETED" \/ attempt.id \in hooks)
    BY <1>0, <1>2 DEF AttemptStep, ReplacesAttempt, RecordsSession, Completes
  <2>2. checkout[attempt.id] = "complete" /\ attempt.id \in Attempt
    BY <1>0, <1>2, <2>1, AttemptFacts DEF Attempts, Placed, Attempt
  <2> QED
    BY <2>1, <2>2, Grows
<1>3. ASSUME attempt'.status = "SESSION_CREATED" PROVE checkout'[attempt'.id] # "none"
  <2>1. attempt'.id = attempt.id /\ attempt.status # "COMPLETED" /\ attempt.id \in Attempt
    BY <1>0, <1>3, AttemptFacts DEF AttemptStep, ReplacesAttempt, RecordsSession, Completes
  <2>2. attempt.status = "SESSION_CREATED" \/ RecordsSession
    BY <1>0, <1>3 DEF AttemptStep, ReplacesAttempt, Completes
  <2>3. checkout[attempt.id] # "none"
    BY <1>0, <2>1, <2>2 DEF Attempts, RecordsSession, Finalize, Answered, Attempt
  <2> QED
    BY <2>1, <2>3, Grows
<1>4. attempt'.status # "COMPLETED" => local' = attempt'.previous
  BY <1>0 DEF Attempts, AttemptStep, ReplacesAttempt, RecordsSession, Completes
<1>5. ASSUME NEW a \in Attempt, a \in elapsed' \/ checkout'[a] # "none" PROVE a <= attempt'.id
  <2>1. a \in elapsed \/ checkout[a] # "none" => a <= attempt.id
    BY <1>0 DEF Attempts
  <2>2. ASSUME a \in elapsed', a \notin elapsed PROVE a = attempt.id
    BY <2>2, ElapsedNext DEF Elapse
  <2>3. ASSUME checkout'[a] # "none", checkout[a] = "none" PROVE a <= attempt.id
    <3>1. SessionStep(a)
      BY SessionsNext
    <3>2. PICK m \in wire : m.attempt = a
      BY <2>3, <3>1 DEF SessionStep
    <3> QED
      BY <3>2 DEF Authority, Calls
  <2> QED
    BY <1>0, <1>5, <2>1, <2>2, <2>3, Grows DEF Attempt
<1>6. ASSUME NEW a \in Attempt, checkout'[a] = "complete" PROVE a <= Settled'
  <2>1. checkout[a] = "complete" \/ Pay(a)
    BY <1>6, SessionsNext DEF SessionStep
  <2>2. a <= Settled
    BY <1>0, <2>1, PaidWasRecorded DEF Attempts, Pay
  <2>3. Settled \in Nat
    BY AttemptFacts, BillingAssumption
  <2> QED
    BY <2>2, <2>3, Grows DEF Attempt
<1> QED
  BY <1>1, <1>2, <1>3, <1>4, <1>5, <1>6 DEF Attempts

\* The interlock: a grant is created for the owner when no other is open, and the
\* owner changes when none is.
LEMMA OneOpenNext ==
    ASSUME TypeOK, Placed, Authority, [Next]_vars
    PROVE  OneOpenGrant'
<1>0. OneOpenGrant
  BY DEF Authority
<1>1. \A g \in Grant : GrantStep(g)
  BY GrantsNext
<1>2. ASSUME NEW u \in User, MoveOwnership(u) PROVE OpenGrants' = {}
  BY <1>2, MoveEffect, RowFacts DEF MoveOwnership, OpenGrants, Open
<1>3. ASSUME NEW r \in Request, NEW k \in Kind, NewGrant(r, k)
      PROVE  /\ OpenGrants' = {request'[r].grant}
             /\ grant'[request'[r].grant].actor = owner /\ owner' = owner
  <2> DEFINE h == request'[r].grant
  <2>1. /\ h \in Grant /\ grant'[h].state = "CLAIMED" /\ grant'[h].actor = owner
        /\ \A f \in Grant : f # h /\ f \notin OpenGrants => grant'[f] = grant[f]
        /\ grant[h] = NoGrant
    BY <1>3, NewRequest
  <2>2. \A g \in OpenGrants : grant'[g].state = "RELEASED"
    BY <1>3, NewEffect
  <2>3. owner' = owner
    BY <1>3 DEF NewGrant
  <2>4. h \notin OpenGrants
    BY <2>1, RowFacts DEF OpenGrants, Open
  <2> HIDE DEF h
  <2>5. \A g \in Grant : g # h => grant'[g].state \notin Open
    BY <2>1, <2>4, <2>2 DEF OpenGrants, Open
  <2>6. h \in OpenGrants'
    BY <2>1 DEF OpenGrants, Open
  <2>7. OpenGrants' = {h}
    BY <2>5, <2>6 DEF OpenGrants
  <2> QED
    BY <2>1, <2>7, <2>3 DEF h
<1>4. ASSUME owner' = owner, \A r \in Request, k \in Kind : ~NewGrant(r, k) PROVE OneOpenGrant'
  <2>1. ASSUME NEW g \in OpenGrants' PROVE g \in OpenGrants /\ grant'[g].actor = owner
    <3>1. g \in Grant /\ grant'[g].state \in Open
      BY DEF OpenGrants
    <3>2. g \in OpenGrants /\ grant'[g].actor = grant[g].actor
      BY <1>1, <1>4, <3>1 DEF GrantStep, StartsGrant, IssuesGrant, ReleasesGrant, OpenGrants, Open
    <3> QED
      BY <1>0, <3>2 DEF OneOpenGrant
  <2> QED
    BY <1>0, <1>4, <2>1 DEF OneOpenGrant
<1>5. owner' = owner \/ \E u \in User : MoveOwnership(u)
  BY DEF Next, JoinGrant, NewGrant, CheckoutStep, Crash, CreateCheckout, CreatePortal,
         CreateLost, Elapse, Pay, Cancel, CloseCheckout, ClosePortal, DeliverCompleted, LoseDelivery,
         CompleteCheckout, OperatorRelease, ReuseIssued, ResumeStarted, LegacyAttempt,
         ReconcileExpired, ListSubscriptions, ClaimAttempt, FailsEarly, GiveBack, StartProvider,
         Finalize, RecordIssued, ReturnCapability, rows, vars
<1> QED
  BY <1>2, <1>3, <1>4, <1>5 DEF OneOpenGrant

\* An engaged grant is only let go when its session is closed, paid or out of time,
\* or no call of its request is left.
LEMMA EngagedStays ==
    ASSUME TypeOK, Placed, Authority, [Next]_vars, NEW g \in Grant,
           grant[g].state \in Engaged, grant'[g].state \notin Engaged
    PROVE  Spent(g) \/ \E a \in Attempt : CompleteCheckout(a) /\ by[a] = g /\ a \in hooks
<1>1. GrantStep(g)
  BY GrantsNext
<1>2. ReleasesGrant(g) /\ grant[g].state # "CLAIMED"
  BY <1>1, RowFacts DEF GrantStep, StartsGrant, IssuesGrant, Engaged
<1> QED
  BY <1>2 DEF ReleasesGrant, CompleteCheckout

\* The grant of a usable session stays engaged as long as the session is usable.
LEMMA UsableStays ==
    ASSUME TypeOK, Placed, Authority, [Next]_vars, NEW a \in Attempt, Usable(a)'
    PROVE  grant'[by'[a]].state \in Engaged
<1>1. SessionStep(a) /\ checkout'[a] = "open" /\ a \notin elapsed
  BY SessionsNext, Grows DEF Usable
<1>2. CASE checkout[a] = "open" /\ by'[a] = by[a]
  <2> DEFINE g == by[a]
  <2>1. g \in Grant /\ grant[g] \in GrantRow /\ grant[g].kind = "CHECKOUT" /\ g # 0
    BY <1>2, SessionGrant DEF Placed, PlacedSession
  <2>2. grant[g].state \in Engaged /\ grant[g].resource \in {0, a}
    BY <1>1, <1>2, <2>1 DEF Authority, Sessions, Usable
  <2>3. ~Spent(g)
    BY <1>1, <1>2, <2>1, <2>2 DEF Spent, NoneOutstanding
  <2>4. ASSUME NEW b \in Attempt, by[b] = g, b \in hooks PROVE FALSE
    <3>1. a = b
      BY <2>1, <2>4 DEF Authority, Sessions
    <3> QED
      BY <1>2, <2>4, <3>1 DEF Placed
  <2> QED
    BY <1>2, <2>1, <2>2, <2>3, <2>4, EngagedStays
<1>3. CASE checkout[a] # "open"
  <2>1. PICK m \in wire : m.attempt = a /\ m.grant = by'[a] /\ CreateCheckout(m)
    BY <1>1, <1>3 DEF SessionStep
  <2>2. grant' = grant /\ grant[m.grant].state = "PROVIDER_STARTED"
    BY <2>1 DEF CreateCheckout, rows, Authority, Calls
  <2> QED
    BY <2>1, <2>2 DEF Engaged
<1> QED
  BY <1>1, <1>2, <1>3 DEF SessionStep

\* What a session records in its grant is its own attempt.
LEMMA ResourceNext ==
    ASSUME TypeOK, Placed, Authority, [Next]_vars, NEW a \in Attempt, by'[a] # 0
    PROVE  grant'[by'[a]].resource \in {0, a}
<1>1. CASE by[a] # 0
  <2> DEFINE g == by[a]
  <2>1. g \in Grant /\ grant[g] \in GrantRow /\ grant[g].resource \in {0, a} /\ grant[g] # NoGrant
    BY <1>1, SessionGrant, RowFacts DEF Authority, Sessions
  <2>2. by'[a] = g
    BY <1>1, Grows DEF Placed, PlacedSession
  <2>3. GrantStep(g)
    BY <2>1, GrantsNext
  <2>4. ASSUME NEW r \in Request, RecordIssued(r), Own(r) = g, grant[g].state = "PROVIDER_STARTED"
        PROVE  request[r].attempt \in {0, a}
    <3>1. request[r].attempt # 0 => by[request[r].attempt] = g
      BY <2>4 DEF Authority, Working, WorkingRequest, RecordIssued, Own
    <3>2. request[r].attempt \in 0..MaxAttempts
      BY DEF TypeOK, RequestState
    <3>3. request[r].attempt # 0 => request[r].attempt \in Attempt
      BY <3>2, BillingAssumption DEF Attempt
    <3> QED
      BY <1>1, <3>1, <3>3 DEF Authority, Sessions
  <2>5. ASSUME NEW b \in Attempt, by[b] = g PROVE b = a
    BY <1>1, <2>5 DEF Authority, Sessions
  <2> QED
    BY <2>1, <2>2, <2>3, <2>4, <2>5 DEF GrantStep, StartsGrant, IssuesGrant, ReleasesGrant
<1>2. CASE by[a] = 0
  <2>1. PICK m \in wire : m.attempt = a /\ m.grant = by'[a] /\ CreateCheckout(m)
    BY <1>2, SessionsNext DEF SessionStep
  <2>2. /\ grant' = grant /\ grant[m.grant].state = "PROVIDER_STARTED" /\ m.grant \in Grant
    BY <2>1 DEF CreateCheckout, rows, Authority, Calls, TypeOK
  <2>3. grant[m.grant].resource = 0
    BY <2>2, RowFacts DEF TypeOK
  <2> QED
    BY <2>1, <2>2, <2>3
<1> QED
  BY <1>1, <1>2

\* A grant is bound to an attempt that was recorded.
LEMMA BoundNext ==
    ASSUME TypeOK, Placed, Authority, [Next]_vars, NEW g \in Grant, grant'[g] # NoGrant
    PROVE  /\ grant'[g].resource <= Settled'
           /\ grant[g] # NoGrant /\ grant[g].resource # 0 => grant'[g].resource # 0
<1>1. GrantStep(g) /\ Settled \in Nat /\ Settled' \in Nat /\ Settled <= Settled'
  BY GrantsNext, Grows, AttemptFacts, BillingAssumption
<1>2. grant[g] # NoGrant => /\ grant[g] \in GrantRow /\ grant[g].resource <= Settled
                            /\ grant[g].resource \in Nat
  BY RowFacts, BillingAssumption DEF Authority, Sessions, TypeOK
<1>3. ASSUME NEW r \in Request, RecordIssued(r)
      PROVE  request[r].attempt <= Settled /\ request[r].attempt \in Nat
  BY <1>3, BillingAssumption DEF Authority, Working, WorkingRequest, RecordIssued, TypeOK, RequestState
<1>4. ASSUME NEW a \in Attempt, CompleteCheckout(a)
      PROVE  a <= Settled /\ a # 0 /\ a \in Nat
  BY <1>4 DEF CompleteCheckout, Placed, Authority, Attempts, Attempt
<1> QED
  BY <1>1, <1>2, <1>3, <1>4, RowFacts DEF GrantStep, StartsGrant, IssuesGrant, ReleasesGrant

\* The one session that is recorded and not out of time belongs to the one grant
\* that is engaged.
LEMMA RecordedNext ==
    ASSUME TypeOK, Placed, Authority, [Next]_vars,
           attempt'.status = "SESSION_CREATED", attempt'.id \notin elapsed',
           NEW g \in Grant, grant'[g].state \in Engaged, grant'[g].kind = "CHECKOUT"
    PROVE  by'[attempt'.id] = g
<1>1. AttemptStep /\ GrantStep(g)
  BY AttemptStepNext, GrantsNext
<1>2. CASE attempt' = attempt
  <2>1. attempt.id \notin elapsed /\ attempt.id \in Attempt /\ attempt.status = "SESSION_CREATED"
    BY <1>2, Grows, AttemptFacts
  <2>2. by'[attempt.id] = by[attempt.id]
    BY <2>1, Grows DEF Authority, Attempts
  <2>3. CASE grant[g].state \in Engaged
    <3>1. grant[g].kind = "CHECKOUT"
      BY <2>3, GrantKept, RowFacts DEF Engaged
    <3> QED
      BY <1>2, <2>1, <2>2, <2>3, <3>1 DEF Authority, Sessions
  <2>4. CASE grant[g].state \notin Engaged
    <3>1. PICK r \in Request : StartProvider(r) /\ Own(r) = g /\ grant[g].state = "CLAIMED"
      BY <1>1, <2>4, RowFacts DEF GrantStep, StartsGrant, IssuesGrant, ReleasesGrant, Engaged
    <3>2. grant[g].kind = "CHECKOUT"
      BY <3>1, GrantKept, RowFacts
    <3>3. request[r].at = "start" /\ request[r].attempt # 0
      BY <3>1, <3>2 DEF StartProvider, Placed, PlacedRequest, Own
    <3> QED
      BY <2>1, <3>1, <3>3 DEF Authority, Working, WorkingRequest, Own
  <2> QED
    BY <2>3, <2>4
<1>3. CASE RecordsSession
  <2>1. PICK r \in Request : Finalize(r) /\ request[r].attempt = attempt.id
    BY <1>3 DEF RecordsSession
  <2>2. /\ request[r].at = "creating" /\ by[attempt.id] = Own(r) /\ grant' = grant /\ by' = by
        /\ attempt.id # 0
    BY <1>3, <2>1, AttemptFacts DEF Finalize, Answered, stripe, RecordsSession, Attempt
  <2>3. grant[Own(r)].state = "PROVIDER_STARTED" /\ Own(r) \in Grant
    BY <2>1, <2>2, OwnGrant DEF Authority, Working, WorkingRequest, Own
  <2>4. g = Own(r)
    BY <2>2, <2>3 DEF Authority, OneOpenGrant, OpenGrants, Open, Engaged
  <2> QED
    BY <1>3, <2>2, <2>4 DEF RecordsSession
<1> QED
  BY <1>1, <1>2, <1>3 DEF AttemptStep, ReplacesAttempt, Completes

\* Sessions still belong to their grants.
LEMMA SessionsKept ==
    ASSUME TypeOK, Placed, Authority, [Next]_vars
    PROVE  Sessions'
<1>0. Sessions /\ TypeOK' /\ Placed'
  BY TypeNext, PlacedNext DEF Authority
<1>1. ASSUME NEW a \in Attempt, NEW b \in Attempt, by'[a] # 0, by'[a] = by'[b] PROVE a = b
  <2>1. SessionStep(a) /\ SessionStep(b)
    BY SessionsNext
  <2>2. CASE by'[a] = by[a] /\ by'[b] = by[b]
    BY <1>0, <1>1, <2>2 DEF Sessions
  <2>3. ASSUME NEW c \in Attempt, NEW d \in Attempt, c # d, by'[c] # by[c], by'[c] = by'[d]
        PROVE  FALSE
    <3>1. PICK m \in wire : m.attempt = c /\ m.grant = by'[c] /\ CreateCheckout(m)
      BY <2>3, SessionsNext DEF SessionStep
    <3>2. by'[d] = by[d]
      BY <2>3, <3>1 DEF CreateCheckout, TypeOK
    <3> QED
      BY <2>3, <3>1, <3>2 DEF Authority, Calls
  <2> QED
    BY <1>1, <2>2, <2>3
<1>2. ASSUME NEW g \in shown'
      PROVE  grant'[g] # NoGrant /\ (grant'[g].kind = "CHECKOUT" => grant'[g].resource # 0)
  <2>1. CASE g \in shown
    <3>1. g \in Grant /\ grant[g] # NoGrant /\ (grant[g].kind = "CHECKOUT" => grant[g].resource # 0)
      BY <1>0, <2>1 DEF Sessions, TypeOK
    <3>2. grant'[g] # NoGrant /\ grant'[g].kind = grant[g].kind
      BY <3>1, GrantKept
    <3> QED
      BY <3>1, <3>2, BoundNext
  <2>2. CASE g \notin shown
    <3>1. PICK r \in Request : ReturnCapability(r) /\ g \in shown'
      BY <2>2 DEF Next, MoveOwnership, JoinGrant, NewGrant, CheckoutStep, Crash, CreateCheckout,
           CreatePortal, CreateLost, Elapse, Pay, Cancel, CloseCheckout, ClosePortal,
           DeliverCompleted, LoseDelivery, CompleteCheckout, OperatorRelease, ReuseIssued,
           ResumeStarted, LegacyAttempt, ReconcileExpired, ListSubscriptions, ClaimAttempt,
           FailsEarly, GiveBack, StartProvider, Finalize, RecordIssued, vars
    <3>2. g = Own(r) /\ IssuedOrTerminal(grant[g], request[r].attempt) /\ grant' = grant
          /\ request[r].at = "check"
      BY <2>2, <3>1 DEF ReturnCapability, rows
    <3>3. grant[g] \in GrantRow /\ grant[g] # NoGrant
      BY <3>2, OwnGrant, RowFacts
    <3>4. grant[g].state = "RELEASED" /\ grant[g].reason = "TERMINAL" => grant[g].resource # 0
      BY <3>3 DEF GrantRow
    <3> QED
      BY <3>2, <3>3, <3>4, RowFacts DEF IssuedOrTerminal
  <2> QED
    BY <2>1, <2>2
<1>3. ASSUME NEW g \in Grant, portal'[g] = "open"
      PROVE  grant'[g].state \in Engaged /\ grant'[g].kind = "PORTAL"
  <2>1. CASE portal[g] = "open"
    <3>1. grant[g].state \in Engaged /\ grant[g].kind = "PORTAL" /\ grant[g] # NoGrant
      BY <1>0, <2>1, RowFacts DEF Sessions, Engaged
    <3>2. ~Spent(g)
      BY <2>1, <3>1 DEF Spent
    <3>3. ASSUME NEW a \in Attempt, by[a] = g PROVE FALSE
      <4>1. g # 0
        BY DEF Grant
      <4> QED
        BY <3>1, <3>3, <4>1, SessionGrant
    <3> QED
      BY <3>1, <3>2, <3>3, EngagedStays, GrantKept
  <2>2. CASE portal[g] # "open"
    <3>1. PICK m \in wire : m.grant = g /\ m.attempt = 0 /\ CreatePortal(m)
      BY <1>3, <2>2, PortalNext DEF PortalStep
    <3> QED
      BY <3>1 DEF CreatePortal, rows, Authority, Calls, Placed, PlacedCall, Engaged
  <2> QED
    BY <2>1, <2>2
<1> QED
  BY <1>1, <1>2, <1>3, UsableStays, ResourceNext, BoundNext, RecordedNext DEF Sessions

\* Only starting the provider sends a call.
LEMMA WireNext ==
    ASSUME [Next]_vars
    PROVE  \/ wire' \subseteq wire
           \/ \E r \in Request :
                /\ StartProvider(r) /\ grant[Own(r)].state = "CLAIMED"
                /\ wire' = wire \cup {[grant |-> Own(r), attempt |-> request[r].attempt]}
BY DEF Next, MoveOwnership, JoinGrant, NewGrant, CheckoutStep, Crash, Elapse, OperatorRelease,
       CreateCheckout, CreatePortal, CreateLost, Pay, Cancel, CloseCheckout, ClosePortal,
       DeliverCompleted, CompleteCheckout, LoseDelivery, ReuseIssued, ResumeStarted,
       LegacyAttempt, ReconcileExpired, ListSubscriptions, ClaimAttempt, FailsEarly, GiveBack,
       StartProvider, Finalize, RecordIssued, ReturnCapability, vars

\* A call that is still on its way stays the only trace of its grant.
LEMMA CallStays ==
    ASSUME TypeOK, Placed, Authority, [Next]_vars, NEW m \in wire, m \in wire'
    PROVE  /\ grant'[m.grant].state = "PROVIDER_STARTED"
           /\ portal'[m.grant] = "none"
           /\ m.attempt <= attempt'.id
           /\ \A a \in Attempt : by'[a] # m.grant
<1> DEFINE g == m.grant
<1>0. /\ Calls /\ g \in Grant /\ m.attempt \in Nat /\ g # 0
  BY BillingAssumption DEF Authority, TypeOK, Grant
<1>1. /\ grant[g].state = "PROVIDER_STARTED" /\ portal[g] = "none" /\ m.attempt <= attempt.id
      /\ \A a \in Attempt : by[a] # g
      /\ \A n \in wire : n.grant = g => n = m
  BY <1>0 DEF Calls
<1>2. grant[g] \in GrantRow /\ grant[g].resource = 0
  BY <1>0, <1>1, RowFacts DEF TypeOK
<1>3. grant'[g].state = "PROVIDER_STARTED"
  <2>1. GrantStep(g)
    BY <1>0, GrantsNext
  <2>2. ~Spent(g)
    BY <1>1, <1>2 DEF Spent, Quiesced
  <2>3. ASSUME NEW r \in Request, RecordIssued(r), Own(r) = g PROVE FALSE
    <3>1. request[r].attempt \in 0..MaxAttempts
      BY DEF TypeOK, RequestState
    <3>2. request[r].attempt = 0 \/ request[r].attempt \in Attempt
      BY <3>1, BillingAssumption DEF Attempt
    <3> QED
      BY <1>1, <2>3, <3>2 DEF RecordIssued, Own, Authority, Working, WorkingRequest
  <2> QED
    BY <1>1, <2>1, <2>2, <2>3, RowFacts DEF GrantStep, StartsGrant, IssuesGrant, ReleasesGrant, Engaged
<1>4. portal'[g] = "none"
  <2>1. ASSUME NEW n \in wire, n.grant = g, CreatePortal(n) PROVE FALSE
    BY <1>1, <2>1 DEF CreatePortal
  <2> QED
    BY <1>0, <1>1, <2>1, PortalNext DEF PortalStep
<1>5. m.attempt <= attempt'.id
  BY <1>0, <1>1, Grows, AttemptFacts, BillingAssumption
<1>6. ASSUME NEW a \in Attempt, by'[a] = g PROVE FALSE
  <2>1. PICK n \in wire : n.grant = g /\ CreateCheckout(n)
    BY <1>1, <1>6, SessionsNext DEF SessionStep
  <2> QED
    BY <1>1, <2>1 DEF CreateCheckout
<1> QED
  BY <1>3, <1>4, <1>5, <1>6

\* A request calls Stripe for a grant nothing was done with so far.
LEMMA CallLeaves ==
    ASSUME TypeOK, Placed, Authority, [Next]_vars, NEW r \in Request, StartProvider(r),
           grant[Own(r)].state = "CLAIMED"
    PROVE  /\ grant'[Own(r)].state = "PROVIDER_STARTED"
           /\ portal'[Own(r)] = "none"
           /\ request[r].attempt <= attempt'.id
           /\ \A a \in Attempt : by[a] # Own(r) /\ by'[a] # Own(r)
           /\ \A m \in wire : m.grant # Own(r)
<1>1. Own(r) \in Grant /\ request[r].at = "start"
  BY OwnGrant DEF StartProvider
<1>2. grant'[Own(r)].state = "PROVIDER_STARTED"
  BY StartEffect DEF Moves
<1>3. portal' = portal /\ by' = by /\ attempt' = attempt
  BY DEF StartProvider, stripe
<1>4. portal[Own(r)] = "none"
  BY <1>1 DEF Placed, Begun, Engaged
<1>5. \A a \in Attempt : by[a] # Own(r)
  BY <1>1 DEF Placed, PlacedSession, Begun, Engaged, Grant
<1>6. \A m \in wire : m.grant # Own(r)
  BY DEF Authority, Calls
<1> QED
  BY <1>2, <1>3, <1>4, <1>5, <1>6 DEF Authority, Working, WorkingRequest

\* Calls are still the only ones of their grants.
LEMMA CallsNext ==
    ASSUME TypeOK, Placed, Authority, [Next]_vars
    PROVE  Calls'
<1>1. CASE wire' \subseteq wire
  BY <1>1, CallStays DEF Authority, Calls
<1>2. ASSUME NEW r \in Request, StartProvider(r), grant[Own(r)].state = "CLAIMED",
             wire' = wire \cup {[grant |-> Own(r), attempt |-> request[r].attempt]}
      PROVE  Calls'
  <2> PICK n : n = [grant |-> Own(r), attempt |-> request[r].attempt]
    OBVIOUS
  <2>1. n.grant = Own(r) /\ n.attempt = request[r].attempt /\ wire' = wire \cup {n}
    BY <1>2
  <2>2. /\ grant'[n.grant].state = "PROVIDER_STARTED" /\ portal'[n.grant] = "none"
        /\ n.attempt <= attempt'.id
        /\ \A a \in Attempt : by'[a] # n.grant
        /\ \A m \in wire : m.grant # n.grant
    BY <1>2, <2>1, CallLeaves
  <2>3. \A m \in wire : /\ grant'[m.grant].state = "PROVIDER_STARTED" /\ portal'[m.grant] = "none"
                        /\ m.attempt <= attempt'.id
                        /\ \A a \in Attempt : by'[a] # m.grant
    BY <2>1, CallStays
  <2>4. \A k, m \in wire : k.grant = m.grant => k = m
    BY DEF Authority, Calls
  <2> QED
    BY <2>1, <2>2, <2>3, <2>4 DEF Calls
<1> QED
  BY <1>1, <1>2, WireNext

\* A request that does not move is still where it may be.
LEMMA StandingWork ==
    ASSUME TypeOK, Placed, Authority, [Next]_vars, NEW s \in Request, request'[s] = request[s]
    PROVE  WorkingRequest(s)'
<1> DEFINE q == request[s]
           g == q.grant
<1>0. /\ WorkingRequest(s) /\ q \in RequestState /\ q.attempt \in Nat /\ q.since \in Nat
      /\ attempt.id \in Nat /\ Settled \in Nat /\ PlacedRequest(s)
  BY AttemptFacts, BillingAssumption DEF Authority, Working, TypeOK, RequestState, Placed
<1>1. q.attempt <= attempt'.id /\ q.since <= Settled'
  BY <1>0, Grows DEF WorkingRequest
<1>2. q.attempt \notin elapsed'
  <2>1. ASSUME Elapse PROVE q.attempt \notin elapsed'
    <3>1. CASE request[s] = Idle
      BY <2>1, <3>1, IdleRequest DEF Elapse, TypeOK, Attempt
    <3>2. CASE request[s] # Idle
      BY <1>0, <2>1, <3>2 DEF Elapse, WorkingRequest
    <3> QED
      BY <3>1, <3>2
  <2> QED
    BY <1>0, <2>1, ElapsedNext DEF WorkingRequest
<1>3. q.at # "idle" => /\ g \in Grant /\ grant[g] \in GrantRow /\ grant[g] # NoGrant
                       /\ GrantStep(g) /\ grant'[g] # NoGrant
  BY OwnGrant, GrantsNext, GrantKept, RowFacts DEF Own
<1>4. q.attempt # 0 => q.attempt \in Attempt
  BY <1>0, BillingAssumption DEF RequestState, Attempt
<1>5. q.at = "record" =>
        /\ q.attempt <= Settled'
        /\ q.attempt = 0 => portal'[g] # "none"
        /\ q.attempt # 0 /\ grant'[g].state = "PROVIDER_STARTED" => by'[q.attempt] = g
  <2> SUFFICES ASSUME q.at = "record"
               PROVE  /\ q.attempt <= Settled'
                      /\ q.attempt = 0 => portal'[g] # "none"
                      /\ q.attempt # 0 /\ grant'[g].state = "PROVIDER_STARTED" => by'[q.attempt] = g
    OBVIOUS
  <2>1. q.attempt <= Settled'
    BY <1>0, Grows DEF WorkingRequest
  <2>2. q.attempt = 0 => portal'[g] # "none"
    BY <1>0, <1>3, PortalNext DEF WorkingRequest, PortalStep
  <2>3. ASSUME q.attempt # 0, grant'[g].state = "PROVIDER_STARTED" PROVE by'[q.attempt] = g
    <3>1. grant[g].state # "CLAIMED"
      BY <1>0 DEF PlacedRequest
    <3>2. grant[g].state = "PROVIDER_STARTED"
      BY <1>3, <2>3, <3>1 DEF GrantStep, StartsGrant, IssuesGrant, ReleasesGrant
    <3>3. by[q.attempt] = g /\ g # 0
      BY <1>0, <1>3, <2>3, <3>2 DEF WorkingRequest, Grant
    <3> QED
      BY <1>4, <2>3, <3>3, Grows DEF Placed, PlacedSession
  <2> QED
    BY <2>1, <2>2, <2>3
<1>6. ASSUME attempt.id = q.attempt, q.attempt # 0, attempt.status = "PENDING",
             ~RecordsSession
      PROVE  attempt'.id = q.attempt /\ attempt'.status = "PENDING"
  <2>1. Pending
    BY <1>0, <1>6 DEF Pending, WorkingRequest
  <2>2. attempt.id \notin hooks
    <3>1. Settled = attempt.id - 1
      BY <1>6, AttemptFacts
    <3> QED
      BY <1>0, <1>4, <1>6, <3>1 DEF Placed, Authority, Attempts
  <2> QED
    BY <1>6, <2>1, <2>2, AttemptStepNext DEF AttemptStep, ReplacesAttempt, Completes
<1>7. ASSUME q.at = "start", q.attempt # 0, grant'[g].state = "CLAIMED"
      PROVE  attempt'.id = q.attempt /\ attempt'.status = "PENDING"
  <2>1. grant[g].state = "CLAIMED"
    BY <1>3, <1>7 DEF GrantStep, StartsGrant, IssuesGrant, ReleasesGrant
  <2>2. attempt.id = q.attempt /\ attempt.status = "PENDING"
    BY <1>0, <1>7, <2>1 DEF WorkingRequest
  <2>3. ASSUME NEW r \in Request, Finalize(r), request[r].attempt = attempt.id PROVE FALSE
    <3>1. request[r].at = "creating" /\ request[r].attempt # 0
      BY <1>7, <2>2, <2>3 DEF Finalize
    <3>2. grant[Own(r)].state = "PROVIDER_STARTED" /\ Own(r) \in Grant
      BY <3>1, OwnGrant DEF Authority, Working, WorkingRequest, Own
    <3> QED
      BY <1>3, <1>7, <2>1, <3>2 DEF Authority, OneOpenGrant, OpenGrants, Open
  <2> QED
    BY <1>6, <1>7, <2>2, <2>3 DEF RecordsSession
<1>8. ASSUME q.at = "creating", q.attempt # 0
      PROVE  /\ grant'[g].state = "PROVIDER_STARTED"
             /\ attempt'.id = q.attempt /\ attempt'.status = "PENDING"
             /\ \A a \in Attempt : by'[a] = g => a = q.attempt
             /\ \A m \in wire' : m.grant = g => m.attempt = q.attempt
  <2>1. /\ grant[g].state = "PROVIDER_STARTED"
        /\ attempt.id = q.attempt /\ attempt.status = "PENDING"
        /\ \A a \in Attempt : by[a] = g => a = q.attempt
        /\ \A m \in wire : m.grant = g => m.attempt = q.attempt
    BY <1>0, <1>8 DEF WorkingRequest
  <2>2. Settled = attempt.id - 1
    BY <2>1, AttemptFacts
  <2>3. grant'[g].state = "PROVIDER_STARTED"
    <3>1. ASSUME NEW r \in Request, RecordIssued(r), Own(r) = g PROVE FALSE
      <4>1. request[r].at = "record" /\ request[r].attempt \in 0..MaxAttempts
        BY <3>1 DEF RecordIssued, TypeOK, RequestState
      <4>2. grant[g].kind = "CHECKOUT"
        BY <1>0, <1>3, <1>8, RowFacts DEF PlacedRequest, Kind
      <4>3. request[r].attempt # 0 /\ request[r].attempt \in Attempt
        BY <3>1, <4>1, <4>2, BillingAssumption DEF Placed, PlacedRequest, Own, Attempt
      <4>4. by[request[r].attempt] = g /\ request[r].attempt <= Settled
        BY <2>1, <3>1, <4>1, <4>3 DEF Authority, Working, WorkingRequest, Own
      <4>5. request[r].attempt = q.attempt
        BY <2>1, <4>3, <4>4
      <4> QED
        BY <1>0, <2>1, <2>2, <4>4, <4>5
    <3>2. grant[g].resource = 0
      BY <1>3, <1>8, <2>1, RowFacts
    <3>3. ~Spent(g)
      BY <1>3, <1>8, <2>1, <3>2 DEF Spent, Quiesced, Own
    <3>4. ASSUME NEW a \in Attempt, CompleteCheckout(a), by[a] = g PROVE FALSE
      <4>1. a = q.attempt /\ checkout[a] = "complete"
        BY <2>1, <3>4 DEF CompleteCheckout, Placed
      <4> QED
        BY <1>0, <2>1, <2>2, <4>1 DEF Authority, Attempts
    <3> QED
      BY <1>3, <1>8, <2>1, <3>1, <3>3, <3>4, RowFacts
         DEF GrantStep, StartsGrant, IssuesGrant, ReleasesGrant
  <2>4. ~RecordsSession
    <3>1. ASSUME NEW r \in Request, Finalize(r), request[r].attempt = attempt.id PROVE FALSE
      <4>1. request[r].at = "creating" /\ request[r].attempt # 0
        BY <1>8, <2>1, <3>1 DEF Finalize
      <4>2. r = s
        BY <1>8, <4>1 DEF Authority, Working
      <4>3. request'[r].at # "creating"
        BY <3>1, GoesEffect, EndsEffect, IdleRequest DEF Finalize, Step
      <4> QED
        BY <4>1, <4>2, <4>3
    <3> QED
      BY <3>1 DEF RecordsSession
  <2>5. ASSUME NEW a \in Attempt, by'[a] = g PROVE a = q.attempt
    <3>1. by[a] = g \/ \E m \in wire : m.attempt = a /\ m.grant = g
      BY <2>5, SessionsNext DEF SessionStep
    <3> QED
      BY <2>1, <3>1
  <2>6. ASSUME NEW m \in wire', m.grant = g PROVE m.attempt = q.attempt
    <3>1. m \in wire \/ \E r \in Request : /\ grant[Own(r)].state = "CLAIMED"
                                           /\ m = [grant |-> Own(r), attempt |-> request[r].attempt]
      BY WireNext
    <3>2. m \in wire
      BY <2>1, <2>6, <3>1
    <3> QED
      BY <2>1, <2>6, <3>2
  <2> QED
    BY <1>6, <1>8, <2>1, <2>3, <2>4, <2>5, <2>6
<1> QED
  BY <1>1, <1>2, <1>5, <1>7, <1>8 DEF WorkingRequest

\* A request that claims an attempt claims the one that is pending.
LEMMA ClaimEffect ==
    ASSUME TypeOK, Placed, Authority, [Next]_vars, NEW r \in Request, ClaimAttempt(r),
           request'[r].at = "start"
    PROVE  /\ attempt'.id \notin elapsed /\ attempt'.status = "PENDING"
           /\ local' = local
<1>1. ~(Pending /\ attempt.status = "SESSION_CREATED")
      /\ ~(local # 0 /\ local \notin request[r].terminal)
  BY GoesEffect DEF ClaimAttempt, Step
<1>2. attempt' = IF Pending THEN attempt
                 ELSE [id |-> attempt.id + 1, status |-> "PENDING", previous |-> local]
  BY <1>1 DEF ClaimAttempt
<1>3. CASE Pending
  BY <1>1, <1>2, <1>3, AttemptFacts DEF Pending, ClaimAttempt
<1>4. CASE ~Pending
  <2>1. attempt.id \in Nat /\ elapsed \subseteq Attempt
    BY AttemptFacts, BillingAssumption DEF TypeOK
  <2>2. attempt.id + 1 \notin elapsed
    BY <2>1 DEF Authority, Attempts, Attempt
  <2> QED
    BY <1>2, <1>4, <2>2 DEF ClaimAttempt
<1> QED
  BY <1>3, <1>4

\* A request that takes a step keeps to its lease and to the pending attempt.
LEMMA OwnWork ==
    ASSUME TypeOK, Placed, Authority, [Next]_vars, NEW r \in Request,
           CheckoutStep(r) \/ Crash(r)
    PROVE  WorkingRequest(r)'
<1> DEFINE p == request[r]
           q == request'[r]
           g == p.grant
<1>0. /\ OwnStep(r) /\ WorkingRequest(r) /\ PlacedRequest(r) /\ elapsed' = elapsed
      /\ p.attempt \in Nat /\ p.since \in Nat /\ attempt.id \in Nat /\ Settled \in Nat
      /\ p.attempt \in 0..MaxAttempts
  <2>1. elapsed' = elapsed
    BY DEF CheckoutStep, Crash, ReuseIssued, ResumeStarted, LegacyAttempt, ReconcileExpired,
           ListSubscriptions, ClaimAttempt, FailsEarly, GiveBack, StartProvider, Finalize,
           RecordIssued, ReturnCapability
  <2> QED
    BY <2>1, CheckoutEffect, AttemptFacts, BillingAssumption
       DEF Authority, Working, Placed, TypeOK, RequestState
<1>1. CASE q = Idle
  <2>1. 0 \notin elapsed' /\ 0 <= attempt'.id /\ 0 <= Settled'
    BY <1>0, Grows DEF TypeOK, Attempt
  <2> QED
    BY <1>1, <2>1, IdleRequest DEF WorkingRequest
<1>2. CASE q # Idle
  <2>1. q.grant = g /\ q.since = p.since /\ p.at # "idle"
    BY <1>0, <1>2 DEF OwnStep
  <2>2. g \in Grant /\ grant[g] \in GrantRow /\ g # 0 /\ Own(r) = g
    BY <2>1, OwnGrant DEF Grant
  <2>3. q.since <= Settled'
    BY <1>0, <2>1, Grows DEF WorkingRequest
  <2>4. /\ p.attempt <= attempt'.id /\ p.attempt \notin elapsed'
        /\ attempt.status = "SESSION_CREATED" => attempt.id <= Settled'
    BY <1>0, Grows, AttemptFacts DEF WorkingRequest
  <2>5. CASE /\ p.at \in {"issued", "started"} /\ q.attempt = attempt.id
             /\ attempt.status = "SESSION_CREATED" /\ Pending
             /\ q.at \in {"check", "record"} /\ (q.at = "record" => p.at = "started")
    <3>1. q.attempt \notin elapsed' /\ q.attempt <= attempt'.id /\ q.attempt <= Settled'
          /\ q.attempt \in Attempt /\ q.attempt # 0
      BY <1>0, <2>4, <2>5, Grows, AttemptFacts DEF Pending, Attempt
    <3>2. ASSUME q.at = "record", grant'[g].state = "PROVIDER_STARTED" PROVE by'[q.attempt] = g
      <4>1. grant[g].kind = "CHECKOUT" /\ grant[g].state # "CLAIMED" /\ grant[g] # NoGrant
        BY <1>0, <2>2, <2>5, <3>2, RowFacts DEF PlacedRequest, Kind
      <4>2. grant[g].state = "PROVIDER_STARTED"
        BY <2>2, <3>2, <4>1, GrantsNext DEF GrantStep, StartsGrant, IssuesGrant, ReleasesGrant
      <4>3. by[q.attempt] = g
        BY <2>2, <2>5, <4>1, <4>2 DEF Authority, Sessions, Engaged, Pending
      <4> QED
        BY <2>2, <3>1, <4>3, Grows DEF Placed, PlacedSession
    <3> QED
      BY <2>1, <2>3, <2>5, <3>1, <3>2 DEF WorkingRequest
  <2>6. CASE p.at = "attempt" /\ q.at = "start" /\ q.attempt = attempt'.id /\ ClaimAttempt(r)
    <3>1. attempt'.id \notin elapsed' /\ attempt'.status = "PENDING"
      BY <1>0, <2>6, ClaimEffect
    <3> QED
      BY <2>1, <2>3, <2>6, <3>1, Grows DEF WorkingRequest
  <2>7. CASE p.at = "start" /\ q.at = "creating" /\ q.attempt = p.attempt /\ StartProvider(r)
             /\ grant[g].state = "CLAIMED"
    <3>1. /\ grant'[g].state = "PROVIDER_STARTED" /\ attempt' = attempt
          /\ \A a \in Attempt : by'[a] # g
          /\ \A m \in wire : m.grant # g
          /\ wire' = wire \cup {[grant |-> g, attempt |-> p.attempt]}
      BY <2>2, <2>7, CallLeaves DEF StartProvider
    <3>2. p.attempt # 0 => attempt.id = p.attempt /\ attempt.status = "PENDING"
      BY <1>0, <2>7 DEF WorkingRequest
    <3>3. \A m \in wire' : m.grant = g => m.attempt = p.attempt
      BY <3>1
    <3> QED
      BY <2>1, <2>3, <2>4, <2>7, <3>1, <3>2, <3>3 DEF WorkingRequest
  <2>8. CASE p.at = "creating" /\ q.at = "record" /\ q.attempt = p.attempt /\ Finalize(r)
             /\ (p.attempt = 0 \/ attempt.id = p.attempt)
    <3>1. p.attempt = 0 => portal'[g] # "none"
      BY <2>2, <2>8 DEF Finalize, Answered, stripe
    <3>2. p.attempt # 0 => by'[p.attempt] = g
      BY <2>2, <2>8 DEF Finalize, Answered, stripe
    <3>3. p.attempt # 0 => attempt.id = p.attempt /\ attempt.status = "PENDING"
      BY <1>0, <2>8 DEF WorkingRequest
    <3>4. p.attempt <= Settled'
      <4>1. CASE p.attempt = 0
        BY <4>1, Grows
      <4>2. CASE p.attempt # 0
        <5>1. attempt' = [attempt EXCEPT !.status = "SESSION_CREATED"]
          BY <2>8, <3>3, <4>2 DEF Finalize
        <5>2. attempt'.status = "SESSION_CREATED" /\ attempt'.id = attempt.id
          BY <3>3, <4>2, <5>1, AttemptFacts DEF AttemptRow
        <5> QED
          BY <1>0, <3>3, <4>2, <5>2, Grows
      <4> QED
        BY <4>1, <4>2
    <3> QED
      BY <2>1, <2>3, <2>4, <2>8, <3>1, <3>2, <3>4 DEF WorkingRequest
  <2>9. CASE q.attempt = p.attempt /\ q.at \in {"reconcile", "list", "attempt", "failing", "check"}
    BY <2>1, <2>3, <2>4, <2>9 DEF WorkingRequest
  <2> QED
    BY <1>0, <1>2, <2>5, <2>6, <2>7, <2>8, <2>9 DEF OwnStep
<1> QED
  BY <1>1, <1>2

\* A request that starts has no attempt yet.
LEMMA BeginWork ==
    ASSUME TypeOK, Placed, Authority, [Next]_vars, NEW r \in Request, NEW k \in Kind,
           JoinGrant(r, k) \/ NewGrant(r, k)
    PROVE  WorkingRequest(r)' /\ request'[r].attempt = 0
           /\ \A s \in Request : s # r => request'[s] = request[s]
<1>1. /\ request'[r].attempt = 0 /\ request'[r].since = Settled
      /\ request'[r].at \in {"start", "issued", "started", "reconcile", "legacy"}
      /\ \A s \in Request : s # r => request'[s] = request[s]
  <2>1. CASE JoinGrant(r, k)
    <3>1. /\ request'[r].attempt = 0 /\ request'[r].since = Settled
          /\ \A s \in Request : s # r => request'[s] = request[s]
      BY <2>1, JoinEffect
    <3>2. request'[r].at \in {"start", "issued", "started", "reconcile", "legacy"}
      BY <2>1, JoinEffect
    <3> QED
      BY <3>1, <3>2
  <2>2. CASE NewGrant(r, k)
    BY <2>2, NewRequest
  <2> QED
    BY <2>1, <2>2
<1>2. 0 \notin elapsed'
  BY TypeNext DEF TypeOK, Attempt
<1>3. Settled <= Settled' /\ 0 <= attempt'.id
  BY Grows
<1> QED
  BY <1>1, <1>2, <1>3 DEF WorkingRequest

\* Requests still work on what is pending.
LEMMA WorkingNext ==
    ASSUME TypeOK, Placed, Authority, [Next]_vars
    PROVE  Working'
<1>1. ASSUME NEW r \in Request, CheckoutStep(r) \/ Crash(r) PROVE Working'
  <2>1. OwnStep(r) /\ \A s \in Request : s # r => request'[s] = request[s]
    BY <1>1, CheckoutEffect DEF OwnStep
  <2>2. \A s \in Request : WorkingRequest(s)'
    BY <1>1, <2>1, OwnWork, StandingWork
  <2>3. ASSUME NEW s \in Request, s # r,
               request[s].at = "creating", request[s].attempt # 0,
               request'[r].at = "creating", request'[r].attempt # 0
        PROVE  FALSE
    <3>1. StartProvider(r) /\ grant[Own(r)].state = "CLAIMED"
      BY <2>1, <2>3, IdleRequest DEF OwnStep, Own
    <3>2. Own(r) \in Grant
      BY <2>1, OwnGrant DEF OwnStep
    <3>3. grant[Own(s)].state = "PROVIDER_STARTED" /\ Own(s) \in Grant
      BY <2>3, OwnGrant DEF Authority, Working, WorkingRequest, Own
    <3> QED
      BY <3>1, <3>2, <3>3 DEF Authority, OneOpenGrant, OpenGrants, Open
  <2>4. \A s, t \in Request :
          /\ request'[s].at = "creating" /\ request'[s].attempt # 0
          /\ request'[t].at = "creating" /\ request'[t].attempt # 0
          => s = t
    BY <2>1, <2>3 DEF Authority, Working
  <2> QED
    BY <2>2, <2>4 DEF Working
<1>2. ASSUME NEW r \in Request, NEW k \in Kind, JoinGrant(r, k) \/ NewGrant(r, k) PROVE Working'
  <2>1. /\ WorkingRequest(r)' /\ request'[r].attempt = 0
        /\ \A s \in Request : s # r => request'[s] = request[s]
    BY <1>2, BeginWork
  <2>2. \A s \in Request : WorkingRequest(s)'
    BY <2>1, StandingWork
  <2> QED
    BY <2>1, <2>2 DEF Authority, Working
<1>3. ASSUME request' = request PROVE Working'
  <2>1. \A s \in Request : WorkingRequest(s)'
    BY <1>3, StandingWork
  <2> QED
    BY <1>3, <2>1 DEF Authority, Working
<1> QED
  BY <1>1, <1>2, <1>3
     DEF Next, MoveOwnership, CreateCheckout, CreatePortal, CreateLost, Elapse, Pay, Cancel,
         CloseCheckout, ClosePortal, DeliverCompleted, CompleteCheckout, LoseDelivery,
         OperatorRelease, vars

\* Nothing is open at the start.
LEMMA AuthorityInit == Init => Authority
<1> SUFFICES ASSUME Init PROVE Authority
  OBVIOUS
<1>1. MaxAttempts \in Nat /\ MaxGrants \in Nat
  BY BillingAssumption
<1>2. attempt.id = 0 /\ attempt.status = "COMPLETED" /\ Settled = 0
  BY DEF Init, NoAttempt, Settled
<1>3. \A g \in Grant : grant[g] = NoGrant /\ grant[g].state = "none"
  BY RowFacts DEF Init
<1>4. OneOpenGrant
  BY <1>3 DEF OneOpenGrant, OpenGrants, Open
<1>5. Attempts
  BY <1>1, <1>2 DEF Init, Attempts, Attempt
<1>6. Sessions
  BY <1>2, <1>3 DEF Init, Sessions, Usable
<1>7. Calls
  BY DEF Init, Calls
<1>8. Working
  BY <1>2, IdleRequest DEF Init, Working, WorkingRequest
<1> QED
  BY <1>4, <1>5, <1>6, <1>7, <1>8 DEF Authority

\* The authority invariant holds in every reachable state.
THEOREM AuthorityHolds == Spec => []Authority
<1>1. TypeOK /\ Placed /\ Authority /\ [Next]_vars => Authority'
  BY OneOpenNext, AttemptsNext, SessionsKept, CallsNext, WorkingNext DEF Authority
<1> QED
  BY <1>1, AuthorityInit, TypeCorrect, PTL DEF Spec

\* While a browser holds a session that takes payments or an open portal, the
\* member it was issued to owns the organisation, whatever transfers, retries and
\* releases are under way.
THEOREM CapabilitiesKeepOwner == Spec => []CapabilityKeepsOwner
<1>1. ASSUME TypeOK, Placed, Authority PROVE CapabilityKeepsOwner
  <2>1. ASSUME NEW a \in Attempt, Payable(a) PROVE grant[by[a]].actor = owner
    <3>1. Usable(a) /\ by[a] # 0
      BY <1>1, <2>1, PaidWasRecorded
    <3>2. by[a] \in OpenGrants
      BY <1>1, <3>1, SessionGrant DEF Authority, Sessions, OpenGrants, Open, Engaged
    <3> QED
      BY <1>1, <3>2 DEF Authority, OneOpenGrant
  <2>2. ASSUME NEW g \in shown, portal[g] = "open" PROVE grant[g].actor = owner
    <3>1. g \in OpenGrants
      BY <1>1, <2>2 DEF TypeOK, Authority, Sessions, OpenGrants, Open, Engaged
    <3> QED
      BY <1>1, <3>1 DEF Authority, OneOpenGrant
  <2> QED
    BY <2>1, <2>2 DEF CapabilityKeepsOwner
<1>2. TypeOK /\ Placed /\ Authority => CapabilityKeepsOwner
  BY <1>1
<1> QED
  BY <1>2, TypeCorrect, AuthorityHolds, PTL

-----------------------------------------------------------------------------
(* One subscription, and it is known *)

\* A payment is the only way to a live subscription.
LEMMA SubscriptionNext ==
    ASSUME TypeOK, [Next]_vars
    PROVE  /\ \A a \in Attempt : sub'[a] = "live" => sub[a] = "live" \/ Pay(a)
           /\ NoneLive => NoneLive' \/ \E a \in Attempt : Pay(a)
<1>1. ASSUME NEW a \in Attempt, Pay(a)
      PROVE  \A b \in Attempt : sub'[b] = "live" => sub[b] = "live" \/ Pay(b)
  BY <1>1 DEF Pay, TypeOK
<1>2. ASSUME NEW a \in Attempt, Cancel(a)
      PROVE  \A b \in Attempt : sub'[b] = "live" => sub[b] = "live"
  BY <1>2 DEF Cancel, TypeOK
<1>3. (\E a \in Attempt : Pay(a) \/ Cancel(a)) \/ sub' = sub
  BY DEF Next, MoveOwnership, JoinGrant, NewGrant, CheckoutStep, Crash, CreateCheckout, CreatePortal,
         CreateLost, Elapse, CloseCheckout, ClosePortal, DeliverCompleted, LoseDelivery,
         CompleteCheckout, OperatorRelease, ReuseIssued, ResumeStarted, LegacyAttempt,
         ReconcileExpired, ListSubscriptions, ClaimAttempt, FailsEarly, GiveBack, StartProvider,
         Finalize, RecordIssued, ReturnCapability, stripe, vars
<1> QED
  BY <1>1, <1>2, <1>3 DEF NoneLive

\* A session that can be paid is of the current attempt and the only one; nothing
\* else is under way for the organisation.
LEMMA UsableAlone ==
    ASSUME TypeOK, Placed, Authority, NEW a \in Attempt, Usable(a)
    PROVE  /\ by[a] \in OpenGrants /\ grant[by[a]].state \in Engaged
           /\ grant[by[a]].kind = "CHECKOUT"
           /\ a = attempt.id /\ attempt.status # "COMPLETED"
           /\ wire = {}
           /\ \A b \in Attempt : Usable(b) => b = a
           /\ \A g \in Grant : grant[g].state # "CLAIMED"
<1>1. \A b \in Attempt : Usable(b) =>
        /\ by[b] # 0 /\ by[b] \in OpenGrants /\ grant[by[b]].state \in Engaged
        /\ grant[by[b]].kind = "CHECKOUT"
  <2> TAKE b \in Attempt
  <2> HAVE Usable(b)
  <2>1. by[b] # 0
    BY DEF Usable, Placed, PlacedSession
  <2> QED
    BY <2>1, SessionGrant DEF Authority, Sessions, OpenGrants, Open, Engaged
<1>2. a = attempt.id /\ attempt.status # "COMPLETED"
  <2>1. attempt.id \in Nat
    BY AttemptFacts, BillingAssumption
  <2>2. ~(a < attempt.id) /\ a <= attempt.id
    BY DEF Usable, Authority, Attempts
  <2> QED
    BY <2>1, <2>2 DEF Usable, Authority, Attempts, Attempt
<1>3. ASSUME NEW m \in wire PROVE FALSE
  <2>1. m.grant \in OpenGrants /\ m.grant # by[a]
    BY DEF TypeOK, Authority, Calls, OpenGrants, Open
  <2> QED
    BY <1>1, <2>1 DEF Authority, OneOpenGrant
<1>4. ASSUME NEW b \in Attempt, Usable(b) PROVE b = a
  BY <1>1, <1>4 DEF Authority, OneOpenGrant, Sessions
<1>5. ASSUME NEW g \in Grant, grant[g].state = "CLAIMED" PROVE FALSE
  BY <1>1, <1>5 DEF Authority, OneOpenGrant, OpenGrants, Open, Engaged
<1> QED
  BY <1>1, <1>2, <1>3, <1>4, <1>5

\* A session is created for an attempt that was not recorded yet, when no
\* subscription is live.
LEMMA CreatedIsNew ==
    ASSUME TypeOK, Placed, Authority, Payments, [Next]_vars, NEW a \in Attempt,
           Usable(a)', ~Usable(a)
    PROVE  Settled < a /\ NoneLive /\ NoneLive'
<1>1. PICK m \in wire : m.attempt = a /\ CreateCheckout(m) /\ checkout[a] = "none" /\ a \notin elapsed
  BY SessionsNext, Grows DEF Usable, SessionStep
<1>2. NoneLive /\ sub' = sub
  BY <1>1 DEF Payments, Attempt, CreateCheckout
<1>3. Settled < a
  <2>1. attempt.id \in Nat /\ Settled \in Nat
    BY AttemptFacts, BillingAssumption
  <2>2. ~(a < attempt.id)
    BY <1>1 DEF Authority, Attempts
  <2>3. a = attempt.id => attempt.status = "PENDING"
    BY <1>1, AttemptFacts DEF Authority, Attempts, Attempt
  <2> QED
    BY <2>1, <2>2, <2>3, AttemptFacts DEF Attempt
<1> QED
  BY <1>2, <1>3 DEF NoneLive

\* A lease that has run out on a recorded session: every request knew of it.
LEMMA ElapsedKnown ==
    ASSUME TypeOK, Placed, Authority, Payments, [Next]_vars, NEW s \in Request,
           request[s].at # "idle", request'[s].at # "idle", request'[s].since = request[s].since,
           attempt'.status = "SESSION_CREATED", attempt'.id \in elapsed'
    PROVE  attempt'.id <= request'[s].since
<1>1. ~RecordsSession
  <2>1. ASSUME NEW r \in Request, Finalize(r), request[r].attempt = attempt.id,
               attempt'.id = attempt.id
        PROVE  FALSE
    <3>1. elapsed' = elapsed /\ attempt.id \notin elapsed
      BY <2>1 DEF Finalize, Authority, Working, WorkingRequest
    <3> QED
      BY <2>1, <3>1
  <2> QED
    BY <2>1 DEF RecordsSession
<1>2. attempt' = attempt
  BY <1>1, AttemptStepNext DEF AttemptStep, ReplacesAttempt, Completes
<1>3. CASE attempt.id \in elapsed
  BY <1>2, <1>3 DEF Payments, PreparingRequest
<1>4. CASE attempt.id \notin elapsed
  <2>1. Elapse
    BY <1>2, <1>4, ElapsedNext
  <2>2. request[s] # Idle
    BY IdleRequest
  <2>3. attempt.status # "PENDING" => request[s].since >= attempt.id
    BY <2>1, <2>2 DEF Elapse
  <2>4. attempt.id \in Nat /\ request[s].since \in Nat
    BY AttemptFacts, BillingAssumption DEF TypeOK, RequestState
  <2> QED
    BY <1>2, <2>3, <2>4
<1> QED
  BY <1>3, <1>4

\* A request that does not move is still prepared.
LEMMA StandingPrepared ==
    ASSUME TypeOK, Placed, Authority, Payments, [Next]_vars, NEW s \in Request,
           request'[s] = request[s]
    PROVE  PreparingRequest(s)'
<1> DEFINE q == request[s]
           g == q.grant
<1>0. /\ PreparingRequest(s) /\ WorkingRequest(s) /\ q.since \in Nat /\ Settled \in Nat
      /\ q.since <= Settled
  BY AttemptFacts, BillingAssumption
     DEF Payments, Authority, Working, WorkingRequest, TypeOK, RequestState
<1>1. ASSUME q.at \in BeforeStart, NEW a \in Attempt, Usable(a)' PROVE q.since < a
  <2>1. CASE Usable(a)
    BY <1>0, <1>1, <2>1 DEF PreparingRequest
  <2>2. CASE ~Usable(a)
    BY <1>0, <1>1, <2>2, CreatedIsNew DEF Attempt
  <2> QED
    BY <2>1, <2>2
<1>2. ASSUME q.at = "attempt", NEW a \in Attempt, sub'[a] = "live" PROVE q.since < a
  <2>1. sub[a] = "live" \/ Usable(a)
    BY <1>2, SubscriptionNext, PaidWasRecorded DEF Pay
  <2> QED
    BY <1>0, <1>2, <2>1 DEF PreparingRequest, BeforeStart
<1>3. ASSUME q.at = "attempt" \/ (q.at = "start" /\ q.attempt # 0), grant'[g].state = "CLAIMED"
      PROVE  NoneLive'
  <2>1. g \in Grant /\ grant[g].state = "CLAIMED"
    <3>1. g \in Grant /\ grant[g] # NoGrant /\ grant[g] \in GrantRow
      BY <1>3, OwnGrant, RowFacts DEF Own
    <3> QED
      BY <1>3, <3>1, GrantsNext DEF GrantStep, StartsGrant, IssuesGrant, ReleasesGrant
  <2>2. NoneLive
    BY <1>0, <1>3, <2>1 DEF PreparingRequest
  <2>3. ASSUME NEW a \in Attempt, Pay(a) PROVE FALSE
    BY <2>1, <2>3, PaidWasRecorded, UsableAlone DEF Pay
  <2> QED
    BY <2>2, <2>3, SubscriptionNext
<1> QED
  BY <1>1, <1>2, <1>3, ElapsedKnown DEF PreparingRequest

\* A request that takes a step stays prepared: it listed the subscriptions before
\* it claimed the attempt.
LEMMA OwnPrepared ==
    ASSUME TypeOK, Placed, Authority, Payments, [Next]_vars, NEW r \in Request,
           CheckoutStep(r) \/ Crash(r)
    PROVE  PreparingRequest(r)'
<1> DEFINE p == request[r]
           q == request'[r]
           g == p.grant
<1>0. /\ OwnStep(r) /\ PreparingRequest(r) /\ sub' = sub
      /\ p.since \in Nat /\ Settled \in Nat /\ p.since <= Settled
  <2>1. sub' = sub
    BY DEF CheckoutStep, Crash, ReuseIssued, ResumeStarted, LegacyAttempt, ReconcileExpired,
           ListSubscriptions, ClaimAttempt, FailsEarly, GiveBack, StartProvider, Finalize,
           RecordIssued, ReturnCapability, stripe
  <2> QED
    BY <2>1, CheckoutEffect, AttemptFacts, BillingAssumption
       DEF Payments, Authority, Working, WorkingRequest, TypeOK, RequestState
<1>1. CASE q = Idle
  BY <1>1, IdleRequest DEF PreparingRequest, BeforeStart
<1>2. CASE q # Idle
  <2>1. q.grant = g /\ q.since = p.since /\ p.at # "idle"
    BY <1>0, <1>2 DEF OwnStep
  <2>2. ASSUME q.at \in BeforeStart, NEW a \in Attempt, Usable(a)' PROVE q.since < a
    <3>1. p.at \in BeforeStart
      BY <1>0, <1>2, <2>2 DEF OwnStep, BeforeStart
    <3>2. CASE Usable(a)
      BY <1>0, <2>1, <3>1, <3>2 DEF PreparingRequest
    <3>3. CASE ~Usable(a)
      BY <1>0, <2>1, <2>2, <3>3, CreatedIsNew DEF Attempt
    <3> QED
      BY <3>2, <3>3
  <2>3. q.at = "attempt" => NoneLive'
    BY <1>0, <1>2 DEF OwnStep, NoneLive
  <2>4. ASSUME q.at = "start", grant'[g].state = "CLAIMED" PROVE NoneLive'
    <3>1. p.at = "attempt"
      BY <1>0, <1>2, <2>4 DEF OwnStep
    <3>2. g \in Grant /\ grant[g] # NoGrant /\ grant[g] \in GrantRow
      BY <2>1, OwnGrant, RowFacts DEF Own
    <3>3. grant[g].state = "CLAIMED"
      BY <2>4, <3>2, GrantsNext DEF GrantStep, StartsGrant, IssuesGrant, ReleasesGrant
    <3> QED
      BY <1>0, <3>1, <3>3 DEF PreparingRequest, NoneLive
  <2>5. q.at = "attempt" => \A a \in Attempt : sub'[a] = "live" => q.since < a
    BY <2>3 DEF NoneLive
  <2> QED
    BY <2>1, <2>2, <2>3, <2>4, <2>5, ElapsedKnown DEF PreparingRequest
<1> QED
  BY <1>1, <1>2

\* A request that starts with a claimed grant finds no session that can be paid.
LEMMA BeginPrepared ==
    ASSUME TypeOK, Placed, Authority, Payments, [Next]_vars, NEW r \in Request, NEW k \in Kind,
           JoinGrant(r, k) \/ NewGrant(r, k)
    PROVE  PreparingRequest(r)'
<1> DEFINE q == request'[r]
<1>1. q.attempt = 0 /\ q.since = Settled /\ q.at \notin {"attempt", "idle"}
      /\ attempt' = attempt /\ elapsed' = elapsed /\ checkout' = checkout
  <2>1. CASE JoinGrant(r, k)
    <3>1. q.attempt = 0 /\ q.since = Settled /\ q.at \notin {"attempt", "idle"}
      BY <2>1, JoinEffect
    <3> QED
      BY <2>1, <3>1 DEF JoinGrant, rows, stripe
  <2>2. CASE NewGrant(r, k)
    <3>1. q.attempt = 0 /\ q.since = Settled /\ q.at \notin {"attempt", "idle"}
      BY <2>2, NewRequest
    <3> QED
      BY <2>2, <3>1 DEF NewGrant, stripe
  <2> QED
    BY <2>1, <2>2
<1>2. ASSUME q.at \in BeforeStart, NEW a \in Attempt, Usable(a) PROVE FALSE
  <2>1. /\ by[a] \in OpenGrants /\ grant[by[a]].kind = "CHECKOUT" /\ by[a] # 0
        /\ \A g \in Grant : grant[g].state # "CLAIMED"
    BY <1>2, UsableAlone DEF OpenGrants, Grant
  <2>2. CASE JoinGrant(r, k)
    <3>1. q.grant \in OpenGrants /\ grant[q.grant].state = "CLAIMED"
      BY <1>2, <2>2, JoinEffect DEF BeforeStart
    <3> QED
      BY <2>1, <3>1 DEF OpenGrants
  <2>3. CASE NewGrant(r, k)
    <3>1. /\ grant[by[a]].state = "CAPABILITY_ISSUED" /\ grant[by[a]].resource \in elapsed
      BY <2>1, <2>3, NewEffect
    <3>2. grant[by[a]].resource \in {0, a} /\ 0 \notin elapsed
      BY <2>1 DEF Authority, Sessions, TypeOK, Attempt
    <3> QED
      BY <1>2, <3>1, <3>2 DEF Usable
  <2> QED
    BY <2>2, <2>3
<1>3. attempt.status = "SESSION_CREATED" => attempt.id <= Settled
  BY AttemptFacts, BillingAssumption
<1> QED
  BY <1>1, <1>2, <1>3 DEF PreparingRequest, Usable

\* Requests are still prepared.
LEMMA PreparedNext ==
    ASSUME TypeOK, Placed, Authority, Payments, [Next]_vars
    PROVE  \A s \in Request : PreparingRequest(s)'
<1>1. ASSUME NEW r \in Request, CheckoutStep(r) \/ Crash(r)
      PROVE  \A s \in Request : PreparingRequest(s)'
  <2>1. \A s \in Request : s # r => request'[s] = request[s]
    BY <1>1, CheckoutEffect DEF OwnStep
  <2> QED
    BY <1>1, <2>1, OwnPrepared, StandingPrepared
<1>2. ASSUME NEW r \in Request, NEW k \in Kind, JoinGrant(r, k) \/ NewGrant(r, k)
      PROVE  \A s \in Request : PreparingRequest(s)'
  <2>1. \A s \in Request : s # r => request'[s] = request[s]
    BY <1>2, BeginWork
  <2> QED
    BY <1>2, <2>1, BeginPrepared, StandingPrepared
<1>3. ASSUME request' = request PROVE \A s \in Request : PreparingRequest(s)'
  BY <1>3, StandingPrepared
<1> QED
  BY <1>1, <1>2, <1>3
     DEF Next, MoveOwnership, CreateCheckout, CreatePortal, CreateLost, Elapse, Pay, Cancel,
         CloseCheckout, ClosePortal, DeliverCompleted, CompleteCheckout, LoseDelivery,
         OperatorRelease, vars

\* The organisation does not lose sight of a subscription that charges.
LEMMA LiveIsKnown ==
    ASSUME TypeOK, Placed, Authority, Payments, [Next]_vars, NEW a \in Attempt, sub'[a] = "live"
    PROVE  /\ checkout'[a] = "complete"
           /\ \A b \in Attempt : checkout'[b] = "complete" => b <= a
           /\ local' = a \/ (attempt'.id = a /\ attempt'.status = "SESSION_CREATED")
<1>0. attempt.id \in Nat /\ Settled \in Nat /\ Settled <= attempt.id
  BY AttemptFacts, BillingAssumption
<1>1. CASE Pay(a)
  <2>1. /\ checkout'[a] = "complete" /\ attempt' = attempt /\ Usable(a) /\ a <= Settled
        /\ \A b \in Attempt : b # a => checkout'[b] = checkout[b]
    BY <1>1, PaidWasRecorded DEF Pay, TypeOK, rows
  <2>2. a = attempt.id /\ attempt.status # "COMPLETED"
    BY <2>1, UsableAlone
  <2>3. attempt.status = "SESSION_CREATED"
    BY <1>0, <2>1, <2>2, AttemptFacts
  <2>4. ASSUME NEW b \in Attempt, checkout'[b] = "complete" PROVE b <= a
    <3>1. b = a \/ b <= Settled
      BY <2>1, <2>4 DEF Authority, Attempts
    <3> QED
      BY <1>0, <2>2, <3>1 DEF Attempt
  <2> QED
    BY <2>1, <2>2, <2>3, <2>4
<1>2. CASE sub[a] = "live"
  <2>1. /\ checkout[a] = "complete" /\ a <= Settled
        /\ \A b \in Attempt : checkout[b] = "complete" => b <= a
        /\ local = a \/ (attempt.id = a /\ attempt.status = "SESSION_CREATED")
    BY <1>2 DEF Payments, Authority, Attempts
  <2>2. ASSUME NEW b \in Attempt, Pay(b) PROVE FALSE
    BY <1>2, <2>2, PaidWasRecorded DEF Pay, Payments, NoneLive
  <2>3. ASSUME NEW b \in Attempt, checkout'[b] = "complete" PROVE b <= a
    BY <2>1, <2>2, <2>3, SessionsNext DEF SessionStep
  <2>4. CASE Completes
    <3>1. checkout[attempt.id] = "complete" /\ attempt.id \in Attempt
      BY <2>4 DEF Completes, Placed, TypeOK
    <3>2. attempt.id <= a
      BY <2>1, <3>1
    <3> QED
      BY <1>0, <2>1, <2>3, <2>4, <3>2, Grows DEF Completes, Attempt
  <2>5. CASE ReplacesAttempt
    <3>1. PICK r \in Request : ClaimAttempt(r)
      BY <2>5 DEF ReplacesAttempt
    <3>2. ASSUME attempt.id = a, attempt.status = "SESSION_CREATED" PROVE FALSE
      <4>1. a \in elapsed /\ request[r].at = "attempt"
        BY <2>5, <3>1, <3>2 DEF ReplacesAttempt, Pending, ClaimAttempt
      <4>2. request[r].since < a /\ a <= request[r].since
        BY <1>2, <3>2, <4>1 DEF Payments, PreparingRequest
      <4>3. request[r].since \in Nat
        BY BillingAssumption DEF TypeOK, RequestState
      <4> QED
        BY <4>2, <4>3 DEF Attempt
    <3> QED
      BY <2>1, <2>3, <2>5, <3>2, Grows DEF ReplacesAttempt
  <2>6. CASE RecordsSession \/ (attempt' = attempt /\ local' = local)
    BY <2>1, <2>3, <2>6, Grows DEF RecordsSession
  <2> QED
    BY <2>4, <2>5, <2>6, AttemptStepNext DEF AttemptStep
<1> QED
  BY <1>1, <1>2, SubscriptionNext

\* Payments stay in step with what is known of them.
LEMMA PaymentsNext ==
    ASSUME TypeOK, Placed, Authority, Payments, [Next]_vars
    PROVE  Payments'
<1>1. ASSUME NEW m \in wire', m.attempt # 0 PROVE NoneLive'
  <2>1. CASE m \in wire
    <3>1. NoneLive
      BY <1>1, <2>1 DEF Payments
    <3>2. ASSUME NEW a \in Attempt, Pay(a) PROVE FALSE
      BY <2>1, <3>2, PaidWasRecorded, UsableAlone DEF Pay
    <3> QED
      BY <3>1, <3>2, SubscriptionNext
  <2>2. CASE m \notin wire
    <3>1. PICK r \in Request : /\ StartProvider(r) /\ grant[Own(r)].state = "CLAIMED"
                               /\ m = [grant |-> Own(r), attempt |-> request[r].attempt]
      BY <2>2, WireNext
    <3>2. request[r].at = "start" /\ request[r].attempt # 0 /\ sub' = sub
      BY <1>1, <3>1 DEF StartProvider, stripe
    <3>3. NoneLive
      BY <3>1, <3>2 DEF Payments, PreparingRequest, Own
    <3> QED
      BY <3>2, <3>3 DEF NoneLive
  <2> QED
    BY <2>1, <2>2
<1>2. ASSUME NEW a \in Attempt, Usable(a)' PROVE NoneLive'
  <2>1. CASE Usable(a)
    <3>1. NoneLive
      BY <2>1 DEF Payments
    <3>2. ASSUME NEW b \in Attempt, Pay(b) PROVE FALSE
      <4>1. b = a
        BY <2>1, <3>2, PaidWasRecorded, UsableAlone DEF Pay
      <4>2. checkout'[a] = "complete"
        BY <3>2, <4>1 DEF Pay, TypeOK
      <4> QED
        BY <1>2, <4>2 DEF Usable
    <3> QED
      BY <3>1, <3>2, SubscriptionNext
  <2>2. CASE ~Usable(a)
    BY <1>2, <2>2, CreatedIsNew
  <2> QED
    BY <2>1, <2>2
<1> QED
  BY <1>1, <1>2, PreparedNext, LiveIsKnown DEF Payments

\* Nothing is paid at the start.
LEMMA PaymentsInit == Init => Payments
BY IdleRequest DEF Init, Payments, PreparingRequest, NoneLive, Usable, BeforeStart

\* What was paid and what can be paid agree in every reachable state.
THEOREM PaymentsHold == Spec => []Payments
BY PaymentsInit, PaymentsNext, TypeCorrect, AuthorityHolds, PTL DEF Spec

\* No interleaving of requests, late calls, payments, webhooks and releases leaves
\* the customer with two live subscriptions.
THEOREM OneSubscription == Spec => []OneLiveSubscription
<1>1. ASSUME TypeOK, Payments, NEW a \in Attempt, NEW b \in Attempt,
             sub[a] = "live", sub[b] = "live"
      PROVE  a = b
  <2>1. a <= b /\ b <= a
    BY <1>1 DEF Payments
  <2> QED
    BY <2>1 DEF Attempt
<1>2. TypeOK /\ Payments => OneLiveSubscription
  BY <1>1 DEF OneLiveSubscription
<1> QED
  BY <1>2, TypeCorrect, PaymentsHold, PTL

\* A subscription that charges is recorded, or its completion event will still be
\* accepted: no replacement of the attempt and no release comes in between.
THEOREM PaidStaysKnown == Spec => []PaidIsNotForgotten
<1>1. ASSUME TypeOK, Placed, Authority, Payments, NEW a \in Attempt, sub[a] = "live", local # a
      PROVE  attempt.status # "COMPLETED" /\ Accepts(a)
  <2>1. attempt.id = a /\ attempt.status = "SESSION_CREATED" /\ checkout[a] = "complete"
    BY <1>1 DEF Payments
  <2>2. local = attempt.previous
    BY <1>1, <2>1 DEF Authority, Attempts
  <2>3. by[a] # 0
    BY <1>1, <2>1 DEF Placed, PlacedSession
  <2>4. grant[by[a]].kind = "CHECKOUT" /\ grant[by[a]].resource \in {0, a}
    BY <1>1, <2>3 DEF Placed, PlacedSession, Authority, Sessions
  <2> QED
    BY <2>1, <2>2, <2>4 DEF Accepts
<1>2. TypeOK /\ Placed /\ Authority /\ Payments => PaidIsNotForgotten
  BY <1>1 DEF PaidIsNotForgotten
<1> QED
  BY <1>2, TypeCorrect, AuthorityHolds, PaymentsHold, PTL

\* A release is the end of a grant: no request, webhook or operator that comes late
\* starts, issues or releases it again.
ReleaseIsFinal == [][\A g \in Grant : grant[g].state = "RELEASED" => grant'[g] = grant[g]]_vars

\* The lifecycle of a grant ends with its release.
THEOREM ReleasedStays == Spec => ReleaseIsFinal
<1>1. ASSUME TypeOK, Placed, [Next]_vars, NEW g \in Grant, grant[g].state = "RELEASED"
      PROVE  grant'[g] = grant[g]
  BY <1>1, GrantsNext, RowFacts DEF GrantStep, StartsGrant, IssuesGrant, ReleasesGrant, Open, Engaged
<1>2. TypeOK /\ Placed /\ [Next]_vars =>
        [\A g \in Grant : grant[g].state = "RELEASED" => grant'[g] = grant[g]]_vars
  BY <1>1
<1> QED
  BY <1>2, TypeCorrect, PTL DEF Spec, ReleaseIsFinal

=============================================================================
