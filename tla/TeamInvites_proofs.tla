------------------------- MODULE TeamInvites_proofs -------------------------
(***************************************************************************)
(* The theorems about TeamInvites, for every set of addresses, invitations *)
(* and request handlers and every limit.  NoLeftoverInvite and             *)
(* AcceptedByLatestLink are inductive beside TypeOK.  Counting seats needs *)
(* that they can be counted: FiniteSeats holds because every step takes at *)
(* most one, so nothing is assumed of the sets themselves.                 *)
(***************************************************************************)
EXTENDS TeamInvites, FiniteSetTheorems, TLAPS

FiniteSeats == IsFiniteSet(ActiveMembers) /\ IsFiniteSet(PendingInvites)

\* One more element makes a set at most one larger.
LEMMA OneMore ==
    ASSUME NEW S, IsFiniteSet(S), NEW x
    PROVE  IsFiniteSet(S \cup {x}) /\ Cardinality(S \cup {x}) <= Cardinality(S) + 1
<1>1. Cardinality(S) \in Nat
  BY FS_CardinalityType
<1>2. /\ IsFiniteSet(S \cup {x})
      /\ \/ Cardinality(S \cup {x}) = Cardinality(S)
         \/ Cardinality(S \cup {x}) = Cardinality(S) + 1
  BY FS_AddElement, Zenon
<1> QED
  BY <1>1, <1>2

\* Seats that can be counted have a number.
LEMMA SeatsType ==
    ASSUME FiniteSeats
    PROVE  /\ Cardinality(ActiveMembers) \in Nat
           /\ Cardinality(PendingInvites) \in Nat
           /\ Seats \in Nat
BY FS_CardinalityType DEF FiniteSeats, Seats

-----------------------------------------------------------------------------
(* How the seats move *)

\* No step takes a seat beside the ones there are.
LEMMA SeatsShrink ==
    ASSUME FiniteSeats, ActiveMembers' \subseteq ActiveMembers,
           PendingInvites' \subseteq PendingInvites
    PROVE  FiniteSeats' /\ Seats' \in Nat /\ Seats' <= Seats
<1>1. /\ IsFiniteSet(ActiveMembers') /\ Cardinality(ActiveMembers') <= Cardinality(ActiveMembers)
      /\ IsFiniteSet(PendingInvites') /\ Cardinality(PendingInvites') <= Cardinality(PendingInvites)
  BY FS_Subset DEF FiniteSeats
<1>2. FiniteSeats'
  BY <1>1 DEF FiniteSeats
<1>3. Cardinality(ActiveMembers') \in Nat /\ Cardinality(PendingInvites') \in Nat
  BY <1>1, FS_CardinalityType
<1> QED
  BY <1>1, <1>2, <1>3, SeatsType DEF Seats

\* An invitation takes one seat.
LEMMA SeatReserved ==
    ASSUME FiniteSeats, NEW i, ActiveMembers' = ActiveMembers,
           PendingInvites' \subseteq PendingInvites \cup {i}
    PROVE  FiniteSeats' /\ Seats' \in Nat /\ Seats' <= Seats + 1
<1> DEFINE P == PendingInvites \cup {i}
<1>1. IsFiniteSet(P) /\ Cardinality(P) <= Cardinality(PendingInvites) + 1
  BY OneMore DEF FiniteSeats
<1>2. IsFiniteSet(PendingInvites') /\ Cardinality(PendingInvites') <= Cardinality(P)
  BY <1>1, FS_Subset
<1>3. Cardinality(P) \in Nat /\ Cardinality(PendingInvites') \in Nat
  BY <1>1, <1>2, FS_CardinalityType
<1>4. FiniteSeats'
  BY <1>2 DEF FiniteSeats
<1> QED
  BY <1>1, <1>2, <1>3, <1>4, SeatsType DEF Seats

\* A member coming back takes one seat.
LEMMA SeatTaken ==
    ASSUME FiniteSeats, NEW e, ActiveMembers' \subseteq ActiveMembers \cup {e},
           PendingInvites' = PendingInvites
    PROVE  FiniteSeats' /\ Seats' \in Nat /\ Seats' <= Seats + 1
<1> DEFINE A == ActiveMembers \cup {e}
<1>1. IsFiniteSet(A) /\ Cardinality(A) <= Cardinality(ActiveMembers) + 1
  BY OneMore DEF FiniteSeats
<1>2. IsFiniteSet(ActiveMembers') /\ Cardinality(ActiveMembers') <= Cardinality(A)
  BY <1>1, FS_Subset
<1>3. Cardinality(A) \in Nat /\ Cardinality(ActiveMembers') \in Nat
  BY <1>1, <1>2, FS_CardinalityType
<1>4. FiniteSeats'
  BY <1>2 DEF FiniteSeats
<1> QED
  BY <1>1, <1>2, <1>3, <1>4, SeatsType DEF Seats

\* An acceptance turns the reserved seat into a taken one.
LEMMA SeatConverted ==
    ASSUME FiniteSeats, NEW i \in PendingInvites, NEW e,
           ActiveMembers' = ActiveMembers \cup {e},
           PendingInvites' = PendingInvites \ {i}
    PROVE  FiniteSeats' /\ Seats' \in Nat /\ Seats' <= Seats
<1>1. /\ IsFiniteSet(ActiveMembers')
      /\ Cardinality(ActiveMembers') <= Cardinality(ActiveMembers) + 1
  BY OneMore DEF FiniteSeats
<1>2. /\ IsFiniteSet(PendingInvites')
      /\ Cardinality(PendingInvites') = Cardinality(PendingInvites) - 1
  BY FS_RemoveElement DEF FiniteSeats
<1>3. Cardinality(ActiveMembers') \in Nat /\ Cardinality(PendingInvites') \in Nat
  BY <1>1, <1>2, FS_CardinalityType
<1>4. FiniteSeats'
  BY <1>1, <1>2 DEF FiniteSeats
<1> QED
  BY <1>1, <1>2, <1>3, <1>4, SeatsType DEF Seats

-----------------------------------------------------------------------------
(* What the steps do to members and invitations *)

\* The sweep revokes expired invitations of the address and nothing else.
LEMMA SweptEffect ==
    ASSUME TypeOK, NEW e \in Email, NEW i \in Invite
    PROVE  /\ Swept(e)[i] \in InviteRow
           /\ Swept(e)[i].email = invite[i].email
           /\ Swept(e)[i].token = invite[i].token
           /\ Swept(e)[i].via = invite[i].via
           /\ Swept(e)[i].expired = invite[i].expired
           /\ Swept(e)[i].status = IF Pending(i) /\ invite[i].expired /\ invite[i].email = e
                                     THEN "REVOKED" ELSE invite[i].status
<1>1. invite[i] \in InviteRow
  BY DEF TypeOK
<1> QED
  BY <1>1 DEF Swept, InviteRow

\* An acceptance under way knows its invitation and its link.
LEMMA AcceptType ==
    ASSUME TypeOK, NEW h \in Handler, accept[h] # Idle
    PROVE  accept[h].invite \in Invite /\ accept[h].token \in Nat
BY DEF TypeOK, Presented

\* The founding member and an empty list of invitations.
LEMMA TypeInit == Init => TypeOK /\ FiniteSeats
<1> SUFFICES ASSUME Init PROVE TypeOK /\ FiniteSeats
  OBVIOUS
<1>1. TypeOK
  BY OwnerAssumption DEF Init, TypeOK, Member, Life, Role, InviteRow, NoInvite
<1>2. ActiveMembers \subseteq {Owner} /\ PendingInvites = {}
  BY DEF Init, ActiveMembers, PendingInvites, Usable, Pending, NoInvite
<1>3. FiniteSeats
  BY <1>2, FS_Singleton, FS_EmptySet, FS_Subset DEF FiniteSeats
<1> QED
  BY <1>1, <1>3

\* Every invitation, acceptance, membership and plan change keeps the types.
LEMMA TypeNext == TypeOK /\ FiniteSeats /\ [Next]_vars => TypeOK'
<1> SUFFICES ASSUME TypeOK, FiniteSeats, [Next]_vars PROVE TypeOK'
  OBVIOUS
<1>1. ASSUME NEW i \in Invite, NEW a \in Email, NEW e \in Email,
             NEW role \in {"ADMIN", "MEMBER"}, CreateInvite(i, a, e, role)
      PROVE  TypeOK'
  <2>1. [status |-> "PENDING", email |-> e, role |-> role, token |-> 1,
         expired |-> FALSE, via |-> 0] \in InviteRow
    BY DEF InviteRow, Role
  <2>2. Swept(e) \in [Invite -> InviteRow]
    BY SweptEffect DEF Swept
  <2>3. invite' \in [Invite -> InviteRow]
    BY <1>1, <2>1, <2>2 DEF CreateInvite
  <2> QED
    BY <1>1, <2>3 DEF CreateInvite, TypeOK
<1>2. ASSUME NEW a \in Email, NEW e \in Email, NEW role \in {"ADMIN", "MEMBER"},
             InviteKnown(a, e, role)
      PROVE  TypeOK'
  <2>1. Swept(e) \in [Invite -> InviteRow]
    BY SweptEffect DEF Swept
  <2> QED
    BY <1>2, <2>1 DEF InviteKnown, TypeOK
<1>3. ASSUME NEW i \in Invite,
             Expire(i) \/ \E a \in Email : ReissueLink(i, a) \/ Revoke(i, a)
      PROVE  TypeOK'
  <2>0. invite[i] \in InviteRow /\ invite[i].token + 1 \in Nat
    BY DEF TypeOK, InviteRow
  <2>1. /\ [invite[i] EXCEPT !.token = invite[i].token + 1] \in InviteRow
        /\ [invite[i] EXCEPT !.status = "REVOKED"] \in InviteRow
        /\ [invite[i] EXCEPT !.expired = TRUE] \in InviteRow
    BY <2>0 DEF InviteRow
  <2> QED
    BY <1>3, <2>1 DEF ReissueLink, Revoke, Expire, TypeOK
<1>4. ASSUME NEW h \in Handler, NEW i \in Invite, Present(h, i)
      PROVE  TypeOK'
  <2>1. [invite |-> i, token |-> invite[i].token] \in Presented
    BY DEF TypeOK, InviteRow, Presented
  <2> QED
    BY <1>4, <2>1 DEF Present, TypeOK
<1>5. ASSUME NEW h \in Handler, AcceptInvite(h) \/ AcceptRefused(h)
      PROVE  TypeOK'
  <2> DEFINE i == accept[h].invite
  <2>1. i \in Invite /\ accept[h].token \in Nat
    BY <1>5, AcceptType DEF AcceptInvite, AcceptRefused
  <2>2. [invite[i] EXCEPT !.status = "ACCEPTED", !.via = accept[h].token] \in InviteRow
    BY <2>1 DEF TypeOK, InviteRow
  <2>3. [life |-> "ACTIVE", role |-> invite[i].role] \in Member
    BY <2>1 DEF TypeOK, InviteRow, Member, Life
  <2>4. accept' \in [Handler -> {Idle} \cup Presented]
    BY <1>5 DEF AcceptInvite, AcceptRefused, TypeOK
  <2>5. invite' \in [Invite -> InviteRow]
    BY <1>5, <2>2 DEF AcceptInvite, AcceptRefused, TypeOK
  <2>6. member' \in [Email -> Member]
    BY <1>5, <2>3 DEF AcceptInvite, AcceptRefused, TypeOK
  <2> QED
    BY <1>5, <2>4, <2>5, <2>6 DEF AcceptInvite, AcceptRefused, TypeOK
<1>6. ASSUME NEW t \in Email,
             \/ \E a \in Email, life \in {"SUSPENDED", "REMOVED"} : Deactivate(a, t, life)
             \/ \E a \in Email : Reactivate(a, t)
             \/ \E a \in Email, role \in {"ADMIN", "MEMBER"} : ChangeRole(a, t, role)
             \/ JoinElsewhere(t)
      PROVE  TypeOK'
  <2>1. /\ \A l \in Life : [member[t] EXCEPT !.life = l] \in Member
        /\ \A role \in Role : [member[t] EXCEPT !.role = role] \in Member
    BY DEF TypeOK, Member, Role
  <2> QED
    BY <1>6, <2>1 DEF Deactivate, Reactivate, ChangeRole, JoinElsewhere, TypeOK, Life, Role
<1>7. CASE ChangePlan
  BY <1>7, SeatsType DEF ChangePlan, TypeOK
<1>8. CASE ChangeAccess \/ OrganisationTransition \/ UNCHANGED vars
  BY <1>8 DEF ChangeAccess, OrganisationTransition, vars, TypeOK
<1> QED
  BY <1>1, <1>2, <1>3, <1>4, <1>5, <1>6, <1>7, <1>8 DEF Next

\* Steps that touch neither members nor invitations leave the seats alone.
LEMMA SeatsKept ==
    ASSUME FiniteSeats, member' = member, invite' = invite
    PROVE  FiniteSeats' /\ Seats' \in Nat /\ Seats' <= Seats
<1>1. ActiveMembers' = ActiveMembers /\ PendingInvites' = PendingInvites
  BY DEF ActiveMembers, PendingInvites, Usable, Pending
<1> QED
  BY <1>1, SeatsShrink

\* A step gives seats back, keeps their number, or takes one there is room for.
LEMMA SeatMove ==
    ASSUME TypeOK, FiniteSeats, [Next]_vars
    PROVE  /\ FiniteSeats' /\ Seats' \in Nat
           /\ Seats' <= Seats \/ (HasPlace(Seats) /\ Seats' <= Seats + 1)
<1>1. ASSUME NEW i \in Invite, NEW a \in Email, NEW e \in Email,
             NEW role \in {"ADMIN", "MEMBER"}, CreateInvite(i, a, e, role)
      PROVE  FiniteSeats' /\ Seats' \in Nat /\ HasPlace(Seats) /\ Seats' <= Seats + 1
  <2>1. ActiveMembers' = ActiveMembers
    BY <1>1 DEF CreateInvite, ActiveMembers
  <2>2. ASSUME NEW j \in Invite, j # i, Usable(j)' PROVE Usable(j)
    <3>1. invite'[j] = Swept(e)[j]
      BY <1>1, <2>2 DEF CreateInvite, Swept
    <3> QED
      BY <2>2, <3>1, SweptEffect DEF Usable, Pending
  <2>3. PendingInvites' \subseteq PendingInvites \cup {i}
    BY <2>2 DEF PendingInvites
  <2> QED
    BY <1>1, <2>1, <2>3, SeatReserved DEF CreateInvite
<1>2. ASSUME NEW a \in Email, NEW e \in Email, NEW role \in {"ADMIN", "MEMBER"},
             InviteKnown(a, e, role)
      PROVE  FiniteSeats' /\ Seats' \in Nat /\ Seats' <= Seats
  <2>1. ActiveMembers' = ActiveMembers
    BY <1>2 DEF InviteKnown, ActiveMembers
  <2>2. ASSUME NEW j \in Invite, Usable(j)' PROVE Usable(j)
    BY <1>2, <2>2, SweptEffect DEF InviteKnown, Usable, Pending
  <2>3. PendingInvites' \subseteq PendingInvites
    BY <2>2 DEF PendingInvites
  <2> QED
    BY <2>1, <2>3, SeatsShrink
<1>3. ASSUME NEW i \in Invite,
             Expire(i) \/ \E a \in Email : ReissueLink(i, a) \/ Revoke(i, a)
      PROVE  FiniteSeats' /\ Seats' \in Nat /\ Seats' <= Seats
  <2>1. ActiveMembers' = ActiveMembers
    BY <1>3 DEF ReissueLink, Revoke, Expire, ActiveMembers
  <2>2. ASSUME NEW j \in Invite, Usable(j)' PROVE Usable(j)
    BY <1>3, <2>2 DEF ReissueLink, Revoke, Expire, Usable, Pending, TypeOK, InviteRow
  <2>3. PendingInvites' \subseteq PendingInvites
    BY <2>2 DEF PendingInvites
  <2> QED
    BY <2>1, <2>3, SeatsShrink
<1>4. ASSUME NEW h \in Handler, AcceptInvite(h)
      PROVE  FiniteSeats' /\ Seats' \in Nat /\ Seats' <= Seats
  <2> DEFINE i == accept[h].invite
             e == invite[i].email
  <2>1. i \in Invite /\ e \in Email
    BY <1>4, AcceptType DEF AcceptInvite, TypeOK, InviteRow
  <2>2. i \in PendingInvites
    BY <1>4, <2>1 DEF AcceptInvite, Consumes, PendingInvites
  <2>3. ActiveMembers' = ActiveMembers \cup {e}
    BY <1>4, <2>1 DEF AcceptInvite, ActiveMembers, TypeOK
  <2>4. PendingInvites' = PendingInvites \ {i}
    BY <1>4, <2>1 DEF AcceptInvite, PendingInvites, Usable, Pending, TypeOK, InviteRow
  <2> QED
    BY <2>2, <2>3, <2>4, SeatConverted
<1>5. ASSUME NEW t \in Email,
             \/ \E a \in Email, life \in {"SUSPENDED", "REMOVED"} : Deactivate(a, t, life)
             \/ \E a \in Email, role \in {"ADMIN", "MEMBER"} : ChangeRole(a, t, role)
             \/ JoinElsewhere(t)
      PROVE  FiniteSeats' /\ Seats' \in Nat /\ Seats' <= Seats
  <2>1. ActiveMembers' \subseteq ActiveMembers
    BY <1>5 DEF Deactivate, ChangeRole, JoinElsewhere, ActiveMembers, TypeOK, Member
  <2>2. PendingInvites' = PendingInvites
    BY <1>5 DEF Deactivate, ChangeRole, JoinElsewhere, PendingInvites, Usable, Pending
  <2> QED
    BY <2>1, <2>2, SeatsShrink
<1>6. ASSUME NEW a \in Email, NEW t \in Email, Reactivate(a, t)
      PROVE  FiniteSeats' /\ Seats' \in Nat /\ HasPlace(Seats) /\ Seats' <= Seats + 1
  <2>1. ActiveMembers' \subseteq ActiveMembers \cup {t}
    BY <1>6 DEF Reactivate, ActiveMembers, TypeOK
  <2>2. PendingInvites' = PendingInvites
    BY <1>6 DEF Reactivate, PendingInvites, Usable, Pending
  <2> QED
    BY <1>6, <2>1, <2>2, SeatTaken DEF Reactivate
<1> QED
  BY <1>1, <1>2, <1>3, <1>4, <1>5, <1>6, SeatsKept
     DEF Next, Present, AcceptRefused, ChangePlan, ChangeAccess, OrganisationTransition, vars

\* Type correctness, and the seats can be counted.
THEOREM TypeCorrect == Spec => [](TypeOK /\ FiniteSeats)
<1>1. TypeOK /\ FiniteSeats /\ [Next]_vars => (TypeOK /\ FiniteSeats)'
  BY TypeNext, SeatMove
<1> QED
  BY <1>1, TypeInit, PTL DEF Spec

-----------------------------------------------------------------------------
(* The plan is never oversold *)

\* The plan and the seats it was lowered with change in one step only.
LEMMA PlanStep ==
    ASSUME [Next]_vars
    PROVE  ChangePlan \/ (plan' = plan /\ grace' = grace)
BY DEF Next, CreateInvite, InviteKnown, ReissueLink, Revoke, Expire, Present, AcceptInvite,
       AcceptRefused, Deactivate, Reactivate, ChangeRole, JoinElsewhere, ChangeAccess,
       OrganisationTransition, vars

\* Invitations, acceptances, reissues, expiries and reactivations never oversell
\* the plan between them, for any number of people and any limit.
THEOREM NeverOversold == Spec => []SeatsWithinPlan
<1>1. Init => SeatsWithinPlan
  <2> SUFFICES ASSUME Init PROVE Seats <= Limit
    BY DEF SeatsWithinPlan
  <2>1. ActiveMembers = {Owner} /\ PendingInvites = {}
    BY OwnerAssumption DEF Init, ActiveMembers, PendingInvites, Usable, Pending, NoInvite
  <2>2. Cardinality(ActiveMembers) = 1 /\ Cardinality(PendingInvites) = 0
    BY <2>1, FS_Singleton, FS_EmptySet
  <2> QED
    BY <2>2, LimitAssumption DEF Seats
<1>2. TypeOK /\ FiniteSeats /\ SeatsWithinPlan /\ [Next]_vars => SeatsWithinPlan'
  <2> SUFFICES ASSUME TypeOK, FiniteSeats, SeatsWithinPlan, [Next]_vars
               PROVE  SeatsWithinPlan'
    OBVIOUS
  <2>1. Seats' \in Nat /\ (Seats' <= Seats \/ (HasPlace(Seats) /\ Seats' <= Seats + 1))
    BY SeatMove
  <2>2. Seats \in Nat
    BY SeatsType
  <2>3. CASE ChangePlan
    <3>1. Seats' = Seats
      BY <2>3 DEF ChangePlan, Seats, ActiveMembers, PendingInvites, Usable, Pending
    <3> QED
      BY <2>2, <2>3, <3>1 DEF ChangePlan, SeatsWithinPlan
  <2>4. CASE plan' = plan /\ grace' = grace
    BY <2>1, <2>2, <2>4, LimitAssumption DEF SeatsWithinPlan, HasPlace, TypeOK
  <2> QED
    BY <2>3, <2>4, PlanStep
<1> QED
  BY <1>1, <1>2, TypeCorrect, PTL DEF Spec

-----------------------------------------------------------------------------
(* Links and leftovers *)

\* Creating an invitation changes the new row and sweeps the address.
LEMMA CreateEffect ==
    ASSUME TypeOK, NEW i \in Invite, NEW a \in Email, NEW e \in Email, NEW role,
           CreateInvite(i, a, e, role)
    PROVE  /\ invite'[i].status = "PENDING" /\ invite'[i].email = e
           /\ \A j \in Invite : j # i => invite'[j] = Swept(e)[j]
           /\ member' = member
<1>1. i \in DOMAIN Swept(e)
  BY DEF Swept
<1>2. invite' = [Swept(e) EXCEPT ![i] =
                   [status |-> "PENDING", email |-> e, role |-> role, token |-> 1,
                    expired |-> FALSE, via |-> 0]]
  BY DEF CreateInvite
<1>3. \A j \in Invite : j \in DOMAIN Swept(e)
  BY DEF Swept
<1> QED
  BY <1>1, <1>2, <1>3 DEF CreateInvite

\* The transaction of acceptInvite changes one invitation and one address.
LEMMA AcceptEffect ==
    ASSUME TypeOK, NEW h \in Handler, AcceptInvite(h)
    PROVE  LET i == accept[h].invite IN
             /\ i \in Invite /\ Usable(i) /\ invite[i].token = accept[h].token
             /\ invite'[i].status = "ACCEPTED" /\ invite'[i].via = accept[h].token
             /\ invite'[i].token = invite[i].token
             /\ \A j \in Invite : j # i => invite'[j] = invite[j]
             /\ invite[i].email \in Email
             /\ \A e \in Email : e # invite[i].email => member'[e] = member[e]
<1>1. accept[h].invite \in Invite
  BY AcceptType DEF AcceptInvite
<1>2. invite[accept[h].invite] \in InviteRow
  BY <1>1 DEF TypeOK
<1> QED
  BY <1>1, <1>2 DEF AcceptInvite, Consumes, TypeOK, InviteRow

\* What a step does to the rows of pending invitations and to who is known.
LEMMA LeftoverNext ==
    TypeOK /\ NoLeftoverInvite /\ [Next]_vars => NoLeftoverInvite'
<1> SUFFICES ASSUME TypeOK, NoLeftoverInvite, [Next]_vars PROVE NoLeftoverInvite'
  OBVIOUS
<1>0. \A i \in Invite : invite[i].email \in Email
  BY DEF TypeOK, InviteRow
<1>1. ASSUME NEW i \in Invite, NEW a \in Email, NEW e \in Email,
             NEW role \in {"ADMIN", "MEMBER"}, CreateInvite(i, a, e, role)
      PROVE  NoLeftoverInvite'
  <2>1. member[e].life = "ABSENT" /\ \A j \in Invite : ~(Usable(j) /\ invite[j].email = e)
    BY <1>1 DEF CreateInvite, Known
  <2>2. ASSUME NEW j \in Invite, j # i, Pending(j)'
        PROVE  Pending(j) /\ invite'[j].email = invite[j].email /\ invite[j].email # e
    <3>1. invite'[j] = Swept(e)[j]
      BY <1>1, <2>2, CreateEffect
    <3> QED
      BY <2>1, <2>2, <3>1, SweptEffect DEF Pending, Usable
  <2>3. invite'[i].email = e /\ member' = member
    BY <1>1, CreateEffect
  <2> QED
    BY <2>1, <2>2, <2>3 DEF NoLeftoverInvite
<1>2. ASSUME NEW a \in Email, NEW e \in Email, NEW role \in {"ADMIN", "MEMBER"},
             InviteKnown(a, e, role)
      PROVE  NoLeftoverInvite'
  <2>1. ASSUME NEW j \in Invite, Pending(j)'
        PROVE  Pending(j) /\ invite'[j].email = invite[j].email
    BY <1>2, <2>1, SweptEffect DEF InviteKnown, Pending
  <2>2. member' = member
    BY <1>2 DEF InviteKnown
  <2>3. \A j \in Invite : invite'[j].email = invite[j].email
    BY <1>2, SweptEffect DEF InviteKnown
  <2> QED
    BY <2>1, <2>2, <2>3 DEF NoLeftoverInvite
<1>3. ASSUME NEW i \in Invite,
             Expire(i) \/ \E a \in Email : ReissueLink(i, a) \/ Revoke(i, a)
      PROVE  NoLeftoverInvite'
  <2>1. ASSUME NEW j \in Invite
        PROVE  (Pending(j)' => Pending(j)) /\ invite'[j].email = invite[j].email
    BY <1>3 DEF Expire, ReissueLink, Revoke, Pending, Usable, TypeOK, InviteRow
  <2>2. member' = member
    BY <1>3 DEF Expire, ReissueLink, Revoke
  <2> QED
    BY <2>1, <2>2 DEF NoLeftoverInvite
<1>4. ASSUME NEW h \in Handler, AcceptInvite(h)
      PROVE  NoLeftoverInvite'
  <2>1. PICK i \in Invite :
          /\ Pending(i) /\ invite'[i].status = "ACCEPTED"
          /\ \A j \in Invite : j # i => invite'[j] = invite[j]
          /\ \A e \in Email : e # invite[i].email => member'[e] = member[e]
    BY <1>4, AcceptEffect DEF Usable
  <2>2. ASSUME NEW j \in Invite, Pending(j)'
        PROVE  /\ Pending(j) /\ j # i /\ invite'[j].email = invite[j].email
               /\ invite[j].email # invite[i].email
    BY <2>1, <2>2 DEF Pending, NoLeftoverInvite
  <2> QED
    BY <1>0, <2>1, <2>2 DEF NoLeftoverInvite
<1>5. ASSUME invite' = invite,
             \A e \in Email : \/ member'[e].life = member[e].life
                              \/ member'[e].life = "ELSEWHERE"
                              \/ member[e].life \notin {"ABSENT", "ELSEWHERE"}
      PROVE  NoLeftoverInvite'
  BY <1>0, <1>5 DEF NoLeftoverInvite, Pending
<1>6. ASSUME NEW t \in Email,
             \/ \E a \in Email, life \in {"SUSPENDED", "REMOVED"} : Deactivate(a, t, life)
             \/ \E a \in Email : Reactivate(a, t)
             \/ \E a \in Email, role \in {"ADMIN", "MEMBER"} : ChangeRole(a, t, role)
             \/ JoinElsewhere(t)
      PROVE  NoLeftoverInvite'
  <2>1. invite' = invite
    BY <1>6 DEF Deactivate, Reactivate, ChangeRole, JoinElsewhere
  <2>2. ASSUME NEW e \in Email
        PROVE  \/ member'[e].life = member[e].life
               \/ member'[e].life = "ELSEWHERE"
               \/ member[e].life \notin {"ABSENT", "ELSEWHERE"}
    BY <1>6 DEF Deactivate, Reactivate, ChangeRole, JoinElsewhere, TypeOK, Member
  <2> QED
    BY <1>5, <2>1, <2>2
<1> QED
  BY <1>1, <1>2, <1>3, <1>4, <1>5, <1>6
     DEF Next, Present, AcceptRefused, ChangePlan, ChangeAccess, OrganisationTransition, vars

\* An address has one open invitation at most and a member has none, so no old
\* link brings a removed person back or makes a second account.
THEOREM NoLeftovers == Spec => []NoLeftoverInvite
<1>1. Init => NoLeftoverInvite
  BY DEF Init, NoLeftoverInvite, Pending, NoInvite
<1>2. TypeOK /\ FiniteSeats => TypeOK
  OBVIOUS
<1> QED
  BY <1>1, <1>2, LeftoverNext, TypeCorrect, PTL DEF Spec

\* A link replaced by reissueLink is dead, also for an acceptance that was
\* hashing the password meanwhile.
THEOREM LatestLinkOnly == Spec => []AcceptedByLatestLink
<1>1. Init => AcceptedByLatestLink
  BY DEF Init, AcceptedByLatestLink, NoInvite
<1>2. TypeOK /\ AcceptedByLatestLink /\ [Next]_vars => AcceptedByLatestLink'
  <2> SUFFICES ASSUME TypeOK, AcceptedByLatestLink, [Next]_vars,
                      NEW j \in Invite, invite'[j].status = "ACCEPTED"
               PROVE  invite'[j].via = invite'[j].token
    BY DEF AcceptedByLatestLink
  <2>0. invite[j] \in InviteRow
    BY DEF TypeOK
  <2>1. ASSUME NEW i \in Invite, NEW a \in Email, NEW e \in Email,
               NEW role \in {"ADMIN", "MEMBER"}, CreateInvite(i, a, e, role)
        PROVE  invite'[j].via = invite'[j].token
    <3>1. j # i /\ invite'[j] = Swept(e)[j]
      BY <2>1, CreateEffect
    <3> QED
      BY <3>1, SweptEffect DEF AcceptedByLatestLink
  <2>2. ASSUME NEW a \in Email, NEW e \in Email, NEW role \in {"ADMIN", "MEMBER"},
               InviteKnown(a, e, role)
        PROVE  invite'[j].via = invite'[j].token
    BY <2>2, SweptEffect DEF InviteKnown, AcceptedByLatestLink
  <2>3. ASSUME NEW i \in Invite,
               Expire(i) \/ \E a \in Email : ReissueLink(i, a) \/ Revoke(i, a)
        PROVE  invite'[j].via = invite'[j].token
    BY <2>0, <2>3 DEF Expire, ReissueLink, Revoke, Pending, Usable, TypeOK, InviteRow,
                      AcceptedByLatestLink
  <2>4. ASSUME NEW h \in Handler, AcceptInvite(h)
        PROVE  invite'[j].via = invite'[j].token
    BY <2>4, AcceptEffect DEF AcceptedByLatestLink
  <2> QED
    BY <2>1, <2>2, <2>3, <2>4
       DEF Next, Present, AcceptRefused, Deactivate, Reactivate, ChangeRole, JoinElsewhere,
           ChangePlan, ChangeAccess, OrganisationTransition, vars, AcceptedByLatestLink
<1>3. TypeOK /\ FiniteSeats => TypeOK
  OBVIOUS
<1> QED
  BY <1>1, <1>2, <1>3, TypeCorrect, PTL DEF Spec
=============================================================================
