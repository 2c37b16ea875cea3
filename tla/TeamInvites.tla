---------------------------- MODULE TeamInvites -----------------------------
(***************************************************************************)
(* Invitations to one charity's team and the seats of its plan:            *)
(* team.service.ts (invite, reissueLink, revoke, acceptInvite and          *)
(* assertCanAddTeamMember) beside what team-lifecycle.service.ts does to   *)
(* the members who occupy the seats.                                       *)
(*                                                                         *)
(* Every transaction locks the organisation row FOR UPDATE first, so each  *)
(* is one action.  acceptInvite reads the invitation and hashes the        *)
(* password before its transaction: what it read is kept in `accept`, and  *)
(* a reissue, a revocation, an expiry or another acceptance may come       *)
(* between.  The role check on the request, before a transaction repeats   *)
(* it on the locked row, can only refuse more.                             *)
(***************************************************************************)
EXTENDS Naturals, FiniteSets

CONSTANTS
    Email,        \* addresses: of the owner, of members, of people to invite
    Owner,        \* the owner's address
    Invite,       \* TeamInvite ids
    Handler,      \* concurrent acceptInvite requests
    Limit,        \* TEAM_MEMBER_LIMITS.ESSENTIALS; COMPLETE has none
    MaxToken      \* bound on the links one invitation goes through

ASSUME OwnerAssumption == Owner \in Email
ASSUME LimitAssumption == Limit \in Nat \ {0} /\ MaxToken \in Nat \ {0}

VARIABLES
    org,       \* the organisation is ACTIVE
    plan,      \* Subscription.plan
    paid,      \* hasSubscriptionAccess
    member,    \* User rows by email, which is unique across organisations
    invite,    \* TeamInvite rows
    accept,    \* what each acceptInvite has read before its transaction
    grace      \* seats taken when the plan was last lowered

vars == <<org, plan, paid, member, invite, accept, grace>>

-----------------------------------------------------------------------------
Role == {"OWNER", "ADMIN", "MEMBER"}
\* "ELSEWHERE": the address belongs to an account of another organisation.
Life == {"ABSENT", "ACTIVE", "SUSPENDED", "REMOVED", "ELSEWHERE"}
Member == [life: Life, role: Role]

\* token counts the links minted for the invitation; only the last one's hash
\* is stored.  via is history: the link the invitation was accepted with.
InviteRow == [status: {"NONE", "PENDING", "ACCEPTED", "REVOKED"}, email: Email,
              role: Role, token: Nat, expired: BOOLEAN, via: Nat]

Idle == [invite |-> "none"]
Presented == [invite: Invite, token: Nat]

\* The plan, the memberships, the invitations and the acceptances keep their
\* types.
TypeOK ==
    /\ org \in BOOLEAN
    /\ plan \in {"ESSENTIALS", "COMPLETE"}
    /\ paid \in BOOLEAN
    /\ member \in [Email -> Member]
    /\ invite \in [Invite -> InviteRow]
    /\ accept \in [Handler -> {Idle} \cup Presented]
    /\ grace \in Nat

NoInvite == [status |-> "NONE", email |-> Owner, role |-> "MEMBER", token |-> 0,
             expired |-> FALSE, via |-> 0]

Init ==
    /\ org = TRUE
    /\ plan \in {"ESSENTIALS", "COMPLETE"}
    /\ paid = TRUE
    /\ member = [e \in Email |->
                   [life |-> IF e = Owner THEN "ACTIVE" ELSE "ABSENT",
                    role |-> IF e = Owner THEN "OWNER" ELSE "MEMBER"]]
    /\ invite = [i \in Invite |-> NoInvite]
    /\ accept = [h \in Handler |-> Idle]
    /\ grace = 0

Pending(i) == invite[i].status = "PENDING"
Usable(i) == Pending(i) /\ ~invite[i].expired
ActiveMembers == {e \in Email : member[e].life = "ACTIVE"}
PendingInvites == {i \in Invite : Usable(i)}
Seats == Cardinality(ActiveMembers) + Cardinality(PendingInvites)

\* The end of assertCanAddTeamMember, with and without pending invitations.
HasPlace(taken) == paid /\ (plan = "COMPLETE" \/ taken < Limit)

\* ensureCanInvite on the inviter's locked row.
CanInvite(actor, role) ==
    /\ member[actor].life = "ACTIVE"
    /\ member[actor].role \in {"OWNER", "ADMIN"}
    /\ role = "ADMIN" => member[actor].role = "OWNER"

-----------------------------------------------------------------------------
(* Invitations *)

\* Mutant: expired invitations of the address stay open.
SweptNothing(e) == invite

\* updateMany of the address's expired invitations.
Swept(e) ==
    [i \in Invite |-> IF Pending(i) /\ invite[i].expired /\ invite[i].email = e
                        THEN [invite[i] EXCEPT !.status = "REVOKED"]
                        ELSE invite[i]]

\* Mutant: an address that already has an open invitation gets another.
KnownAsUser(e) == member[e].life # "ABSENT"

\* foundExistingUser || existingInvite.
Known(e) ==
    \/ member[e].life # "ABSENT"
    \/ \E i \in Invite : Usable(i) /\ invite[i].email = e

\* invite: a place is reserved for the address.
CreateInvite(i, actor, e, role) ==
    /\ org
    /\ CanInvite(actor, role)
    /\ ~Known(e)
    /\ HasPlace(Seats)
    /\ invite[i].status = "NONE"
    /\ invite' = [Swept(e) EXCEPT ![i] =
                    [status |-> "PENDING", email |-> e, role |-> role, token |-> 1,
                     expired |-> FALSE, via |-> 0]]
    /\ UNCHANGED <<org, plan, paid, member, accept, grace>>

\* invite for a known address: the same answer, and only the sweep commits.
InviteKnown(actor, e, role) ==
    /\ org
    /\ CanInvite(actor, role)
    /\ Known(e)
    /\ invite' = Swept(e)
    /\ UNCHANGED <<org, plan, paid, member, accept, grace>>

\* Mutant: a new link also gives the invitation more time.
ReissueExtends(i, actor) ==
    /\ org
    /\ CanInvite(actor, "MEMBER")
    /\ Pending(i)
    /\ invite[i].token < MaxToken
    /\ invite' = [invite EXCEPT ![i].token = @ + 1, ![i].expired = FALSE]
    /\ UNCHANGED <<org, plan, paid, member, accept, grace>>

\* reissueLink (manual-link deployments): the stored hash is replaced.
ReissueLink(i, actor) ==
    /\ org
    /\ CanInvite(actor, "MEMBER")
    /\ Usable(i)
    /\ invite[i].token < MaxToken
    /\ invite' = [invite EXCEPT ![i].token = @ + 1]
    /\ UNCHANGED <<org, plan, paid, member, accept, grace>>

\* revoke: also of an invitation that has expired.
Revoke(i, actor) ==
    /\ org
    /\ CanInvite(actor, "MEMBER")
    /\ Pending(i)
    /\ invite' = [invite EXCEPT ![i].status = "REVOKED"]
    /\ UNCHANGED <<org, plan, paid, member, accept, grace>>

\* Time passes: INVITE_EXPIRY_DAYS.
Expire(i) ==
    /\ Usable(i)
    /\ invite' = [invite EXCEPT ![i].expired = TRUE]
    /\ UNCHANGED <<org, plan, paid, member, accept, grace>>

\* Mutant: the presented link is forgotten.
PresentNoToken(h, i) ==
    /\ accept[h] = Idle
    /\ Usable(i)
    /\ accept' = [accept EXCEPT ![h] = [invite |-> i]]
    /\ UNCHANGED <<org, plan, paid, member, invite, grace>>

\* acceptInvite up to its transaction.
Present(h, i) ==
    /\ accept[h] = Idle
    /\ Usable(i)
    /\ member[invite[i].email].life = "ABSENT"
    /\ accept' = [accept EXCEPT ![h] = [invite |-> i, token |-> invite[i].token]]
    /\ UNCHANGED <<org, plan, paid, member, invite, grace>>

\* Mutant: the link is not compared again.
ConsumesAnyLink(i, token) == Usable(i)

\* The where clause of the consuming updateMany.
Consumes(i, token) == Usable(i) /\ invite[i].token = token

\* The transaction of acceptInvite; a taken address is a unique violation.
AcceptInvite(h) ==
    /\ accept[h] # Idle
    /\ LET i == accept[h].invite
           e == invite[i].email
       IN /\ org
          /\ HasPlace(Cardinality(ActiveMembers))
          /\ Consumes(i, accept[h].token)
          /\ member[e].life = "ABSENT"
          /\ invite' = [invite EXCEPT ![i].status = "ACCEPTED",
                                      ![i].via = accept[h].token]
          /\ member' = [member EXCEPT ![e] = [life |-> "ACTIVE", role |-> invite[i].role]]
    /\ accept' = [accept EXCEPT ![h] = Idle]
    /\ UNCHANGED <<org, plan, paid, grace>>

\* Every refusal of acceptInvite, or the client going away.
AcceptRefused(h) ==
    /\ accept[h] # Idle
    /\ accept' = [accept EXCEPT ![h] = Idle]
    /\ UNCHANGED <<org, plan, paid, member, invite, grace>>

-----------------------------------------------------------------------------
(* The seats' occupants, the plan and the organisation *)

\* assertActiveActor and assertCanManageMember.
CanManage(actor, t) ==
    /\ member[actor].life = "ACTIVE" /\ actor # t
    /\ member[t].life \in {"ACTIVE", "SUSPENDED", "REMOVED"}
    /\ \/ member[actor].role = "OWNER"
       \/ member[actor].role = "ADMIN" /\ member[t].role = "MEMBER"

\* suspendMember and removeMember leave the invitations they sent alone.
Deactivate(actor, t, life) ==
    /\ org
    /\ CanManage(actor, t)
    /\ member[t].life \in (IF life = "SUSPENDED" THEN {"ACTIVE"} ELSE {"ACTIVE", "SUSPENDED"})
    /\ member' = [member EXCEPT ![t].life = life]
    /\ UNCHANGED <<org, plan, paid, invite, accept, grace>>

\* reactivateMember needs a place beside the pending invitations.
Reactivate(actor, t) ==
    /\ org
    /\ CanManage(actor, t)
    /\ member[t].life = "SUSPENDED"
    /\ HasPlace(Seats)
    /\ member' = [member EXCEPT ![t].life = "ACTIVE"]
    /\ UNCHANGED <<org, plan, paid, invite, accept, grace>>

ChangeRole(actor, t, role) ==
    /\ org
    /\ CanManage(actor, t) /\ member[actor].role = "OWNER"
    /\ member[t].life = "ACTIVE"
    /\ role \in {"ADMIN", "MEMBER"} \ {member[t].role}
    /\ member' = [member EXCEPT ![t].role = role]
    /\ UNCHANGED <<org, plan, paid, invite, accept, grace>>

\* The address registers a charity of its own.
JoinElsewhere(e) ==
    /\ member[e].life = "ABSENT"
    /\ member' = [member EXCEPT ![e].life = "ELSEWHERE"]
    /\ UNCHANGED <<org, plan, paid, invite, accept, grace>>

\* Billing (external to this module) changes the plan without looking at seats.
ChangePlan ==
    /\ plan' = IF plan = "COMPLETE" THEN "ESSENTIALS" ELSE "COMPLETE"
    /\ grace' = IF plan = "COMPLETE" THEN Seats ELSE 0
    /\ UNCHANGED <<org, paid, member, invite, accept>>

ChangeAccess ==
    /\ paid' = ~paid
    /\ UNCHANGED <<org, plan, member, invite, accept, grace>>

OrganisationTransition ==
    /\ org' = ~org
    /\ UNCHANGED <<plan, paid, member, invite, accept, grace>>

-----------------------------------------------------------------------------
Next ==
    \/ \E i \in Invite, a, e \in Email, role \in {"ADMIN", "MEMBER"} :
         CreateInvite(i, a, e, role)
    \/ \E a, e \in Email, role \in {"ADMIN", "MEMBER"} : InviteKnown(a, e, role)
    \/ \E i \in Invite, a \in Email : ReissueLink(i, a) \/ Revoke(i, a)
    \/ \E i \in Invite : Expire(i)
    \/ \E h \in Handler, i \in Invite : Present(h, i)
    \/ \E h \in Handler : AcceptInvite(h) \/ AcceptRefused(h)
    \/ \E a, t \in Email, life \in {"SUSPENDED", "REMOVED"} : Deactivate(a, t, life)
    \/ \E a, t \in Email : Reactivate(a, t)
    \/ \E a, t \in Email, role \in {"ADMIN", "MEMBER"} : ChangeRole(a, t, role)
    \/ \E e \in Email : JoinElsewhere(e)
    \/ ChangePlan \/ ChangeAccess \/ OrganisationTransition

Spec == Init /\ [][Next]_vars

-----------------------------------------------------------------------------
(* Safety *)

\* On the limited plan the active members and the places reserved by pending
\* invitations together fit the limit, or do not exceed what was taken when the
\* plan was lowered: invitation, acceptance, reissue, expiry and reactivation
\* never oversell it between them (assertCanAddTeamMember counts pending
\* invitations for invite and for reactivateMember, but not for acceptInvite).
SeatsWithinPlan ==
    plan = "ESSENTIALS" => Seats <= Limit \/ Seats <= grace

\* An accepted invitation was accepted with its latest link: a link replaced by
\* reissueLink while its acceptance was hashing the password is dead.
AcceptedByLatestLink ==
    \A i \in Invite : invite[i].status = "ACCEPTED" => invite[i].via = invite[i].token

\* At most one invitation per address is neither accepted nor revoked, expired
\* ones included, so the partial unique index TeamInvite_active_email_unique
\* never has to refuse one; and a member, suspended or removed ones included,
\* has none: no old link brings a removed person back or makes a second account.
NoLeftoverInvite ==
    \A i \in Invite : Pending(i) =>
        /\ member[invite[i].email].life \in {"ABSENT", "ELSEWHERE"}
        /\ \A j \in Invite : Pending(j) /\ invite[i].email = invite[j].email => i = j
=============================================================================
