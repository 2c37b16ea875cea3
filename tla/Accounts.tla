------------------------------ MODULE Accounts ------------------------------
(***************************************************************************)
(* The accounts of one charity and the sessions signed in under them:      *)
(* apps/api/src/services/session-tokens.ts (issue, rotate, log out),       *)
(* auth.service.ts (login, verifyEmail), password-recovery.service.ts      *)
(* (change and reset of a password), team-lifecycle.service.ts (what the   *)
(* owner and admins do to members), team.service.ts (acceptInvite) and     *)
(* jobs/recover-team-ownership.ts.                                         *)
(*                                                                         *)
(* A READ COMMITTED transaction is one action: it locks the organisation,  *)
(* then the user, then the session rows (module SessionLocks checks that   *)
(* this order makes it atomic).  What is read BEFORE it opens, and used    *)
(* inside it, is kept in a handler's `request`, so anything may happen     *)
(* between the read and the commit:                                        *)
(*   login           the password hash bcrypt compared and the role read   *)
(*   changePassword  the password hash bcrypt compared                     *)
(*   team management the membership version the administrator reviewed     *)
(* transferOwnership, the ownership recovery and the operator's password   *)
(* reset are SERIALIZABLE: they are two actions, because everything they   *)
(* read and write is what their first statement's snapshot holds, and the  *)
(* locks they wait for come after it.  They fail if a row they lock or     *)
(* write has changed since (40001); a login that only locks their users is *)
(* no such change, and the session it inserts is not in their snapshot.    *)
(* A refused or abandoned request leaves the database alone: Abandon.      *)
(* A session that has passed expiresAt is refused wherever it is used and  *)
(* nothing else; that refusal is Abandon or a step not taken.              *)
(***************************************************************************)
EXTENDS Naturals

CONSTANTS
    User,         \* accounts of the organisation, existing or still to join
    Session,      \* AuthSession ids
    Handler,      \* concurrent API requests and operator commands
    Posture,      \* clientKind / accessLevel / dataScope of a session
    WebPosture,   \* WEB_SESSION_POSTURE
    Owner,        \* the account that registered the organisation
    MaxVersion,   \* bound on membershipVersion
    MaxPassword   \* bound on the password hashes an account goes through

ASSUME OwnerAssumption == Owner \in User
ASSUME PostureAssumption == WebPosture \in Posture
ASSUME BoundAssumption == MaxVersion \in Nat /\ MaxPassword \in Nat

VARIABLES
    org,       \* Organisation.lifecycleStatus
    user,      \* the User rows
    session,   \* the AuthSession rows
    request,   \* what each handler has read before it commits
    replayed   \* families with a SESSION_REPLAY_DETECTED audit event

vars == <<org, user, session, request, replayed>>

-----------------------------------------------------------------------------
Role == {"OWNER", "ADMIN", "MEMBER"}

\* "ABSENT": the row does not exist yet.
UserLifecycle == {"ABSENT", "ACTIVE", "SUSPENDED", "REMOVED"}

\* passwordHash is a freshly salted bcrypt hash on every change, so the hashes
\* of one account are numbered: equal numbers, equal hashes.
UserRow == [role: Role, life: UserLifecycle, version: Nat, pwd: Nat,
            verified: BOOLEAN]

\* "NONE": no such row.  Of the revocation reasons only ROTATED is told apart
\* from the rest, which are all "REVOKED".  A family is named by the session
\* that founded it.  The rest is history: the password hash the family was
\* established under, whether its user was then the owner, and whether it was
\* established while a serializable command on its user was under way (raced).
SessionStatus == {"NONE", "LIVE", "ROTATED", "REVOKED"}
SessionRow == [status: SessionStatus, user: User, family: Session,
               posture: Posture, pwd: Nat, owner: BOOLEAN, raced: BOOLEAN]

Idle == [op |-> "idle"]
LoginRequest  == [op: {"login"}, user: User, pwd: Nat, role: Role,
                  posture: Posture]
ChangeRequest == [op: {"change"}, user: User, pwd: Nat, session: Session]
\* life and role are what the administrator saw beside the version.
ManageRequest == [op: {"manage"}, actor: User, actorVersion: Nat,
                  target: User, version: Nat, role: Role, life: UserLifecycle]
\* The snapshot of a serializable command: the rows of its two users (the
\* same one for a reset), their live sessions, and whether the organisation
\* row has changed since.
SerialOp == {"transfer", "recover", "reset"}
SerialRequest == [op: SerialOp, from: User, to: User, rows: UserRow \X UserRow,
                  seen: SUBSET Session, moved: BOOLEAN]
Request == {Idle} \cup LoginRequest \cup ChangeRequest \cup ManageRequest
                  \cup SerialRequest

\* The account, session and request tables keep their types.
TypeOK ==
    /\ org \in {"ACTIVE", "SUSPENDED", "CLOSED"}
    /\ user \in [User -> UserRow]
    /\ session \in [Session -> SessionRow]
    /\ request \in [Handler -> Request]
    /\ replayed \in SUBSET Session

-----------------------------------------------------------------------------
\* A registered organisation: its owner exists, unverified, with no session.
Init ==
    /\ org = "ACTIVE"
    /\ user = [u \in User |->
                 [role |-> IF u = Owner THEN "OWNER" ELSE "MEMBER",
                  life |-> IF u = Owner THEN "ACTIVE" ELSE "ABSENT",
                  version |-> 1, pwd |-> 1, verified |-> FALSE]]
    /\ session = [s \in Session |->
                    [status |-> "NONE", user |-> Owner, family |-> s,
                     posture |-> WebPosture, pwd |-> 1, owner |-> FALSE,
                     raced |-> FALSE]]
    /\ request = [h \in Handler |-> Idle]
    /\ replayed = {}

Live(s) == session[s].status = "LIVE"
Family(f) == {s \in Session : session[s].status # "NONE" /\ session[s].family = f}
SessionsOf(u) == {s \in Session : session[s].status # "NONE" /\ session[s].user = u}

\* What lockActivePrincipal and every lifecycle transaction require.
ActivePrincipal(u) == org = "ACTIVE" /\ user[u].life = "ACTIVE"

\* Mutant: a reason the AuthSession row does not have is written.
RevokeLiveUnknown(S) ==
    [s \in Session |-> IF s \in S /\ Live(s) THEN [session[s] EXCEPT !.status = "EXPIRED"]
                                             ELSE session[s]]

\* updateMany({ where: { ..., revokedAt: null } }): revoked rows are immutable.
RevokeLive(S) ==
    [s \in Session |-> IF s \in S /\ Live(s)
                         THEN [session[s] EXCEPT !.status = "REVOKED"]
                         ELSE session[s]]

\* Mutant: only a change of role moves the version.
MemberRoleOnly(u, role, life) ==
    [user[u] EXCEPT !.role = role, !.life = life,
                    !.version = IF role = user[u].role THEN @ ELSE @ + 1]

\* The membership trigger: the version moves with the role or the lifecycle.
Member(u, role, life) ==
    [user[u] EXCEPT !.role = role, !.life = life, !.version = @ + 1]

Serial(h) == request[h].op \in SerialOp
UnderWay(u) ==
    \E h \in Handler : Serial(h) /\ u \in {request[h].from, request[h].to}

\* authSession.create with a new familyId.
NewFamily(s, u, posture, pwd, owner) ==
    [session EXCEPT ![s] = [status |-> "LIVE", user |-> u, family |-> s,
                            posture |-> posture, pwd |-> pwd, owner |-> owner,
                            raced |-> UnderWay(u)]]

Free(s) == session[s].status = "NONE"
IsOp(h, op) == request[h].op = op
Finish(h) == request' = [request EXCEPT ![h] = Idle]

\* The handler refuses, the client goes away or the process dies.
Abandon(h) ==
    /\ request[h] # Idle
    /\ Finish(h)
    /\ UNCHANGED <<org, user, session, replayed>>

-----------------------------------------------------------------------------
(* Signing in, refreshing, signing out *)

\* login up to the session transaction: the right password was presented.
LoginVerify(h, u, posture) ==
    /\ request[h] = Idle
    /\ ActivePrincipal(u)
    /\ request' = [request EXCEPT ![h] =
                     [op |-> "login", user |-> u, pwd |-> user[u].pwd,
                      role |-> user[u].role, posture |-> posture]]
    /\ UNCHANGED <<org, user, session, replayed>>

\* Mutant: the transaction trusts the password that login read before it.
LoginIssueStale(h, s) ==
    /\ IsOp(h, "login")
    /\ Free(s)
    /\ LET r == request[h] IN
         /\ ActivePrincipal(r.user)
         /\ user[r.user].role = r.role
         /\ session' = NewFamily(s, r.user, r.posture, r.pwd, r.role = "OWNER")
    /\ Finish(h)
    /\ UNCHANGED <<org, user, replayed>>

\* issueLoginSessionTokens: the transaction re-checks the verified credential.
\* A failed second factor is a refusal.
LoginIssue(h, s) ==
    /\ IsOp(h, "login")
    /\ Free(s)
    /\ LET r == request[h] IN
         /\ ActivePrincipal(r.user)
         /\ user[r.user].pwd = r.pwd
         /\ user[r.user].role = r.role
         /\ session' = NewFamily(s, r.user, r.posture, r.pwd, r.role = "OWNER")
    /\ Finish(h)
    /\ UNCHANGED <<org, user, replayed>>

\* Mutant: the old row is not revoked.
RefreshKeepsOld(s, next) ==
    /\ Live(s)
    /\ ActivePrincipal(session[s].user)
    /\ Free(next)
    /\ session' = [session EXCEPT ![next] = session[s]]
    /\ UNCHANGED <<org, user, request, replayed>>

\* rotateSessionTokens with a live token.
Refresh(s, next) ==
    /\ Live(s)
    /\ ActivePrincipal(session[s].user)
    /\ Free(next)
    /\ session' = [session EXCEPT ![s].status = "ROTATED",
                                  ![next] = session[s]]
    /\ UNCHANGED <<org, user, request, replayed>>

\* Mutant: only the replayed token is revoked.
RefreshReplayOne(s) ==
    /\ session[s].status \in {"ROTATED", "REVOKED"}
    /\ ActivePrincipal(session[s].user)
    /\ session' = RevokeLive({s})
    /\ replayed' = replayed \cup {session[s].family}
    /\ UNCHANGED <<org, user, request>>

\* rotateSessionTokens with a token already revoked: the family is quarantined
\* and the replay audited in the same transaction.
RefreshReplay(s) ==
    /\ session[s].status \in {"ROTATED", "REVOKED"}
    /\ ActivePrincipal(session[s].user)
    /\ session' = RevokeLive(Family(session[s].family))
    /\ replayed' = replayed \cup {session[s].family}
    /\ UNCHANGED <<org, user, request>>

\* revokeSessionToken: logout ends the family, whichever of its tokens is shown.
Logout(s) ==
    /\ session[s].status # "NONE"
    /\ session' = RevokeLive(Family(session[s].family))
    /\ UNCHANGED <<org, user, request, replayed>>

\* authenticateRequest: a live session of an active, verified principal.
Authenticated(s) ==
    /\ Live(s)
    /\ ActivePrincipal(session[s].user)
    /\ user[session[s].user].verified

\* verifyEmail: the check and the consuming update are one compare-and-set.
VerifyEmail(u) ==
    /\ ActivePrincipal(u)
    /\ ~user[u].verified
    /\ user' = [user EXCEPT ![u].verified = TRUE]
    /\ UNCHANGED <<org, session, request, replayed>>

-----------------------------------------------------------------------------
(* Passwords *)

\* changePassword up to its transaction: the current password was presented.
ChangeVerify(h, s) ==
    /\ request[h] = Idle
    /\ Authenticated(s)
    /\ request' = [request EXCEPT ![h] =
                     [op |-> "change", user |-> session[s].user,
                      pwd |-> user[session[s].user].pwd, session |-> s]]
    /\ UNCHANGED <<org, user, session, replayed>>

\* The hash changes and every session is revoked.
ReplacePassword(u) ==
    /\ user[u].pwd < MaxPassword
    /\ user' = [user EXCEPT ![u].pwd = @ + 1]
    /\ session' = RevokeLive(SessionsOf(u))

\* The transaction of changePassword.
ChangeCommit(h) ==
    /\ IsOp(h, "change")
    /\ LET r == request[h] IN
         /\ ActivePrincipal(r.user)
         /\ user[r.user].pwd = r.pwd
         /\ Live(r.session)
         /\ ReplacePassword(r.user)
    /\ Finish(h)
    /\ UNCHANGED <<org, replayed>>

\* resetPassword with a link: any active account may have asked for one
\* (module PasswordRecovery follows the links).
ResetPassword(u) ==
    /\ ActivePrincipal(u)
    /\ ReplacePassword(u)
    /\ UNCHANGED <<org, request, replayed>>

-----------------------------------------------------------------------------
(* Serializable commands *)

\* The first statement: from here on the command sees nothing newer.
TakeSnapshot(h, op, from, to) ==
    request' = [request EXCEPT ![h] =
      [op |-> op, from |-> from, to |-> to, rows |-> <<user[from], user[to]>>,
       seen |-> {s \in SessionsOf(from) \cup SessionsOf(to) : Live(s)},
       moved |-> FALSE]]

\* No row that the command locks or writes has changed since: otherwise the
\* database fails it with 40001 (Abandon, or for a transfer RetryTransfer).
Undisturbed(h) ==
    LET r == request[h] IN
      /\ ~r.moved
      /\ r.rows = <<user[r.from], user[r.to]>>
      /\ \A s \in r.seen : Live(s)

\* resetPersonalServerPassword needs no link ...
OperatorResetBegin(h, u) ==
    /\ request[h] = Idle
    /\ ActivePrincipal(u)
    /\ user[u].pwd < MaxPassword
    /\ TakeSnapshot(h, "reset", u, u)
    /\ UNCHANGED <<org, user, session, replayed>>

\* ... and revokes the sessions of its snapshot.
OperatorReset(h) ==
    /\ IsOp(h, "reset")
    /\ Undisturbed(h)
    /\ user' = [user EXCEPT ![request[h].to].pwd = @ + 1]
    /\ session' = RevokeLive(request[h].seen)
    /\ Finish(h)
    /\ UNCHANGED <<org, replayed>>

-----------------------------------------------------------------------------
(* Team management *)

\* The administrator's page shows target at its current version.
Review(h, s, target) ==
    /\ request[h] = Idle
    /\ Authenticated(s)
    /\ user[target].life # "ABSENT"
    /\ LET actor == session[s].user IN
         request' = [request EXCEPT ![h] =
           [op |-> "manage", actor |-> actor, actorVersion |-> user[actor].version,
            target |-> target, version |-> user[target].version,
            role |-> user[target].role, life |-> user[target].life]]
    /\ UNCHANGED <<org, user, session, replayed>>

\* Mutant: an admin may act on anyone else.
CanManageAnyone(a, t) == a # t /\ user[a].role \in {"OWNER", "ADMIN"}

CanManageMember(a, t) ==
    /\ a # t
    /\ user[t].role # "OWNER"
    /\ \/ user[a].role = "OWNER"
       \/ user[a].role = "ADMIN" /\ user[t].role = "MEMBER"

CanInspectSessions(a, t) ==
    \/ a = t
    \/ user[a].role = "OWNER" /\ user[t].role # "OWNER"
    \/ user[a].role = "ADMIN" /\ user[t].role = "MEMBER"

\* lockOrganisation, lockUsers, assertActiveActor and assertExpectedVersion.
Reviewed(h) ==
    /\ IsOp(h, "manage")
    /\ ActivePrincipal(request[h].actor)
    /\ user[request[h].target].version = request[h].version

CanBump(u) == user[u].version < MaxVersion

\* transitionToInactive: suspendMember and removeMember.
Deactivate(h, life) ==
    /\ Reviewed(h)
    /\ LET t == request[h].target IN
         /\ CanManageMember(request[h].actor, t)
         /\ CASE life = "SUSPENDED" -> user[t].life = "ACTIVE"
              [] life = "REMOVED"   -> user[t].life # "REMOVED"
         /\ CanBump(t)
         /\ user' = [user EXCEPT ![t] = Member(t, user[t].role, life)]
              /\ session' = RevokeLive(SessionsOf(t))
    /\ Finish(h)
    /\ UNCHANGED <<org, replayed>>

\* changeMemberRole.  Sessions stay: authenticateRequest reads the role anew.
ChangeRole(h, role) ==
    /\ Reviewed(h)
    /\ LET t == request[h].target IN
         /\ user[request[h].actor].role = "OWNER"
         /\ request[h].actor # t
         /\ user[t].role # "OWNER" /\ role # "OWNER"
         /\ user[t].life = "ACTIVE"
         /\ role # user[t].role
         /\ CanBump(t)
         /\ user' = [user EXCEPT ![t] = Member(t, role, user[t].life)]
    /\ Finish(h)
    /\ UNCHANGED <<org, session, replayed>>

\* Mutant: any inactive member may come back.
ReactivateAny(h) ==
    /\ Reviewed(h)
    /\ LET t == request[h].target IN
         /\ CanManageMember(request[h].actor, t)
         /\ user[t].life # "ACTIVE"
         /\ CanBump(t)
         /\ user' = [user EXCEPT ![t] = Member(t, user[t].role, "ACTIVE")]
    /\ Finish(h)
    /\ UNCHANGED <<org, session, replayed>>

\* reactivateMember: the subscription and seat checks may refuse (TeamInvites).
Reactivate(h) ==
    /\ Reviewed(h)
    /\ LET t == request[h].target IN
         /\ CanManageMember(request[h].actor, t)
         /\ user[t].life = "SUSPENDED"
         /\ CanBump(t)
         /\ user' = [user EXCEPT ![t] = Member(t, user[t].role, "ACTIVE")]
    /\ Finish(h)
    /\ UNCHANGED <<org, session, replayed>>

\* What transfer and recovery require of the two.
MayMoveOwnership(from, to) ==
    /\ org = "ACTIVE"
    /\ user[from].role = "OWNER" /\ user[from].life = "ACTIVE"
    /\ from # to
    /\ user[to].life = "ACTIVE" /\ user[to].verified
    /\ user[to].role # "OWNER"
    /\ CanBump(from) /\ CanBump(to)

\* transferOwnership: both versions are the reviewed ones; the billing
\* interlock may refuse.
TransferBegin(h) ==
    /\ Reviewed(h)
    /\ LET r == request[h] IN
         /\ user[r.actor].version = r.actorVersion
         /\ MayMoveOwnership(r.actor, r.target)
         /\ TakeSnapshot(h, "transfer", r.actor, r.target)
    /\ UNCHANGED <<org, user, session, replayed>>

\* After a conflict the transfer starts again, with the versions it was given.
RetryTransfer(h) ==
    /\ IsOp(h, "transfer")
    /\ ~Undisturbed(h)
    /\ LET r == request[h] IN
         /\ user[r.from].version = r.rows[1].version
         /\ user[r.to].version = r.rows[2].version
         /\ MayMoveOwnership(r.from, r.to)
         /\ TakeSnapshot(h, "transfer", r.from, r.to)
    /\ UNCHANGED <<org, user, session, replayed>>

\* executeOwnershipRecovery: support names the current owner, the target and
\* (only to be refused) the versions it reviewed in a dry run.
RecoverBegin(h, from, to) ==
    /\ request[h] = Idle
    /\ MayMoveOwnership(from, to)
    /\ TakeSnapshot(h, "recover", from, to)
    /\ UNCHANGED <<org, user, session, replayed>>

\* The commit of either: demote, promote, and end the sessions of both that
\* its snapshot holds.
MoveOwnership(h) ==
    /\ request[h].op \in {"transfer", "recover"}
    /\ Undisturbed(h)
    /\ LET from == request[h].from
           to == request[h].to
       IN /\ user' = [user EXCEPT ![from] = Member(from, "ADMIN", "ACTIVE"),
                                  ![to] = Member(to, "OWNER", "ACTIVE")]
          /\ session' = RevokeLive(request[h].seen)
    /\ Finish(h)
    /\ UNCHANGED <<org, replayed>>

\* revokeSessionFamily of the team service.
RevokeFamily(h, f) ==
    /\ Reviewed(h)
    /\ CanInspectSessions(request[h].actor, request[h].target)
    /\ LET fam == Family(f) \cap SessionsOf(request[h].target) IN
         /\ \E s \in fam : Live(s)
         /\ session' = RevokeLive(fam)
    /\ Finish(h)
    /\ UNCHANGED <<org, user, replayed>>

\* revokeAllSessions of the team service.
RevokeAll(h) ==
    /\ Reviewed(h)
    /\ CanInspectSessions(request[h].actor, request[h].target)
    /\ \E s \in SessionsOf(request[h].target) : Live(s)
    /\ session' = RevokeLive(SessionsOf(request[h].target))
    /\ Finish(h)
    /\ UNCHANGED <<org, user, replayed>>

\* acceptInvite: the new member is created verified and signed in.
AcceptInvite(u, role, s) ==
    /\ org = "ACTIVE"
    /\ user[u].life = "ABSENT"
    /\ role # "OWNER"
    /\ Free(s)
    /\ user' = [user EXCEPT ![u] = [role |-> role, life |-> "ACTIVE",
                                    version |-> 1, pwd |-> 1, verified |-> TRUE]]
    /\ session' = NewFamily(s, u, WebPosture, 1, FALSE)
    /\ UNCHANGED <<org, request, replayed>>

\* A lifecycle change the organisation trigger accepts.  No session is touched;
\* serializable commands that lock the row and have begun can only fail.
OrganisationTransition(status) ==
    /\ org # "CLOSED"
    /\ status \in {"ACTIVE", "SUSPENDED", "CLOSED"} \ {org}
    /\ org' = status
    /\ request' = [h \in Handler |-> IF Serial(h) THEN [request[h] EXCEPT !.moved = TRUE]
                                                  ELSE request[h]]
    /\ UNCHANGED <<user, session, replayed>>

-----------------------------------------------------------------------------
SignIn ==
    \/ \E h \in Handler, u \in User, p \in Posture : LoginVerify(h, u, p)
    \/ \E h \in Handler, s \in Session : LoginIssue(h, s)
    \/ \E s, next \in Session : Refresh(s, next)
    \/ \E s \in Session : RefreshReplay(s) \/ Logout(s)
    \/ \E u \in User : VerifyEmail(u)

Passwords ==
    \/ \E h \in Handler, s \in Session : ChangeVerify(h, s)
    \/ \E h \in Handler : ChangeCommit(h) \/ OperatorReset(h)
    \/ \E u \in User : ResetPassword(u)
    \/ \E h \in Handler, u \in User : OperatorResetBegin(h, u)

Team ==
    \/ \E h \in Handler, s \in Session, t \in User : Review(h, s, t)
    \/ \E h \in Handler, life \in {"SUSPENDED", "REMOVED"} : Deactivate(h, life)
    \/ \E h \in Handler, role \in Role : ChangeRole(h, role)
    \/ \E h \in Handler : \/ Reactivate(h) \/ RevokeAll(h)
                          \/ TransferBegin(h) \/ RetryTransfer(h) \/ MoveOwnership(h)
    \/ \E h \in Handler, from, to \in User : RecoverBegin(h, from, to)
    \/ \E h \in Handler, f \in Session : RevokeFamily(h, f)
    \/ \E u \in User, role \in Role, s \in Session : AcceptInvite(u, role, s)

Next ==
    \/ SignIn
    \/ Passwords
    \/ Team
    \/ \E h \in Handler : Abandon(h)
    \/ \E status \in {"ACTIVE", "SUSPENDED", "CLOSED"} : OrganisationTransition(status)

Spec == Init /\ [][Next]_vars

-----------------------------------------------------------------------------
(* Safety *)

\* "A concurrent password reset ... either commits first and prevents issuance,
\* or waits for issuance and then revokes the newly-created session"
\* (session-tokens.ts): every live session was established under the password
\* its user has now.  The operator's reset does not keep it.
LiveUnderCurrentPassword ==
    \A s \in Session : Live(s) => session[s].pwd = user[session[s].user].pwd

\* What a live session lives by, whatever login, refresh, page or command was
\* in flight: its account is active; and unless it was established while a
\* serializable command on that account was under way, it was established
\* under the current password, and by the owner exactly if its user is the
\* owner now (no session outlives a change of ownership on either side).
LiveSessionIsCurrent ==
    \A s \in Session : Live(s) =>
        LET u == user[session[s].user] IN
          /\ u.life = "ACTIVE"
          /\ session[s].raced \/ /\ session[s].pwd = u.pwd
                                 /\ session[s].owner = (u.role = "OWNER")

\* Every session family has exactly one row that was not rotated away.  So at
\* most one of its tokens can be refreshed, and once any of them was revoked
\* (logout, quarantine, password, lifecycle) none of the family ever can be.
OneHeadPerFamily ==
    \A s \in Session : session[s].status # "NONE" =>
        \E head \in Family(session[s].family) :
            \A x \in Family(session[s].family) :
                session[x].status # "ROTATED" <=> x = head

\* A family with a replay audit event has no live session: quarantine and its
\* evidence are one transaction, and no later refresh revives the family.
ReplayedFamilyIsDead ==
    \A f \in replayed : \A s \in Family(f) : ~Live(s)

\* Exactly one active owner, through transfer, recovery, suspension and removal.
OneActiveOwner ==
    \E o \in User : \A u \in User :
        (user[u].role = "OWNER" /\ user[u].life = "ACTIVE") <=> u = o

\* A management request whose expected version still matches is applied to the
\* very role and lifecycle its administrator reviewed (optimistic concurrency
\* on membershipVersion).
VersionPinsReview ==
    \A h \in Handler : IsOp(h, "manage") =>
        LET r == request[h] IN
          r.version = user[r.target].version =>
            r.role = user[r.target].role /\ r.life = user[r.target].life

\* Refresh mints a new row every time; the family keeps its user and its
\* posture through all of them, so a narrowed connector session cannot come
\* back as a browser session.
FamilyKeepsPosture ==
    \A s, x \in Session :
        (session[s].status # "NONE" /\ session[x].status # "NONE" /\
         session[s].family = session[x].family) =>
            session[s].user = session[x].user /\ session[s].posture = session[x].posture

\* What holds a session family together: one token at most can be refreshed,
\* none once a replay was seen, and all rows have the same user and posture.
FamiliesSound == OneHeadPerFamily /\ ReplayedFamilyIsDead /\ FamilyKeepsPosture

\* Revocation evidence is immutable: whatever is revoked after it (quarantine,
\* logout, lifecycle) rewrites no row that was already rotated or revoked.
RevocationIsFinal ==
    [][\A s \in Session : session[s].status \in {"ROTATED", "REVOKED"} =>
         session'[s] = session[s]]_vars

\* REMOVED is terminal: no sequence of reviews, reactivations and transfers
\* brings a removed membership back or changes its role.
RemovedIsTerminal ==
    [][\A u \in User : user[u].life = "REMOVED" =>
         user'[u].life = "REMOVED" /\ user'[u].role = user[u].role]_vars
=============================================================================
