-------------------------- MODULE Accounts_proofs ---------------------------
(***************************************************************************)
(* The theorems about Accounts, for every set of users, sessions, request  *)
(* handlers and postures and every bound.  Five inductive invariants carry *)
(* them, each beside TypeOK:                                               *)
(*   Snapshots       what a serializable command has seen                  *)
(*   Agreement       a live session agrees with its account                *)
(*   Families        a family is founded, has one head, and dies once      *)
(*   Reviews         an outstanding review is never ahead of its target    *)
(*   OneActiveOwner  inductive as it stands                                *)
(***************************************************************************)
EXTENDS Accounts, TLAPS

\* Revoking live rows keeps every row a session row.
LEMMA RevokeLiveType ==
    ASSUME TypeOK, NEW S
    PROVE  RevokeLive(S) \in [Session -> SessionRow]
BY DEF TypeOK, RevokeLive, Live, SessionRow, SessionStatus

\* A new family's founding row is a session row.
LEMMA NewFamilyType ==
    ASSUME TypeOK, NEW s \in Session, NEW u \in User, NEW p \in Posture,
           NEW pwd \in Nat, NEW owner \in BOOLEAN
    PROVE  NewFamily(s, u, p, pwd, owner) \in [Session -> SessionRow]
<1>1. UnderWay(u) \in BOOLEAN
  BY DEF UnderWay
<1> QED
  BY <1>1 DEF TypeOK, NewFamily, SessionRow, SessionStatus

\* The kind of a request decides what it carries.
LEMMA RequestType ==
    ASSUME TypeOK, NEW h \in Handler
    PROVE  /\ IsOp(h, "login") => request[h] \in LoginRequest
           /\ IsOp(h, "change") => request[h] \in ChangeRequest
           /\ IsOp(h, "manage") => request[h] \in ManageRequest
           /\ Serial(h) => request[h] \in SerialRequest
<1>1. request[h] \in Request
  BY DEF TypeOK
<1> QED
  BY <1>1 DEF IsOp, Serial, SerialOp, Request, Idle, LoginRequest, ChangeRequest,
              ManageRequest, SerialRequest

\* Finishing a request leaves a request table.
LEMMA FinishType ==
    ASSUME TypeOK, NEW h \in Handler, Finish(h)
    PROVE  request' \in [Handler -> Request]
BY DEF TypeOK, Finish, Request

\* A lifecycle or role change leaves a User row.
LEMMA MemberType ==
    ASSUME TypeOK, NEW u \in User, NEW role \in Role, NEW life \in UserLifecycle
    PROVE  Member(u, role, life) \in UserRow
<1> DEFINE r == user[u]
           q == [user[u] EXCEPT !.role = role, !.life = life]
<1>1. r \in UserRow
  BY DEF TypeOK
<1>2. q \in UserRow
  BY <1>1 DEF UserRow
<1>3. q.version = r.version /\ r.version + 1 \in Nat
  BY <1>1 DEF UserRow
<1>4. [q EXCEPT !.version = @ + 1] \in UserRow
  BY <1>2, <1>3 DEF UserRow
<1> QED
  BY <1>4, <1>3 DEF Member

\* Types after any replacement of a password.
LEMMA ReplacePasswordType ==
    ASSUME TypeOK, NEW u \in User, ReplacePassword(u)
    PROVE  /\ user' \in [User -> UserRow]
           /\ session' \in [Session -> SessionRow]
<1>1. [user[u] EXCEPT !.pwd = @ + 1] \in UserRow
  BY DEF TypeOK, UserRow
<1> QED
  BY <1>1, RevokeLiveType DEF TypeOK, ReplacePassword

\* A command's snapshot is a request.
LEMMA SnapshotType ==
    ASSUME TypeOK, NEW h \in Handler, NEW op \in SerialOp, NEW from \in User,
           NEW to \in User, TakeSnapshot(h, op, from, to)
    PROVE  request' \in [Handler -> Request]
<1> DEFINE seen == {s \in SessionsOf(from) \cup SessionsOf(to) : Live(s)}
           r == [op |-> op, from |-> from, to |-> to, rows |-> <<user[from], user[to]>>,
                 seen |-> seen, moved |-> FALSE]
<1>1. user[from] \in UserRow /\ user[to] \in UserRow
  BY DEF TypeOK
<1>2. <<user[from], user[to]>> \in UserRow \X UserRow
  BY <1>1
<1>3. seen \in SUBSET Session
  BY DEF SessionsOf
<1> HIDE DEF seen
<1>4. r \in SerialRequest
  BY <1>2, <1>3 DEF SerialRequest
<1>5. r \in Request
  BY <1>4 DEF Request
<1>6. request' = [request EXCEPT ![h] = r]
  BY DEF TakeSnapshot, seen
<1> QED
  BY <1>5, <1>6 DEF TypeOK

\* What a command is about.
LEMMA SerialUsers ==
    ASSUME TypeOK, NEW h \in Handler, Serial(h)
    PROVE  /\ request[h].from \in User /\ request[h].to \in User
           /\ request[h].seen \in SUBSET Session
BY RequestType DEF SerialRequest

\* Types after the commit of a transfer or a recovery of ownership.
LEMMA MoveOwnershipType ==
    ASSUME TypeOK, NEW h \in Handler, MoveOwnership(h)
    PROVE  TypeOK'
<1> DEFINE from == request[h].from
           to == request[h].to
<1>1. from \in User /\ to \in User
  BY SerialUsers DEF MoveOwnership, Serial, SerialOp
<1>2. Member(from, "ADMIN", "ACTIVE") \in UserRow /\ Member(to, "OWNER", "ACTIVE") \in UserRow
  BY <1>1, MemberType DEF Role, UserLifecycle
<1>3. user' \in [User -> UserRow]
  BY <1>1, <1>2 DEF TypeOK, MoveOwnership
<1> QED
  BY <1>3, RevokeLiveType, FinishType DEF TypeOK, MoveOwnership

\* ... and of an operator's reset.
LEMMA OperatorResetType ==
    ASSUME TypeOK, NEW h \in Handler, OperatorReset(h)
    PROVE  TypeOK'
<1> DEFINE u == request[h].to
<1>1. u \in User
  BY SerialUsers DEF OperatorReset, IsOp, Serial, SerialOp
<1>2. [user[u] EXCEPT !.pwd = @ + 1] \in UserRow
  BY <1>1 DEF TypeOK, UserRow
<1>3. user' \in [User -> UserRow]
  BY <1>1, <1>2 DEF TypeOK, OperatorReset
<1> QED
  BY <1>3, RevokeLiveType, FinishType DEF TypeOK, OperatorReset

\* Registration yields a well-typed state.
LEMMA TypeInit == Init => TypeOK
BY OwnerAssumption, PostureAssumption
   DEF Init, TypeOK, UserRow, Role, UserLifecycle, SessionRow, SessionStatus, Request

\* Every request, job and operator step keeps the types.
LEMMA TypeNext == TypeOK /\ [Next]_vars => TypeOK'
<1> SUFFICES ASSUME TypeOK, [Next]_vars PROVE TypeOK'
  OBVIOUS
<1>1. CASE SignIn
  <2>1. ASSUME NEW h \in Handler, NEW u \in User, NEW p \in Posture, LoginVerify(h, u, p)
        PROVE  TypeOK'
    <3>1. user[u] \in UserRow
      BY DEF TypeOK
    <3>2. [op |-> "login", user |-> u, pwd |-> user[u].pwd,
           role |-> user[u].role, posture |-> p] \in Request
      BY <3>1 DEF UserRow, Request, LoginRequest
    <3> QED
      BY <2>1, <3>2 DEF LoginVerify, TypeOK
  <2>2. ASSUME NEW h \in Handler, NEW s \in Session, LoginIssue(h, s)
        PROVE  TypeOK'
    <3>1. request[h] \in LoginRequest
      BY <2>2, RequestType DEF LoginIssue
    <3>2. session' \in [Session -> SessionRow]
      BY <2>2, <3>1, NewFamilyType DEF LoginIssue, LoginRequest
    <3> QED
      BY <2>2, <3>2, FinishType DEF LoginIssue, TypeOK
  <2>3. ASSUME NEW s \in Session, NEW next \in Session, Refresh(s, next)
        PROVE  TypeOK'
    <3>1. session' \in [Session -> SessionRow]
      BY <2>3 DEF Refresh, TypeOK, SessionRow, SessionStatus
    <3> QED
      BY <2>3, <3>1 DEF Refresh, TypeOK
  <2>4. ASSUME NEW s \in Session, RefreshReplay(s) \/ Logout(s)
        PROVE  TypeOK'
    <3>1. session[s].family \in Session
      BY DEF TypeOK, SessionRow
    <3> QED
      BY <2>4, <3>1, RevokeLiveType DEF RefreshReplay, Logout, TypeOK
  <2>5. ASSUME NEW u \in User, VerifyEmail(u)
        PROVE  TypeOK'
    <3>1. [user[u] EXCEPT !.verified = TRUE] \in UserRow
      BY DEF TypeOK, UserRow
    <3> QED
      BY <2>5, <3>1 DEF VerifyEmail, TypeOK
  <2> QED
    BY <1>1, <2>1, <2>2, <2>3, <2>4, <2>5 DEF SignIn
<1>2. CASE Passwords
  <2>1. ASSUME NEW h \in Handler, NEW s \in Session, ChangeVerify(h, s)
        PROVE  TypeOK'
    <3>1. session[s].user \in User
      BY DEF TypeOK, SessionRow
    <3>2. user[session[s].user].pwd \in Nat
      BY <3>1 DEF TypeOK, UserRow
    <3>3. [op |-> "change", user |-> session[s].user,
           pwd |-> user[session[s].user].pwd, session |-> s] \in Request
      BY <3>1, <3>2 DEF Request, ChangeRequest
    <3> QED
      BY <2>1, <3>3 DEF ChangeVerify, TypeOK
  <2>2. ASSUME NEW h \in Handler, ChangeCommit(h)
        PROVE  TypeOK'
    <3>1. request[h].user \in User /\ ReplacePassword(request[h].user)
      BY <2>2, RequestType DEF ChangeCommit, ChangeRequest
    <3> QED
      BY <2>2, <3>1, ReplacePasswordType, FinishType DEF ChangeCommit, TypeOK
  <2>3. ASSUME NEW u \in User, ResetPassword(u)
        PROVE  TypeOK'
    BY <2>3, ReplacePasswordType DEF ResetPassword, TypeOK
  <2>4. ASSUME NEW h \in Handler, NEW u \in User, OperatorResetBegin(h, u)
        PROVE  TypeOK'
    BY <2>4, SnapshotType DEF OperatorResetBegin, SerialOp, TypeOK
  <2> QED
    BY <1>2, <2>1, <2>2, <2>3, <2>4, OperatorResetType DEF Passwords
<1>3. CASE Team
  <2>1. ASSUME NEW h \in Handler, NEW s \in Session, NEW t \in User, Review(h, s, t)
        PROVE  TypeOK'
    <3> DEFINE a == session[s].user
    <3>1. a \in User
      BY DEF TypeOK, SessionRow
    <3>2. user[a] \in UserRow /\ user[t] \in UserRow
      BY <3>1 DEF TypeOK
    <3>3. [op |-> "manage", actor |-> a, actorVersion |-> user[a].version,
           target |-> t, version |-> user[t].version,
           role |-> user[t].role, life |-> user[t].life] \in Request
      BY <3>1, <3>2 DEF Request, ManageRequest, UserRow
    <3> QED
      BY <2>1, <3>3 DEF Review, TypeOK
  <2>2. ASSUME NEW h \in Handler, Reviewed(h)
        PROVE  request[h].actor \in User /\ request[h].target \in User
    BY <2>2, RequestType DEF Reviewed, ManageRequest
  <2>3. ASSUME NEW h \in Handler, NEW life \in {"SUSPENDED", "REMOVED"}, Deactivate(h, life)
        PROVE  TypeOK'
    <3> DEFINE t == request[h].target
    <3>1. t \in User /\ user[t].role \in Role
      BY <2>2, <2>3 DEF Deactivate, TypeOK, UserRow
    <3>2. Member(t, user[t].role, life) \in UserRow
      BY <3>1, MemberType DEF UserLifecycle
    <3> QED
      BY <2>3, <3>1, <3>2, RevokeLiveType, FinishType DEF Deactivate, TypeOK
  <2>4. ASSUME NEW h \in Handler, NEW role \in Role, ChangeRole(h, role)
        PROVE  TypeOK'
    <3> DEFINE t == request[h].target
    <3>1. t \in User /\ user[t].life \in UserLifecycle
      BY <2>2, <2>4 DEF ChangeRole, TypeOK, UserRow
    <3>2. Member(t, role, user[t].life) \in UserRow
      BY <3>1, MemberType
    <3> QED
      BY <2>4, <3>1, <3>2, FinishType DEF ChangeRole, TypeOK
  <2>5. ASSUME NEW h \in Handler, Reactivate(h)
        PROVE  TypeOK'
    <3> DEFINE t == request[h].target
    <3>1. t \in User /\ user[t].role \in Role
      BY <2>2, <2>5 DEF Reactivate, TypeOK, UserRow
    <3>2. Member(t, user[t].role, "ACTIVE") \in UserRow
      BY <3>1, MemberType DEF UserLifecycle
    <3> QED
      BY <2>5, <3>1, <3>2, FinishType DEF Reactivate, TypeOK
  <2>6. ASSUME NEW h \in Handler, TransferBegin(h) \/ RetryTransfer(h)
        PROVE  TypeOK'
    <3>1. CASE TransferBegin(h)
      BY <2>2, <3>1, SnapshotType DEF TransferBegin, SerialOp, TypeOK
    <3>2. CASE RetryTransfer(h)
      <4>1. request[h].from \in User /\ request[h].to \in User
        BY <3>2, SerialUsers DEF RetryTransfer, IsOp, Serial, SerialOp
      <4> QED
        BY <3>2, <4>1, SnapshotType DEF RetryTransfer, SerialOp, TypeOK
    <3> QED
      BY <2>6, <3>1, <3>2
  <2>7. ASSUME NEW h \in Handler, NEW from \in User, NEW to \in User, RecoverBegin(h, from, to)
        PROVE  TypeOK'
    BY <2>7, SnapshotType DEF RecoverBegin, SerialOp, TypeOK
  <2>8. ASSUME NEW h \in Handler, RevokeAll(h) \/ \E f \in Session : RevokeFamily(h, f)
        PROVE  TypeOK'
    BY <2>8, RevokeLiveType, FinishType DEF RevokeAll, RevokeFamily, TypeOK
  <2>9. ASSUME NEW u \in User, NEW role \in Role, NEW s \in Session, AcceptInvite(u, role, s)
        PROVE  TypeOK'
    <3>1. [role |-> role, life |-> "ACTIVE", version |-> 1, pwd |-> 1, verified |-> TRUE] \in UserRow
      BY DEF UserRow, UserLifecycle
    <3>2. session' \in [Session -> SessionRow]
      BY <2>9, NewFamilyType, PostureAssumption DEF AcceptInvite
    <3> QED
      BY <2>9, <3>1, <3>2 DEF AcceptInvite, TypeOK
  <2> QED
    BY <1>3, <2>1, <2>3, <2>4, <2>5, <2>6, <2>7, <2>8, <2>9, MoveOwnershipType DEF Team
<1>4. ASSUME NEW h \in Handler, Abandon(h)
      PROVE  TypeOK'
  BY <1>4, FinishType DEF Abandon, TypeOK
<1>5. ASSUME NEW status \in {"ACTIVE", "SUSPENDED", "CLOSED"}, OrganisationTransition(status)
      PROVE  TypeOK'
  <2>1. ASSUME NEW h \in Handler, Serial(h)
        PROVE  [request[h] EXCEPT !.moved = TRUE] \in Request
    <3>1. request[h] \in SerialRequest
      BY <2>1, RequestType
    <3>2. [request[h] EXCEPT !.moved = TRUE] \in SerialRequest
      BY <3>1 DEF SerialRequest
    <3> QED
      BY <3>2 DEF Request
  <2>2. request' \in [Handler -> Request]
    BY <1>5, <2>1 DEF OrganisationTransition, TypeOK
  <2> QED
    BY <1>5, <2>2 DEF OrganisationTransition, TypeOK
<1>6. CASE UNCHANGED vars
  BY <1>6 DEF vars, TypeOK
<1> QED
  BY <1>1, <1>2, <1>3, <1>4, <1>5, <1>6 DEF Next

\* Type correctness of the whole module.
THEOREM TypeCorrect == Spec => []TypeOK
<1> QED
  BY TypeInit, TypeNext, PTL DEF Spec

-----------------------------------------------------------------------------
(* How the session table moves *)

\* updateMany of live rows: only live rows change, and only their status.
LEMMA RevokeLiveEffect ==
    ASSUME TypeOK, NEW S, session' = RevokeLive(S), NEW x \in Session
    PROVE  /\ session'[x].user = session[x].user
           /\ session'[x].family = session[x].family
           /\ session'[x].posture = session[x].posture
           /\ session'[x].pwd = session[x].pwd
           /\ session'[x].owner = session[x].owner
           /\ session'[x].raced = session[x].raced
           /\ session'[x].status = IF x \in S /\ Live(x) THEN "REVOKED" ELSE session[x].status
           /\ ~Live(x) => session'[x] = session[x]
BY DEF TypeOK, RevokeLive, Live, SessionRow

\* authSession.create of a new family touches one row.
LEMMA NewFamilyEffect ==
    ASSUME TypeOK, NEW s \in Session, NEW u, NEW p, NEW pwd, NEW owner,
           session' = NewFamily(s, u, p, pwd, owner)
    PROVE  /\ session'[s].status = "LIVE"
           /\ session'[s].user = u
           /\ session'[s].family = s
           /\ session'[s].posture = p
           /\ session'[s].pwd = pwd
           /\ session'[s].owner = owner
           /\ session'[s].raced = UnderWay(u)
           /\ \A x \in Session : x # s => session'[x] = session[x]
<1> DEFINE raced == UnderWay(u)
<1> HIDE DEF raced
<1> QED
  BY DEF TypeOK, NewFamily, raced

\* So does an accepted invitation, which signs the new member in.
LEMMA AcceptInviteEffect ==
    ASSUME TypeOK, NEW u \in User, NEW role \in Role, NEW s \in Session,
           AcceptInvite(u, role, s)
    PROVE  /\ Free(s)
           /\ session'[s].status = "LIVE"
           /\ session'[s].user = u
           /\ session'[s].family = s
           /\ session'[s].pwd = 1
           /\ ~session'[s].owner
           /\ session'[s].raced = UnderWay(u)
           /\ \A x \in Session : x # s => session'[x] = session[x]
<1> DEFINE owner == FALSE
<1>1. session' = NewFamily(s, u, WebPosture, 1, owner) /\ Free(s)
  BY DEF AcceptInvite
<1>2. owner = FALSE
  OBVIOUS
<1> HIDE DEF owner
<1> QED
  BY <1>1, <1>2, NewFamilyEffect

\* A rotation touches the old row and its successor.
LEMMA RefreshEffect ==
    ASSUME TypeOK, NEW s \in Session, NEW next \in Session, Refresh(s, next)
    PROVE  /\ s # next
           /\ session'[next] = session[s]
           /\ session'[s].status = "ROTATED"
           /\ session'[s].user = session[s].user
           /\ session'[s].family = session[s].family
           /\ session'[s].posture = session[s].posture
           /\ \A x \in Session : x # s /\ x # next => session'[x] = session[x]
BY DEF TypeOK, Refresh, Live, Free, SessionRow

-----------------------------------------------------------------------------
(* Every step is one of four on the session table *)

Founds(s) ==
    /\ Free(s)
    /\ session'[s].status = "LIVE"
    /\ session'[s].family = s
    /\ session'[s].raced = UnderWay(session'[s].user)
    /\ \A x \in Session : x # s => session'[x] = session[x]

SessionStep ==
    \/ session' = session
    \/ \E S \in SUBSET Session : session' = RevokeLive(S)
    \/ \E s \in Session : Founds(s)
    \/ \E s, next \in Session : Refresh(s, next)

\* What is revoked are sessions.
LEMMA SubsetsOfSession ==
    /\ \A f : Family(f) \in SUBSET Session
    /\ \A u : SessionsOf(u) \in SUBSET Session
BY DEF Family, SessionsOf

\* No action does anything else to the session table.
LEMMA SessionStepNext == TypeOK /\ [Next]_vars => SessionStep
<1> SUFFICES ASSUME TypeOK, [Next]_vars PROVE SessionStep
  OBVIOUS
<1>1. CASE SignIn
  <2>1. ASSUME NEW h \in Handler, NEW s \in Session, LoginIssue(h, s)
        PROVE  SessionStep
    <3>1. Founds(s)
      BY <2>1, NewFamilyEffect DEF LoginIssue, Founds
    <3> QED
      BY <3>1 DEF SessionStep
  <2>2. ASSUME NEW s \in Session, RefreshReplay(s) \/ Logout(s)
        PROVE  SessionStep
    BY <2>2, SubsetsOfSession DEF RefreshReplay, Logout, SessionStep
  <2>3. ASSUME session' = session PROVE SessionStep
    BY <2>3 DEF SessionStep
  <2>4. ASSUME NEW s \in Session, NEW next \in Session, Refresh(s, next)
        PROVE  SessionStep
    BY <2>4 DEF SessionStep
  <2> QED
    BY <1>1, <2>1, <2>2, <2>3, <2>4 DEF SignIn, LoginVerify, VerifyEmail
<1>2. CASE Passwords
  <2>1. ASSUME NEW h \in Handler, OperatorReset(h)
        PROVE  SessionStep
    BY <2>1, SerialUsers DEF OperatorReset, IsOp, Serial, SerialOp, SessionStep
  <2> QED
    BY <1>2, <2>1, SubsetsOfSession
       DEF Passwords, ChangeVerify, ChangeCommit, ResetPassword, OperatorResetBegin,
           ReplacePassword, SessionStep
<1>3. CASE Team
  <2>1. ASSUME NEW u \in User, NEW role \in Role, NEW s \in Session, AcceptInvite(u, role, s)
        PROVE  SessionStep
    <3>1. Founds(s)
      BY <2>1, AcceptInviteEffect DEF Founds
    <3> QED
      BY <3>1 DEF SessionStep
  <2>2. ASSUME NEW S \in SUBSET Session, session' = RevokeLive(S)
        PROVE  SessionStep
    BY <2>2 DEF SessionStep
  <2>3. ASSUME NEW h \in Handler, NEW life \in {"SUSPENDED", "REMOVED"}, Deactivate(h, life)
        PROVE  SessionStep
    BY <2>2, <2>3, SubsetsOfSession DEF Deactivate
  <2>4. ASSUME NEW h \in Handler, MoveOwnership(h)
        PROVE  SessionStep
    BY <2>2, <2>4, SerialUsers DEF MoveOwnership, Serial, SerialOp
  <2>5. ASSUME NEW h \in Handler, RevokeAll(h)
        PROVE  SessionStep
    BY <2>2, <2>5, SubsetsOfSession DEF RevokeAll
  <2>6. ASSUME NEW h \in Handler, NEW f \in Session, RevokeFamily(h, f)
        PROVE  SessionStep
    <3>1. Family(f) \cap SessionsOf(request[h].target) \in SUBSET Session
      BY SubsetsOfSession
    <3> QED
      BY <2>2, <2>6, <3>1 DEF RevokeFamily
  <2>7. ASSUME session' = session PROVE SessionStep
    BY <2>7 DEF SessionStep
  <2> QED
    BY <1>3, <2>1, <2>3, <2>4, <2>5, <2>6, <2>7
       DEF Team, Review, ChangeRole, Reactivate, TransferBegin, RetryTransfer, RecoverBegin
<1>4. CASE UNCHANGED session
  BY <1>4 DEF SessionStep
<1> QED
  BY <1>1, <1>2, <1>3, <1>4 DEF Next, Abandon, OrganisationTransition, vars

\* The rows that exist keep their user, family and posture.
LEMMA RowsKept ==
    ASSUME TypeOK, SessionStep, NEW x \in Session, session[x].status # "NONE"
    PROVE  /\ session'[x].status # "NONE"
           /\ session'[x].user = session[x].user
           /\ session'[x].family = session[x].family
           /\ session'[x].posture = session[x].posture
<1>1. ASSUME NEW S, session' = RevokeLive(S)
      PROVE  /\ session'[x].status # "NONE"
             /\ session'[x].user = session[x].user
             /\ session'[x].family = session[x].family
             /\ session'[x].posture = session[x].posture
  BY <1>1, RevokeLiveEffect
<1>2. ASSUME NEW s \in Session, Founds(s) PROVE session'[x] = session[x]
  BY <1>2 DEF Founds, Free
<1>3. ASSUME NEW s \in Session, NEW next \in Session, Refresh(s, next)
      PROVE  /\ session'[x].status # "NONE"
             /\ session'[x].user = session[x].user
             /\ session'[x].family = session[x].family
             /\ session'[x].posture = session[x].posture
  <2>1. x # next
    BY <1>3 DEF Refresh, Free
  <2>2. CASE x = s
    BY <1>3, <2>2, RefreshEffect
  <2>3. CASE x # s
    BY <1>3, <2>1, <2>3, RefreshEffect
  <2> QED
    BY <2>2, <2>3
<1> QED
  BY <1>1, <1>2, <1>3 DEF SessionStep

-----------------------------------------------------------------------------
(* Every step is one of five on a request *)

KeepsSnapshot(h) ==
    /\ Serial(h) /\ Serial(h)'
    /\ request'[h].op = request[h].op
    /\ request'[h].from = request[h].from /\ request'[h].to = request[h].to
    /\ request'[h].rows = request[h].rows /\ request'[h].seen = request[h].seen

Admitted(r) == IF r.op = "reset" THEN r.from = r.to /\ user[r.to].life = "ACTIVE"
                                 ELSE MayMoveOwnership(r.from, r.to)

SnapshotTaken(h) ==
    LET r == request'[h] IN
      /\ r.rows = <<user[r.from], user[r.to]>>
      /\ r.seen = {s \in SessionsOf(r.from) \cup SessionsOf(r.to) : Live(s)}
      /\ Admitted(r)
      /\ user' = user /\ session' = session

RequestStep(h) ==
    \/ request'[h] = request[h]
    \/ request'[h].op \notin SerialOp \cup {"manage"}
    \/ KeepsSnapshot(h)
    \/ Serial(h)' /\ SnapshotTaken(h)
    \/ user' = user /\ \E s \in Session, t \in User : Review(h, s, t)

\* The first statement of a command is a step of its own request only.
LEMMA SnapshotStep ==
    ASSUME TypeOK, NEW g \in Handler, NEW h \in Handler, NEW op \in SerialOp,
           NEW from \in User, NEW to \in User, TakeSnapshot(g, op, from, to),
           user' = user, session' = session,
           IF op = "reset" THEN from = to /\ user[to].life = "ACTIVE"
                           ELSE MayMoveOwnership(from, to)
    PROVE  RequestStep(h)
<1> DEFINE seen == {s \in SessionsOf(from) \cup SessionsOf(to) : Live(s)}
           rows == <<user[from], user[to]>>
           r == [op |-> op, from |-> from, to |-> to, rows |-> rows,
                 seen |-> seen, moved |-> FALSE]
<1>1. CASE g # h
  BY <1>1 DEF TakeSnapshot, TypeOK, RequestStep
<1>2. CASE g = h
  <2>1. request'[h] = r
    BY <1>2 DEF TakeSnapshot, TypeOK
  <2> HIDE DEF seen, rows
  <2>2. /\ request'[h].op = op /\ request'[h].from = from /\ request'[h].to = to
        /\ request'[h].rows = rows /\ request'[h].seen = seen
    BY <2>1
  <2>3. Serial(h)' /\ SnapshotTaken(h)
    BY <2>2 DEF Serial, SnapshotTaken, Admitted, seen, rows
  <2> QED
    BY <2>3 DEF RequestStep
<1> QED
  BY <1>1, <1>2

\* No action does anything else to a request.
LEMMA RequestStepNext ==
    ASSUME TypeOK, [Next]_vars, NEW h \in Handler
    PROVE  RequestStep(h)
<1>0. ASSUME request' = request PROVE RequestStep(h)
  BY <1>0 DEF RequestStep
<1>1. ASSUME NEW g \in Handler, Finish(g) PROVE RequestStep(h)
  BY <1>1 DEF Finish, Idle, TypeOK, RequestStep, SerialOp
<1>2. CASE SignIn
  <2>1. ASSUME NEW g \in Handler, NEW u \in User, NEW p \in Posture, LoginVerify(g, u, p)
        PROVE  RequestStep(h)
    BY <2>1 DEF LoginVerify, TypeOK, RequestStep, SerialOp
  <2> QED
    BY <1>0, <1>1, <1>2, <2>1 DEF SignIn, LoginIssue, Refresh, RefreshReplay, Logout, VerifyEmail
<1>3. CASE Passwords
  <2>1. ASSUME NEW g \in Handler, NEW s \in Session, ChangeVerify(g, s)
        PROVE  RequestStep(h)
    BY <2>1 DEF ChangeVerify, TypeOK, RequestStep, SerialOp
  <2>2. ASSUME NEW g \in Handler, NEW u \in User, OperatorResetBegin(g, u)
        PROVE  RequestStep(h)
    BY <2>2, SnapshotStep DEF OperatorResetBegin, ActivePrincipal, SerialOp
  <2> QED
    BY <1>0, <1>1, <1>3, <2>1, <2>2 DEF Passwords, ChangeCommit, ResetPassword, OperatorReset
<1>4. CASE Team
  <2>1. ASSUME NEW g \in Handler, NEW s \in Session, NEW t \in User, Review(g, s, t)
        PROVE  RequestStep(h)
    <3>1. CASE g = h
      BY <2>1, <3>1 DEF Review, RequestStep
    <3>2. CASE g # h
      BY <2>1, <3>2 DEF Review, TypeOK, RequestStep
    <3> QED
      BY <3>1, <3>2
  <2>2. ASSUME NEW g \in Handler, TransferBegin(g)
        PROVE  RequestStep(h)
    <3>1. request[g].actor \in User /\ request[g].target \in User
      BY <2>2, RequestType DEF TransferBegin, Reviewed, ManageRequest
    <3> QED
      BY <2>2, <3>1, SnapshotStep DEF TransferBegin, SerialOp
  <2>3. ASSUME NEW g \in Handler, RetryTransfer(g)
        PROVE  RequestStep(h)
    <3>1. request[g].from \in User /\ request[g].to \in User
      BY <2>3, SerialUsers DEF RetryTransfer, IsOp, Serial, SerialOp
    <3> QED
      BY <2>3, <3>1, SnapshotStep DEF RetryTransfer, SerialOp
  <2>4. ASSUME NEW g \in Handler, NEW from \in User, NEW to \in User, RecoverBegin(g, from, to)
        PROVE  RequestStep(h)
    BY <2>4, SnapshotStep DEF RecoverBegin, SerialOp
  <2> QED
    BY <1>0, <1>1, <1>4, <2>1, <2>2, <2>3, <2>4 DEF Team, Deactivate, ChangeRole, Reactivate,
         MoveOwnership, RevokeFamily, RevokeAll, AcceptInvite
<1>5. ASSUME NEW status \in {"ACTIVE", "SUSPENDED", "CLOSED"}, OrganisationTransition(status)
      PROVE  RequestStep(h)
  <2>1. CASE ~Serial(h)
    BY <1>5, <2>1 DEF OrganisationTransition, RequestStep
  <2>2. CASE Serial(h)
    <3>1. request[h] \in SerialRequest
      BY <2>2, RequestType
    <3>2. request'[h] = [request[h] EXCEPT !.moved = TRUE]
      BY <1>5, <2>2 DEF OrganisationTransition
    <3>3. KeepsSnapshot(h)
      BY <2>2, <3>1, <3>2 DEF KeepsSnapshot, Serial, SerialRequest
    <3> QED
      BY <3>3 DEF RequestStep
  <2> QED
    BY <2>1, <2>2
<1> QED
  BY <1>0, <1>1, <1>2, <1>3, <1>4, <1>5 DEF Next, Abandon, vars

-----------------------------------------------------------------------------
(* What a serializable command has seen *)

\* As long as no session it saw has changed, every live session of its users
\* is one it saw or one whose login knows that it raced the command.
Covers(h) ==
    (\A s \in request[h].seen : Live(s)) =>
        \A s \in Session :
            (Live(s) /\ ~session[s].raced /\ session[s].user \in {request[h].from, request[h].to})
              => s \in request[h].seen

Snapshot(h) ==
    LET r == request[h] IN
      /\ \A s \in r.seen : ~Free(s)
      /\ r.rows[1].life = "ACTIVE" /\ r.rows[2].life = "ACTIVE"
      /\ IF r.op = "reset"
           THEN r.from = r.to
           ELSE r.from # r.to /\ r.rows[1].role = "OWNER" /\ r.rows[2].role # "OWNER"
      /\ Covers(h)

Snapshots == \A h \in Handler : Serial(h) => Snapshot(h)

\* No command is under way at registration.
LEMMA SnapshotsInit == Init => Snapshots
BY DEF Init, Snapshots, Serial, SerialOp, Idle

\* A command under way goes on to cover the sessions of its users.
LEMMA CoversNext ==
    ASSUME TypeOK, SessionStep, NEW h \in Handler, KeepsSnapshot(h), Snapshot(h)
    PROVE  Covers(h)'
<1> DEFINE r == request[h]
<1>0. /\ request'[h].from = r.from /\ request'[h].to = r.to /\ request'[h].seen = r.seen
      /\ r.seen \subseteq Session /\ \A s \in r.seen : ~Free(s)
  BY SerialUsers DEF KeepsSnapshot, Snapshot
<1> SUFFICES ASSUME \A s \in r.seen : Live(s)',
                    NEW x \in Session, Live(x)', ~session'[x].raced,
                    session'[x].user \in {r.from, r.to}
             PROVE  x \in r.seen
  BY <1>0 DEF Covers
<1> HIDE DEF r
<1>1. ASSUME \A s \in r.seen : Live(s), Live(x), ~session[x].raced,
             session[x].user \in {r.from, r.to}
      PROVE  x \in r.seen
  BY <1>1 DEF Snapshot, Covers, r
<1>2. CASE session' = session
  BY <1>1, <1>2 DEF Live
<1>3. ASSUME NEW S \in SUBSET Session, session' = RevokeLive(S)
      PROVE  x \in r.seen
  <2>1. \A s \in Session : Live(s)' => Live(s)
    BY <1>3, RevokeLiveEffect DEF Live
  <2>2. session'[x].raced = session[x].raced /\ session'[x].user = session[x].user
    BY <1>3, RevokeLiveEffect
  <2> QED
    BY <1>0, <1>1, <2>1, <2>2
<1>4. ASSUME NEW s \in Session, Founds(s)
      PROVE  x \in r.seen
  <2>1. s \notin r.seen
    BY <1>0, <1>4 DEF Founds
  <2>2. x # s
    <3> SUFFICES ASSUME x = s PROVE FALSE
      OBVIOUS
    <3>1. UnderWay(session'[s].user)
      BY DEF UnderWay, KeepsSnapshot, r
    <3> QED
      BY <1>4, <3>1 DEF Founds
  <2> QED
    BY <1>0, <1>1, <1>4, <2>1, <2>2 DEF Founds, Live
<1>5. ASSUME NEW s \in Session, NEW next \in Session, Refresh(s, next)
      PROVE  x \in r.seen
  <2>1. /\ session'[next] = session[s] /\ session'[s].status = "ROTATED"
        /\ \A y \in Session : y # s /\ y # next => session'[y] = session[y]
        /\ Live(s) /\ Free(next)
    BY <1>5, RefreshEffect DEF Refresh
  <2>2. s \notin r.seen /\ next \notin r.seen
    BY <1>0, <2>1 DEF Live
  <2>3. \A y \in r.seen : Live(y)
    BY <1>0, <2>1, <2>2 DEF Live
  <2>4. x # s
    BY <2>1 DEF Live
  <2>5. x # next
    <3> SUFFICES ASSUME x = next PROVE FALSE
      OBVIOUS
    <3>1. ~session[s].raced /\ session[s].user \in {r.from, r.to}
      BY <2>1
    <3> QED
      BY <2>1, <2>2, <2>3, <3>1 DEF Snapshot, Covers, r
  <2> QED
    BY <1>1, <2>1, <2>3, <2>4, <2>5 DEF Live
<1> QED
  BY <1>2, <1>3, <1>4, <1>5 DEF SessionStep

\* What commands have seen stays so in every step.
LEMMA SnapshotsNext == TypeOK /\ Snapshots /\ [Next]_vars => Snapshots'
<1> SUFFICES ASSUME TypeOK, Snapshots, [Next]_vars, NEW h \in Handler, Serial(h)'
             PROVE  Snapshot(h)'
  BY DEF Snapshots
<1>0. SessionStep
  BY SessionStepNext
<1>1. CASE KeepsSnapshot(h)
  <2>1. Snapshot(h) /\ request[h].seen \subseteq Session
    BY <1>1, SerialUsers DEF KeepsSnapshot, Snapshots
  <2>2. \A s \in request[h].seen : ~Free(s)'
    BY <1>0, <2>1, RowsKept DEF Snapshot, Free
  <2>3. Covers(h)'
    BY <1>0, <1>1, <2>1, CoversNext
  <2> QED
    BY <1>1, <2>1, <2>2, <2>3 DEF Snapshot, KeepsSnapshot
<1>2. CASE SnapshotTaken(h)
  <2> DEFINE r == request'[h]
  <2>1. /\ r.seen = {s \in SessionsOf(r.from) \cup SessionsOf(r.to) : Live(s)}
        /\ r.rows = <<user[r.from], user[r.to]>>
        /\ Admitted(r) /\ session' = session
    BY <1>2 DEF SnapshotTaken
  <2> HIDE DEF r
  <2>2. r.rows[1] = user[r.from] /\ r.rows[2] = user[r.to]
    BY <2>1
  <2>3. \A s \in r.seen : ~Free(s)'
    BY <2>1 DEF Free, Live
  <2>4. Covers(h)'
    BY <2>1 DEF Covers, SessionsOf, Live, r
  <2>5. /\ r.rows[1].life = "ACTIVE" /\ r.rows[2].life = "ACTIVE"
        /\ IF r.op = "reset"
             THEN r.from = r.to
             ELSE r.from # r.to /\ r.rows[1].role = "OWNER" /\ r.rows[2].role # "OWNER"
    BY <2>1, <2>2 DEF Admitted, MayMoveOwnership
  <2> QED
    BY <2>3, <2>4, <2>5 DEF Snapshot, r
<1>3. CASE request'[h] = request[h]
  <2>1. KeepsSnapshot(h)
    BY <1>3 DEF KeepsSnapshot, Serial
  <2> QED
    BY <1>1, <2>1
<1>4. ~(\E s \in Session, t \in User : Review(h, s, t))
  BY DEF Review, TypeOK, Serial, SerialOp
<1> QED
  BY <1>1, <1>2, <1>3, <1>4, RequestStepNext DEF RequestStep, Serial

\* A serializable command that has begun goes on to cover every live session
\* of its users, but for those whose login raced it.
THEOREM SnapshotsHold == Spec => []Snapshots
<1> QED
  BY SnapshotsInit, SnapshotsNext, TypeCorrect, PTL DEF Spec

\* What a command finds when it commits.
LEMMA AtCommit ==
    ASSUME TypeOK, Snapshots, NEW h \in Handler, Serial(h), Undisturbed(h)
    PROVE  LET r == request[h] IN
             /\ user[r.from].life = "ACTIVE" /\ user[r.to].life = "ACTIVE"
             /\ r.op = "reset" => r.from = r.to
             /\ r.op # "reset" => /\ r.from # r.to
                                  /\ user[r.from].role = "OWNER"
                                  /\ user[r.to].role # "OWNER"
             /\ \A s \in Session :
                  Live(s) /\ ~session[s].raced /\ session[s].user \in {r.from, r.to}
                    => s \in r.seen
<1>1. Snapshot(h)
  BY DEF Snapshots
<1>2. request[h].rows[1] = user[request[h].from] /\ request[h].rows[2] = user[request[h].to]
  BY DEF Undisturbed
<1> QED
  BY <1>1, <1>2 DEF Snapshot, Covers, Undisturbed

-----------------------------------------------------------------------------
(* A live session agrees with the account it belongs to *)

Agrees(s) ==
    Live(s) => LET u == user[session[s].user] IN
                 /\ u.life = "ACTIVE"
                 /\ session[s].raced \/ /\ session[s].pwd = u.pwd
                                        /\ session[s].owner = (u.role = "OWNER")

Agreement == \A s \in Session : Agrees(s)

\* No session is live at registration.
LEMMA AgreementInit == Init => Agreement
BY DEF Init, Agreement, Agrees, Live

\* Revoking keeps the agreement when it ends every session of the users that
\* change, or of those that stay active every session that raced no command.
LEMMA AgreementRevoke ==
    ASSUME TypeOK, Agreement, NEW S, session' = RevokeLive(S),
           \A u \in User :
              \/ user'[u] = user[u]
              \/ SessionsOf(u) \subseteq S
              \/ /\ user'[u].life = "ACTIVE"
                 /\ \A s \in Session :
                      Live(s) /\ ~session[s].raced /\ session[s].user = u => s \in S
    PROVE  Agreement'
<1> SUFFICES ASSUME NEW x \in Session, Live(x)'
             PROVE  Agrees(x)'
  BY DEF Agreement, Agrees
<1> DEFINE u == session[x].user
<1>1. Live(x) /\ x \notin S
  BY RevokeLiveEffect DEF Live
<1>2. u \in User /\ x \in SessionsOf(u)
  BY <1>1 DEF TypeOK, SessionRow, SessionsOf, Live
<1>3. /\ session'[x].user = u /\ session'[x].pwd = session[x].pwd
      /\ session'[x].owner = session[x].owner /\ session'[x].raced = session[x].raced
  BY RevokeLiveEffect
<1>4. CASE user'[u] = user[u]
  BY <1>1, <1>3, <1>4 DEF Agreement, Agrees
<1>5. CASE user'[u].life = "ACTIVE" /\ session[x].raced
  BY <1>3, <1>5 DEF Agrees
<1> QED
  BY <1>1, <1>2, <1>4, <1>5

\* So does a change of users that leaves password, lifecycle and ownership.
LEMMA AgreementUser ==
    ASSUME TypeOK, Agreement, session' = session,
           \A u \in User : \/ user[u].life # "ACTIVE"
                           \/ /\ user'[u].pwd = user[u].pwd
                              /\ user'[u].life = user[u].life
                              /\ user'[u].role = "OWNER" <=> user[u].role = "OWNER"
    PROVE  Agreement'
<1> SUFFICES ASSUME NEW x \in Session, Live(x)'
             PROVE  Agrees(x)'
  BY DEF Agreement, Agrees
<1>1. Live(x) /\ session[x].user \in User
  BY DEF Live, TypeOK, SessionRow
<1> QED
  BY <1>1 DEF Agreement, Agrees, Live

\* The membership trigger changes role, lifecycle and version, nothing else.
LEMMA MemberEffect ==
    ASSUME TypeOK, NEW u \in User, NEW role, NEW life
    PROVE  /\ Member(u, role, life).role = role
           /\ Member(u, role, life).life = life
           /\ Member(u, role, life).pwd = user[u].pwd
           /\ Member(u, role, life).version = user[u].version + 1
BY DEF TypeOK, UserRow, Member

\* The agreement is inductive.
LEMMA AgreementNext == TypeOK /\ Snapshots /\ Agreement /\ [Next]_vars => Agreement'
<1> SUFFICES ASSUME TypeOK, Snapshots, Agreement, [Next]_vars PROVE Agreement'
  OBVIOUS
<1>0. ASSUME user' = user, session' = session
      PROVE  Agreement'
  BY <1>0, AgreementUser
<1>1. CASE SignIn
  <2>1. ASSUME NEW h \in Handler, NEW s \in Session, LoginIssue(h, s)
        PROVE  Agreement'
    <3> DEFINE r == request[h]
    <3>1. r \in LoginRequest
      BY <2>1, RequestType DEF LoginIssue
    <3>2. /\ session' = NewFamily(s, r.user, r.posture, r.pwd, r.role = "OWNER")
          /\ user' = user
          /\ user[r.user].pwd = r.pwd /\ user[r.user].role = r.role
          /\ user[r.user].life = "ACTIVE"
      BY <2>1 DEF LoginIssue, ActivePrincipal
    <3>3. /\ session'[s].user = r.user /\ session'[s].pwd = r.pwd
          /\ session'[s].owner = (r.role = "OWNER")
          /\ \A x \in Session : x # s => session'[x] = session[x]
      BY <3>2, NewFamilyEffect
    <3>4. Agrees(s)'
      BY <3>2, <3>3 DEF Agrees
    <3>5. ASSUME NEW x \in Session, x # s
          PROVE  Agrees(x)'
      BY <3>2, <3>3, <3>5 DEF Agrees, Live, Agreement
    <3> QED
      BY <3>4, <3>5 DEF Agreement
  <2>2. ASSUME NEW s \in Session, NEW next \in Session, Refresh(s, next)
        PROVE  Agreement'
    <3>1. /\ user' = user /\ Live(s)
          /\ session'[next] = session[s] /\ session'[s].status = "ROTATED"
          /\ \A x \in Session : x # s /\ x # next => session'[x] = session[x]
      BY <2>2, RefreshEffect DEF Refresh
    <3>2. Agrees(s)'
      BY <3>1 DEF Agrees, Live
    <3>3. Agrees(next)'
      BY <3>1 DEF Agrees, Live, Agreement
    <3>4. ASSUME NEW x \in Session, x # s, x # next
          PROVE  Agrees(x)'
      BY <3>1, <3>4 DEF Agrees, Live, Agreement
    <3> QED
      BY <3>2, <3>3, <3>4 DEF Agreement
  <2>3. ASSUME NEW s \in Session, RefreshReplay(s) \/ Logout(s)
        PROVE  Agreement'
    BY <2>3, AgreementRevoke DEF RefreshReplay, Logout
  <2>4. ASSUME NEW u \in User, VerifyEmail(u)
        PROVE  Agreement'
    BY <2>4, AgreementUser DEF VerifyEmail, TypeOK, UserRow
  <2> QED
    BY <1>0, <1>1, <2>1, <2>2, <2>3, <2>4 DEF SignIn, LoginVerify
<1>2. CASE Passwords
  <2>1. ASSUME NEW u \in User, ReplacePassword(u)
        PROVE  Agreement'
    BY <2>1, AgreementRevoke DEF ReplacePassword, TypeOK
  <2>2. ASSUME NEW h \in Handler, ChangeCommit(h)
        PROVE  Agreement'
    BY <2>1, <2>2, RequestType DEF ChangeCommit, ChangeRequest
  <2>3. ASSUME NEW h \in Handler, OperatorReset(h)
        PROVE  Agreement'
    <3> DEFINE r == request[h]
    <3>1. Serial(h) /\ r.op = "reset" /\ Undisturbed(h)
      BY <2>3 DEF OperatorReset, IsOp, Serial, SerialOp
    <3>2. /\ r.from = r.to /\ r.to \in User /\ user[r.to].life = "ACTIVE"
          /\ \A s \in Session :
               Live(s) /\ ~session[s].raced /\ session[s].user = r.to => s \in r.seen
      BY <3>1, AtCommit, SerialUsers
    <3>3. /\ session' = RevokeLive(r.seen)
          /\ user'[r.to].life = "ACTIVE"
          /\ \A u \in User : u # r.to => user'[u] = user[u]
      BY <2>3, <3>2 DEF OperatorReset, TypeOK, UserRow
    <3> QED
      BY <3>2, <3>3, AgreementRevoke
  <2> QED
    BY <1>0, <1>2, <2>1, <2>2, <2>3
       DEF Passwords, ChangeVerify, ResetPassword, OperatorResetBegin
<1>3. CASE Team
  <2>0. ASSUME NEW h \in Handler, Reviewed(h)
        PROVE  request[h].actor \in User /\ request[h].target \in User
    BY <2>0, RequestType DEF Reviewed, ManageRequest
  <2>1. ASSUME NEW h \in Handler, NEW life \in {"SUSPENDED", "REMOVED"}, Deactivate(h, life)
        PROVE  Agreement'
    BY <2>0, <2>1, AgreementRevoke DEF Deactivate, TypeOK
  <2>2. ASSUME NEW h \in Handler, NEW role \in Role, ChangeRole(h, role)
        PROVE  Agreement'
    BY <2>0, <2>2, AgreementUser, MemberEffect DEF ChangeRole, TypeOK
  <2>3. ASSUME NEW h \in Handler, Reactivate(h)
        PROVE  Agreement'
    BY <2>0, <2>3, AgreementUser, MemberEffect DEF Reactivate, TypeOK
  <2>4. ASSUME NEW h \in Handler, MoveOwnership(h)
        PROVE  Agreement'
    <3> DEFINE r == request[h]
    <3>1. Serial(h) /\ r.op # "reset" /\ Undisturbed(h)
      BY <2>4 DEF MoveOwnership, Serial, SerialOp
    <3>2. /\ r.from # r.to /\ r.from \in User /\ r.to \in User
          /\ \A s \in Session :
               Live(s) /\ ~session[s].raced /\ session[s].user \in {r.from, r.to}
                 => s \in r.seen
      BY <3>1, AtCommit, SerialUsers
    <3>3. /\ session' = RevokeLive(r.seen)
          /\ user'[r.from] = Member(r.from, "ADMIN", "ACTIVE")
          /\ user'[r.to] = Member(r.to, "OWNER", "ACTIVE")
          /\ \A u \in User : u # r.from /\ u # r.to => user'[u] = user[u]
      BY <2>4, <3>2 DEF MoveOwnership, TypeOK
    <3>4. user'[r.from].life = "ACTIVE" /\ user'[r.to].life = "ACTIVE"
      BY <3>2, <3>3, MemberEffect
    <3> QED
      BY <3>2, <3>3, <3>4, AgreementRevoke
  <2>5. ASSUME NEW h \in Handler, RevokeAll(h) \/ \E f \in Session : RevokeFamily(h, f)
        PROVE  Agreement'
    BY <2>5, AgreementRevoke DEF RevokeAll, RevokeFamily
  <2>6. ASSUME NEW u \in User, NEW role \in Role, NEW s \in Session, AcceptInvite(u, role, s)
        PROVE  Agreement'
    <3>0. role # "OWNER"
      BY <2>6 DEF AcceptInvite
    <3>1. /\ user[u].life = "ABSENT"
          /\ user'[u].role = role /\ user'[u].life = "ACTIVE" /\ user'[u].pwd = 1
          /\ \A v \in User : v # u => user'[v] = user[v]
      BY <2>6 DEF AcceptInvite, TypeOK
    <3>2. /\ session'[s].user = u /\ session'[s].pwd = 1
          /\ ~session'[s].owner
          /\ \A x \in Session : x # s => session'[x] = session[x]
      BY <2>6, AcceptInviteEffect
    <3>3. Agrees(s)'
      <4>1. session'[s].owner \in BOOLEAN
        BY TypeNext DEF TypeOK, SessionRow
      <4>2. session'[s].owner = (role = "OWNER")
        BY <3>0, <3>2, <4>1
      <4> QED
        BY <3>1, <3>2, <4>2 DEF Agrees
    <3>4. ASSUME NEW x \in Session, x # s
          PROVE  Agrees(x)'
      <4>1. Live(x) => session[x].user \in User \ {u}
        BY <3>1 DEF Agreement, Agrees, TypeOK, SessionRow
      <4> QED
        BY <3>1, <3>2, <3>4, <4>1 DEF Agrees, Live, Agreement
    <3> QED
      BY <3>3, <3>4 DEF Agreement
  <2> QED
    BY <1>0, <1>3, <2>0, <2>1, <2>2, <2>3, <2>4, <2>5, <2>6
       DEF Team, Review, TransferBegin, RetryTransfer, RecoverBegin
<1>4. ASSUME NEW h \in Handler, Abandon(h)
      PROVE  Agreement'
  BY <1>0, <1>4 DEF Abandon
<1>5. ASSUME NEW status \in {"ACTIVE", "SUSPENDED", "CLOSED"}, OrganisationTransition(status)
      PROVE  Agreement'
  BY <1>0, <1>5 DEF OrganisationTransition
<1>6. CASE UNCHANGED vars
  BY <1>0, <1>6 DEF vars
<1> QED
  BY <1>1, <1>2, <1>3, <1>4, <1>5, <1>6 DEF Next

\* What a live session lives by, for every set of users, sessions and requests
\* in flight: its account is active; and unless its login raced a serializable
\* command on that account, it was established under the current password, and
\* by the owner exactly if its user is the owner now.
THEOREM SessionsAgree == Spec => []LiveSessionIsCurrent
<1>1. Agreement => LiveSessionIsCurrent
  BY DEF Agreement, Agrees, LiveSessionIsCurrent
<1> QED
  BY <1>1, AgreementInit, AgreementNext, SnapshotsHold, TypeCorrect, PTL DEF Spec

\* Revocation evidence is immutable in every step of every behaviour.
THEOREM RevocationFinal == Spec => RevocationIsFinal
<1>1. ASSUME TypeOK, [Next]_vars, NEW s \in Session,
             session[s].status \in {"ROTATED", "REVOKED"}
      PROVE  session'[s] = session[s]
  <2>0. SessionStep /\ ~Live(s) /\ ~Free(s)
    BY <1>1, SessionStepNext DEF Live, Free
  <2>1. ASSUME NEW S, session' = RevokeLive(S) PROVE session'[s] = session[s]
    BY <1>1, <2>0, <2>1, RevokeLiveEffect
  <2>2. ASSUME NEW x \in Session, Founds(x) PROVE session'[s] = session[s]
    BY <2>0, <2>2 DEF Founds, Free
  <2>3. ASSUME NEW x \in Session, NEW next \in Session, Refresh(x, next)
        PROVE  session'[s] = session[s]
    BY <1>1, <2>0, <2>3, RefreshEffect DEF Refresh
  <2> QED
    BY <2>0, <2>1, <2>2, <2>3 DEF SessionStep
<1>2. TypeOK /\ [Next]_vars =>
        [\A s \in Session : session[s].status \in {"ROTATED", "REVOKED"} =>
            session'[s] = session[s]]_vars
  BY <1>1
<1> QED
  BY <1>2, TypeCorrect, PTL DEF Spec, RevocationIsFinal

-----------------------------------------------------------------------------
(* Families *)

\* Every row belongs to the family of a row that exists, with its user and
\* posture: a new family cannot take over an old name.
Founded ==
    \A s \in Session : session[s].status # "NONE" =>
        /\ session[session[s].family].status # "NONE"
        /\ session[session[s].family].user = session[s].user
        /\ session[session[s].family].posture = session[s].posture

ReplayedExists == \A f \in replayed : session[f].status # "NONE"

Families == Founded /\ OneHeadPerFamily /\ ReplayedExists /\ ReplayedFamilyIsDead

\* There is no family at registration.
LEMMA FamiliesInit == Init => Families
BY DEF Init, Families, Founded, OneHeadPerFamily, ReplayedExists, ReplayedFamilyIsDead

\* Founders stay, and a successor has its predecessor's.
LEMMA FoundedNext ==
    ASSUME TypeOK, Founded, SessionStep
    PROVE  Founded'
<1> SUFFICES ASSUME NEW x \in Session, session'[x].status # "NONE"
             PROVE  /\ session'[session'[x].family].status # "NONE"
                    /\ session'[session'[x].family].user = session'[x].user
                    /\ session'[session'[x].family].posture = session'[x].posture
  BY DEF Founded
<1>0. ASSUME NEW y \in Session PROVE session[y].family \in Session
  BY DEF TypeOK, SessionRow
<1>1. CASE session[x].status # "NONE"
  <2> DEFINE f == session[x].family
  <2>1. f \in Session /\ session[f].status # "NONE"
    BY <1>0, <1>1 DEF Founded
  <2>2. /\ session'[f].status # "NONE"
        /\ session'[f].user = session[f].user /\ session'[f].posture = session[f].posture
    BY <2>1, RowsKept
  <2>3. /\ session'[x].family = f
        /\ session'[x].user = session[x].user /\ session'[x].posture = session[x].posture
    BY <1>1, RowsKept
  <2> QED
    BY <1>1, <2>1, <2>2, <2>3 DEF Founded
<1>2. CASE session[x].status = "NONE"
  <2>1. ASSUME NEW S, session' = RevokeLive(S) PROVE FALSE
    BY <1>2, <2>1, RevokeLiveEffect DEF Live
  <2>2. ASSUME NEW s \in Session, Founds(s) PROVE session'[x].family = x
    BY <1>2, <2>2 DEF Founds
  <2>3. ASSUME NEW s \in Session, NEW next \in Session, Refresh(s, next)
        PROVE  /\ session'[session'[x].family].status # "NONE"
               /\ session'[session'[x].family].user = session'[x].user
               /\ session'[session'[x].family].posture = session'[x].posture
    <3> DEFINE f == session[s].family
    <3>1. session[s].status # "NONE" /\ x = next /\ session'[x] = session[s]
      BY <1>2, <2>3, RefreshEffect DEF Refresh, Live
    <3>2. /\ f \in Session /\ session[f].status # "NONE"
          /\ session[f].user = session[s].user /\ session[f].posture = session[s].posture
      BY <1>0, <3>1 DEF Founded
    <3>3. /\ session'[f].status # "NONE"
          /\ session'[f].user = session[f].user /\ session'[f].posture = session[f].posture
      BY <3>2, RowsKept
    <3> QED
      BY <3>1, <3>2, <3>3
  <2> QED
    BY <1>2, <2>1, <2>2, <2>3 DEF SessionStep
<1> QED
  BY <1>1, <1>2

\* The family of f has one row that was not rotated away.
HeadOf(f, h) == /\ h \in Family(f)
                /\ \A x \in Family(f) : session[x].status # "ROTATED" <=> x = h

\* A rotation moves the head, a revocation keeps it, a login founds it.
LEMMA OneHeadNext ==
    ASSUME TypeOK, Founded, OneHeadPerFamily, SessionStep
    PROVE  OneHeadPerFamily'
<1> SUFFICES ASSUME NEW y \in Session, session'[y].status # "NONE",
                    NEW f, session'[y].family = f
             PROVE  \E h \in Session : HeadOf(f, h)'
  BY DEF OneHeadPerFamily, HeadOf, Family
<1>0. ASSUME NEW x \in Session, session[x].status # "NONE"
      PROVE  \E h \in Session : HeadOf(session[x].family, h)
  BY <1>0 DEF OneHeadPerFamily, HeadOf, Family
<1>1. CASE session' = session
  BY <1>0, <1>1 DEF HeadOf, Family
<1>2. ASSUME NEW S, session' = RevokeLive(S)
      PROVE  \E h \in Session : HeadOf(f, h)'
  <2>1. \A x \in Session : /\ session'[x].family = session[x].family
                           /\ session'[x].status = "NONE" <=> session[x].status = "NONE"
                           /\ session'[x].status = "ROTATED" <=> session[x].status = "ROTATED"
    BY <1>2, RevokeLiveEffect DEF Live
  <2>2. PICK h \in Session : HeadOf(f, h)
    BY <1>0, <2>1
  <2>3. HeadOf(f, h)'
    BY <2>1, <2>2 DEF HeadOf, Family
  <2> QED
    BY <2>3
<1>3. ASSUME NEW s \in Session, Founds(s)
      PROVE  \E h \in Session : HeadOf(f, h)'
  <2>1. \A x \in Session : session[x].status # "NONE" => session[x].family # s
    BY <1>3 DEF Founded, Founds, Free
  <2>2. CASE y = s
    <3>1. HeadOf(s, s)'
      BY <1>3, <2>1 DEF HeadOf, Family, Founds
    <3> QED
      BY <1>3, <2>2, <3>1 DEF Founds
  <2>3. CASE y # s
    <3>1. session'[y] = session[y]
      BY <1>3, <2>3 DEF Founds
    <3>2. PICK h \in Session : HeadOf(f, h)
      BY <1>0, <3>1
    <3>3. f # s
      BY <2>1, <3>1
    <3>4. HeadOf(f, h)'
      BY <1>3, <3>2, <3>3 DEF HeadOf, Family, Founds, Free
    <3> QED
      BY <3>4
  <2> QED
    BY <2>2, <2>3
<1>4. ASSUME NEW s \in Session, NEW next \in Session, Refresh(s, next)
      PROVE  \E h \in Session : HeadOf(f, h)'
  <2>1. /\ s # next /\ session[s].status = "LIVE" /\ session[next].status = "NONE"
        /\ session'[next] = session[s]
        /\ session'[s].status = "ROTATED" /\ session'[s].family = session[s].family
        /\ \A x \in Session : x # s /\ x # next => session'[x] = session[x]
    BY <1>4, RefreshEffect DEF Refresh, Live, Free
  <2>2. HeadOf(session[s].family, s)
    BY <1>0, <2>1 DEF HeadOf, Family
  <2>3. CASE f = session[s].family
    <3>1. HeadOf(f, next)'
      BY <2>1, <2>2, <2>3 DEF HeadOf, Family
    <3> QED
      BY <3>1
  <2>4. CASE f # session[s].family
    <3>1. session'[y] = session[y]
      BY <2>1, <2>4
    <3>2. PICK h \in Session : HeadOf(f, h)
      BY <1>0, <3>1
    <3>3. HeadOf(f, h)'
      BY <2>1, <2>4, <3>2 DEF HeadOf, Family
    <3> QED
      BY <3>3
  <2> QED
    BY <2>3, <2>4
<1> QED
  BY <1>1, <1>2, <1>3, <1>4 DEF SessionStep

\* Only a replay is recorded as one.
LEMMA ReplayedStep ==
    ASSUME [Next]_vars
    PROVE  replayed' = replayed \/ \E s \in Session : RefreshReplay(s)
BY DEF Next, vars, SignIn, Passwords, Team, Abandon, LoginVerify, LoginIssue, Refresh,
       Logout, VerifyEmail, ChangeVerify, ChangeCommit, ResetPassword,
       OperatorResetBegin, OperatorReset, Review, Deactivate, ChangeRole, Reactivate,
       TransferBegin, RetryTransfer, RecoverBegin, MoveOwnership, RevokeFamily,
       RevokeAll, AcceptInvite, OrganisationTransition

\* A family with no live row gets none.
LEMMA DeadStaysDead ==
    ASSUME TypeOK, Founded, SessionStep, NEW f \in Session, session[f].status # "NONE",
           \A x \in Family(f) : ~Live(x), NEW y \in Session,
           session'[y].family = f, session'[y].status # "NONE"
    PROVE  session'[y].status # "LIVE"
<1>1. CASE session' = session
  BY <1>1 DEF Family, Live
<1>2. ASSUME NEW S, session' = RevokeLive(S) PROVE session'[y].status # "LIVE"
  BY <1>2, RevokeLiveEffect DEF Family, Live
<1>3. ASSUME NEW s \in Session, Founds(s) PROVE session'[y].status # "LIVE"
  BY <1>3 DEF Founds, Free, Family, Live
<1>4. ASSUME NEW s \in Session, NEW next \in Session, Refresh(s, next)
      PROVE  session'[y].status # "LIVE"
  <2>1. session[s].family # f
    BY <1>4 DEF Refresh, Live, Family
  <2>2. y # s /\ y # next
    BY <1>4, <2>1, RefreshEffect
  <2> QED
    BY <1>4, <2>2, RefreshEffect DEF Family, Live
<1> QED
  BY <1>1, <1>2, <1>3, <1>4 DEF SessionStep

\* The family invariant is inductive.
LEMMA FamiliesNext == TypeOK /\ Families /\ [Next]_vars => Families'
<1> SUFFICES ASSUME TypeOK, Families, [Next]_vars PROVE Families'
  OBVIOUS
<1>0. SessionStep
  BY SessionStepNext
<1>1. Founded' /\ OneHeadPerFamily'
  BY <1>0, FoundedNext, OneHeadNext DEF Families
<1>2. ASSUME NEW f \in replayed
      PROVE  session'[f].status # "NONE" /\ \A y \in Family(f)' : ~Live(y)'
  <2>1. f \in Session /\ session[f].status # "NONE" /\ \A x \in Family(f) : ~Live(x)
    BY DEF TypeOK, Families, ReplayedExists, ReplayedFamilyIsDead
  <2>2. session'[f].status # "NONE"
    BY <1>0, <2>1, RowsKept
  <2>3. ASSUME NEW y \in Session, session'[y].status # "NONE", session'[y].family = f
        PROVE  session'[y].status # "LIVE"
    BY <1>0, <2>1, <2>3, DeadStaysDead DEF Families
  <2> QED
    BY <2>2, <2>3 DEF Family, Live
<1>3. CASE replayed' = replayed
  BY <1>1, <1>2, <1>3 DEF Families, ReplayedExists, ReplayedFamilyIsDead
<1>4. ASSUME NEW s \in Session, RefreshReplay(s)
      PROVE  Families'
  <2> DEFINE f == session[s].family
  <2>1. /\ session[s].status # "NONE" /\ replayed' = replayed \cup {f}
        /\ session' = RevokeLive(Family(f))
    BY <1>4 DEF RefreshReplay
  <2>2. f \in Session /\ session[f].status # "NONE"
    BY <2>1 DEF Families, Founded, TypeOK, SessionRow
  <2>3. session'[f].status # "NONE"
    BY <1>0, <2>2, RowsKept
  <2>4. ASSUME NEW y \in Session, session'[y].status # "NONE", session'[y].family = f
        PROVE  session'[y].status # "LIVE"
    <3>1. /\ session'[y].family = session[y].family
          /\ session'[y].status = IF y \in Family(f) /\ Live(y) THEN "REVOKED"
                                                                 ELSE session[y].status
      BY <2>1, RevokeLiveEffect
    <3> QED
      BY <2>4, <3>1 DEF Family, Live
  <2> QED
    BY <1>1, <1>2, <2>1, <2>3, <2>4
       DEF Families, ReplayedExists, ReplayedFamilyIsDead, Family, Live
<1> QED
  BY <1>3, <1>4, ReplayedStep

\* A session family: one row at most can be refreshed, a quarantined one never
\* is, and every row of it has the same user and posture.
THEOREM FamiliesHold == Spec => []FamiliesSound
<1>1. TypeOK /\ Families => FamiliesSound
  BY DEF Families, Founded, FamiliesSound, FamilyKeepsPosture
<1> QED
  BY <1>1, FamiliesInit, FamiliesNext, TypeCorrect, PTL DEF Spec

-----------------------------------------------------------------------------
(* Memberships *)

SameMembership(u) ==
    /\ user'[u].role = user[u].role
    /\ user'[u].life = user[u].life
    /\ user'[u].version = user[u].version
Bumped(u) ==
    /\ user[u].life \in {"ACTIVE", "SUSPENDED"}
    /\ user'[u].life # "ABSENT"
    /\ user'[u].version = user[u].version + 1
UserStep == \A u \in User :
    SameMembership(u) \/ Bumped(u) \/ user[u].life = "ABSENT"

\* An outstanding review is of an existing membership, never ahead of it, and
\* behind it unless role and lifecycle are still the reviewed ones.
Behind(r) ==
    /\ user[r.target].life # "ABSENT"
    /\ r.version <= user[r.target].version
    /\ r.version = user[r.target].version =>
          r.role = user[r.target].role /\ r.life = user[r.target].life
Reviews == \A h \in Handler : IsOp(h, "manage") => Behind(request[h])

\* No review is outstanding at registration.
LEMMA ReviewsInit == Init => Reviews
BY DEF Init, Reviews, IsOp, Idle

\* A request that passes the version check has a real actor and target.
LEMMA ManageTarget ==
    ASSUME TypeOK, Reviews, NEW h \in Handler, Reviewed(h)
    PROVE  /\ request[h].actor \in User /\ request[h].target \in User
           /\ user[request[h].target].life # "ABSENT"
BY RequestType DEF Reviewed, ManageRequest, Reviews, Behind

\* A change of one existing membership moves that version and no other.
LEMMA OneMemberStep ==
    ASSUME TypeOK, NEW t \in User, NEW role, NEW life,
           user' = [user EXCEPT ![t] = Member(t, role, life)],
           user[t].life \in {"ACTIVE", "SUSPENDED"}, life # "ABSENT"
    PROVE  UserStep
<1>1. Bumped(t)
  BY MemberEffect DEF Bumped, TypeOK
<1>2. ASSUME NEW u \in User, u # t PROVE SameMembership(u)
  BY <1>2 DEF SameMembership, TypeOK
<1> QED
  BY <1>1, <1>2 DEF UserStep

\* No action does anything else to a membership.
LEMMA UserStepNext == TypeOK /\ Snapshots /\ Reviews /\ [Next]_vars => UserStep
<1> SUFFICES ASSUME TypeOK, Snapshots, Reviews, [Next]_vars PROVE UserStep
  OBVIOUS
<1>0. ASSUME user' = user PROVE UserStep
  BY <1>0 DEF UserStep, SameMembership
<1>1. CASE SignIn
  <2>1. ASSUME NEW u \in User, VerifyEmail(u) PROVE UserStep
    BY <2>1 DEF VerifyEmail, UserStep, SameMembership, TypeOK, UserRow
  <2> QED
    BY <1>0, <1>1, <2>1 DEF SignIn, LoginVerify, LoginIssue, Refresh, RefreshReplay, Logout
<1>2. CASE Passwords
  <2>1. ASSUME NEW u, ReplacePassword(u) PROVE UserStep
    BY <2>1 DEF ReplacePassword, UserStep, SameMembership, TypeOK, UserRow
  <2>2. ASSUME NEW h \in Handler, OperatorReset(h) PROVE UserStep
    BY <2>2 DEF OperatorReset, UserStep, SameMembership, TypeOK, UserRow
  <2> QED
    BY <1>0, <1>2, <2>1, <2>2 DEF Passwords, ChangeVerify, ChangeCommit, ResetPassword,
                                  OperatorResetBegin
<1>3. CASE Team
  <2>1. ASSUME NEW h \in Handler, NEW life \in {"SUSPENDED", "REMOVED"}, Deactivate(h, life)
        PROVE  UserStep
    <3> DEFINE t == request[h].target
    <3>1. t \in User /\ user[t].life \in UserLifecycle \ {"ABSENT"}
      BY <2>1, ManageTarget DEF Deactivate, TypeOK, UserRow
    <3>2. user[t].life \in {"ACTIVE", "SUSPENDED"}
      <4>1. CASE life = "SUSPENDED"
        BY <2>1, <4>1 DEF Deactivate
      <4>2. CASE life = "REMOVED"
        BY <2>1, <3>1, <4>2 DEF Deactivate, UserLifecycle
      <4> QED
        BY <4>1, <4>2
    <3>3. user' = [user EXCEPT ![t] = Member(t, user[t].role, life)]
      BY <2>1 DEF Deactivate
    <3> QED
      BY <3>1, <3>2, <3>3, OneMemberStep
  <2>2. ASSUME NEW h \in Handler, NEW role \in Role, ChangeRole(h, role)
        PROVE  UserStep
    BY <2>2, ManageTarget, OneMemberStep DEF ChangeRole
  <2>3. ASSUME NEW h \in Handler, Reactivate(h)
        PROVE  UserStep
    BY <2>3, ManageTarget, OneMemberStep DEF Reactivate
  <2>4. ASSUME NEW h \in Handler, MoveOwnership(h)
        PROVE  UserStep
    <3> DEFINE from == request[h].from
               to == request[h].to
    <3>0. Serial(h) /\ Undisturbed(h) /\ request[h].op # "reset"
      BY <2>4 DEF MoveOwnership, Serial, SerialOp
    <3>1. from \in User /\ to \in User /\ from # to
      BY <3>0, SerialUsers, AtCommit
    <3>2. /\ user[from].life = "ACTIVE" /\ user[to].life = "ACTIVE"
          /\ user'[from] = Member(from, "ADMIN", "ACTIVE")
          /\ user'[to] = Member(to, "OWNER", "ACTIVE")
          /\ \A u \in User : u # from /\ u # to => user'[u] = user[u]
      BY <2>4, <3>0, <3>1, AtCommit DEF MoveOwnership, TypeOK
    <3>3. Bumped(from) /\ Bumped(to)
      BY <3>1, <3>2, MemberEffect DEF Bumped
    <3> QED
      BY <3>2, <3>3 DEF UserStep, SameMembership
  <2>5. ASSUME NEW u \in User, NEW role \in Role, NEW s \in Session, AcceptInvite(u, role, s)
        PROVE  UserStep
    BY <2>5 DEF AcceptInvite, UserStep, SameMembership, TypeOK
  <2> QED
    BY <1>0, <1>3, <2>1, <2>2, <2>3, <2>4, <2>5, ManageTarget
       DEF Team, Review, TransferBegin, RetryTransfer, RecoverBegin, RevokeFamily, RevokeAll
<1> QED
  BY <1>0, <1>1, <1>2, <1>3 DEF Next, Abandon, OrganisationTransition, vars

\* Reviews are never ahead of the membership.
LEMMA ReviewsNext == TypeOK /\ Snapshots /\ Reviews /\ [Next]_vars => Reviews'
<1> SUFFICES ASSUME TypeOK, Snapshots, Reviews, [Next]_vars, NEW h \in Handler, IsOp(h, "manage")'
             PROVE  Behind(request[h])'
  BY DEF Reviews
<1>0. TypeOK' /\ UserStep
  BY TypeNext, UserStepNext
<1>1. CASE request'[h] = request[h]
  <2> DEFINE r == request[h]
             t == r.target
  <2>1. Behind(r) /\ r \in ManageRequest
    BY <1>1, RequestType DEF Reviews, IsOp
  <2>2. t \in User /\ r.version \in Nat
    BY <2>1 DEF ManageRequest
  <2>3. user[t].version \in Nat
    BY <2>2 DEF TypeOK, UserRow
  <2>4. SameMembership(t) \/ Bumped(t)
    BY <1>0, <2>1, <2>2 DEF UserStep, Behind
  <2>5. CASE SameMembership(t)
    BY <1>1, <2>1, <2>5 DEF Behind, SameMembership
  <2>6. CASE Bumped(t)
    <3>1. r.version <= user[t].version /\ user'[t].version = user[t].version + 1
          /\ user'[t].life # "ABSENT"
      BY <2>1, <2>6 DEF Behind, Bumped
    <3>2. r.version <= user'[t].version /\ r.version # user'[t].version
      BY <2>2, <2>3, <3>1
    <3> QED
      BY <1>1, <3>1, <3>2 DEF Behind
  <2> QED
    BY <2>4, <2>5, <2>6
<1>2. ASSUME user' = user, NEW s \in Session, NEW t \in User, Review(h, s, t)
      PROVE  Behind(request[h])'
  <2>1. /\ request'[h].target = t /\ request'[h].version = user[t].version
        /\ request'[h].role = user[t].role /\ request'[h].life = user[t].life
        /\ user[t].life # "ABSENT"
    BY <1>2 DEF Review, TypeOK
  <2>2. user[t].version <= user[t].version
    BY DEF TypeOK, UserRow
  <2> QED
    BY <1>2, <2>1, <2>2 DEF Behind
<1> QED
  BY <1>1, <1>2, RequestStepNext DEF RequestStep, KeepsSnapshot, Serial, SerialOp, IsOp

\* The expected version an administrator sends back pins the very role and
\* lifecycle that was reviewed, however many requests are in flight.
THEOREM VersionsPinReviews == Spec => []VersionPinsReview
<1>1. Reviews => VersionPinsReview
  BY DEF Reviews, Behind, VersionPinsReview
<1> QED
  BY <1>1, ReviewsInit, ReviewsNext, SnapshotsHold, TypeCorrect, PTL DEF Spec

\* A removed membership stays removed, in its role, for ever.
THEOREM RemovedTerminal == Spec => RemovedIsTerminal
<1>1. TypeOK /\ Snapshots /\ Reviews /\ [Next]_vars =>
        [\A u \in User : user[u].life = "REMOVED" =>
           user'[u].life = "REMOVED" /\ user'[u].role = user[u].role]_vars
  BY UserStepNext DEF UserStep, SameMembership, Bumped
<1> QED
  BY <1>1, ReviewsInit, ReviewsNext, SnapshotsHold, TypeCorrect, PTL
     DEF Spec, RemovedIsTerminal

-----------------------------------------------------------------------------
(* One active owner *)

ActiveOwner(u) == user[u].role = "OWNER" /\ user[u].life = "ACTIVE"

\* A step that keeps every active owner keeps the one.
LEMMA OwnersKept ==
    ASSUME OneActiveOwner, \A u \in User : ActiveOwner(u)' <=> ActiveOwner(u)
    PROVE  OneActiveOwner'
BY DEF OneActiveOwner, ActiveOwner

\* Changing a membership that is not the owner's keeps the owner.
LEMMA NonOwnerStep ==
    ASSUME TypeOK, OneActiveOwner, NEW t \in User, NEW role, NEW life,
           user[t].role # "OWNER", role # "OWNER",
           user' = [user EXCEPT ![t] = Member(t, role, life)]
    PROVE  OneActiveOwner'
<1>1. ~ActiveOwner(t) /\ ~ActiveOwner(t)'
  BY MemberEffect DEF ActiveOwner, TypeOK
<1>2. ASSUME NEW u \in User, u # t PROVE ActiveOwner(u)' <=> ActiveOwner(u)
  BY <1>2 DEF ActiveOwner, TypeOK
<1> QED
  BY <1>1, <1>2, OwnersKept

\* There is one active owner after every step.
LEMMA OwnerNext == TypeOK /\ Snapshots /\ OneActiveOwner /\ [Next]_vars => OneActiveOwner'
<1> SUFFICES ASSUME TypeOK, Snapshots, OneActiveOwner, [Next]_vars PROVE OneActiveOwner'
  OBVIOUS
<1>0. ASSUME user' = user PROVE OneActiveOwner'
  BY <1>0 DEF OneActiveOwner
<1>1. CASE SignIn
  <2>1. ASSUME NEW u \in User, VerifyEmail(u) PROVE OneActiveOwner'
    <3>1. \A v \in User : ActiveOwner(v)' <=> ActiveOwner(v)
      BY <2>1 DEF VerifyEmail, ActiveOwner, TypeOK, UserRow
    <3> QED
      BY <3>1, OwnersKept
  <2> QED
    BY <1>0, <1>1, <2>1 DEF SignIn, LoginVerify, LoginIssue, Refresh, RefreshReplay, Logout
<1>2. CASE Passwords
  <2>1. ASSUME NEW u, ReplacePassword(u) PROVE OneActiveOwner'
    <3>1. \A v \in User : ActiveOwner(v)' <=> ActiveOwner(v)
      BY <2>1 DEF ReplacePassword, ActiveOwner, TypeOK, UserRow
    <3> QED
      BY <3>1, OwnersKept
  <2>2. ASSUME NEW h \in Handler, OperatorReset(h) PROVE OneActiveOwner'
    <3>1. \A v \in User : ActiveOwner(v)' <=> ActiveOwner(v)
      BY <2>2 DEF OperatorReset, ActiveOwner, TypeOK, UserRow
    <3> QED
      BY <3>1, OwnersKept
  <2> QED
    BY <1>0, <1>2, <2>1, <2>2 DEF Passwords, ChangeVerify, ChangeCommit, ResetPassword,
                                  OperatorResetBegin
<1>3. CASE Team
  <2>0. ASSUME NEW h \in Handler, Reviewed(h)
        PROVE  request[h].actor \in User /\ request[h].target \in User
    BY <2>0, RequestType DEF Reviewed, ManageRequest
  <2>1. ASSUME NEW h \in Handler, NEW life \in {"SUSPENDED", "REMOVED"}, Deactivate(h, life)
        PROVE  OneActiveOwner'
    BY <2>0, <2>1, NonOwnerStep DEF Deactivate, CanManageMember
  <2>2. ASSUME NEW h \in Handler, NEW role \in Role, ChangeRole(h, role)
        PROVE  OneActiveOwner'
    BY <2>0, <2>2, NonOwnerStep DEF ChangeRole
  <2>3. ASSUME NEW h \in Handler, Reactivate(h)
        PROVE  OneActiveOwner'
    BY <2>0, <2>3, NonOwnerStep DEF Reactivate, CanManageMember
  <2>4. ASSUME NEW h \in Handler, MoveOwnership(h)
        PROVE  OneActiveOwner'
    <3> DEFINE from == request[h].from
               to == request[h].to
    <3>0. Serial(h) /\ Undisturbed(h) /\ request[h].op # "reset"
      BY <2>4 DEF MoveOwnership, Serial, SerialOp
    <3>1. from \in User /\ to \in User /\ from # to
      BY <3>0, SerialUsers, AtCommit
    <3>2. /\ ActiveOwner(from)
          /\ user'[from] = Member(from, "ADMIN", "ACTIVE")
          /\ user'[to] = Member(to, "OWNER", "ACTIVE")
          /\ \A u \in User : u # from /\ u # to => user'[u] = user[u]
      BY <2>4, <3>0, <3>1, AtCommit DEF MoveOwnership, ActiveOwner, TypeOK
    <3>3. /\ user'[from].role = "ADMIN"
          /\ user'[to].role = "OWNER" /\ user'[to].life = "ACTIVE"
      BY <3>1, <3>2, MemberEffect
    <3>4. \A u \in User : ActiveOwner(u) => u = from
      BY <3>1, <3>2 DEF OneActiveOwner, ActiveOwner
    <3>5. ASSUME NEW u \in User PROVE ActiveOwner(u)' <=> u = to
      <4>1. CASE u = from
        BY <3>1, <3>3, <4>1 DEF ActiveOwner
      <4>2. CASE u = to
        BY <3>3, <4>2 DEF ActiveOwner
      <4>3. CASE u # from /\ u # to
        BY <3>2, <3>4, <4>3 DEF ActiveOwner
      <4> QED
        BY <4>1, <4>2, <4>3
    <3> QED
      BY <3>1, <3>5 DEF OneActiveOwner, ActiveOwner
  <2>5. ASSUME NEW u \in User, NEW role \in Role, NEW s \in Session, AcceptInvite(u, role, s)
        PROVE  OneActiveOwner'
    <3>1. \A v \in User : ActiveOwner(v)' <=> ActiveOwner(v)
      BY <2>5 DEF AcceptInvite, ActiveOwner, TypeOK
    <3> QED
      BY <3>1, OwnersKept
  <2> QED
    BY <1>0, <1>3, <2>0, <2>1, <2>2, <2>3, <2>4, <2>5
       DEF Team, Review, TransferBegin, RetryTransfer, RecoverBegin, RevokeFamily, RevokeAll
<1> QED
  BY <1>0, <1>1, <1>2, <1>3 DEF Next, Abandon, OrganisationTransition, vars

\* Exactly one active owner, for any number of members and administrators.
THEOREM OneOwner == Spec => []OneActiveOwner
<1>1. Init => OneActiveOwner
  BY OwnerAssumption DEF Init, OneActiveOwner
<1> QED
  BY <1>1, OwnerNext, SnapshotsHold, TypeCorrect, PTL DEF Spec
=============================================================================
