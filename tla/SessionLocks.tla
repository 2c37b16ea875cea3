---------------------------- MODULE SessionLocks ----------------------------
(***************************************************************************)
(* The session transactions of one account, statement by statement, under  *)
(* PostgreSQL's READ COMMITTED: a statement sees the rows committed when   *)
(* it started, waits for the locks of other transactions, and re-reads     *)
(* each row it waited for.  Rows inserted after its start stay invisible   *)
(* to it.  This is the level at which "revoke every session" can miss the  *)
(* successor that a concurrent refresh is about to commit.  The Serial     *)
(* transactions run under SERIALIZABLE: all their statements see the rows  *)
(* committed when the first one started, and writing or locking a row that *)
(* has changed since is an error (40001).                                  *)
(*                                                                         *)
(*   Refresh      rotateSessionTokens  (user FOR SHARE, family FOR UPDATE) *)
(*   Logout       revokeSessionToken   (the same locks)                    *)
(*   Login        issueSessionTokensWithClient (user FOR SHARE, factor)    *)
(*   Lifecycle    suspend, remove, changePassword, resetPassword: user FOR *)
(*                UPDATE, then updateMany                                  *)
(*   Serial       transferOwnership, executeOwnershipRecovery, the         *)
(*                operator's resetPersonalServerPassword: the same,        *)
(*                SERIALIZABLE                                             *)
(*   Installation revokeInstallationSessions: the cutoff row, updateMany   *)
(*   Factor       completeUserSecondFactor, removeUserSecondFactor: the    *)
(*                factor row, then updateMany                              *)
(***************************************************************************)
EXTENDS Naturals, FiniteSets

CONSTANTS
    MaxSession,      \* session ids are 1..MaxSession; row locks go by id
    MaxOpen,         \* bound on the transactions open at once
    Refresh, Logout, Login, Lifecycle, Serial, Installation, Factor  \* transactions

Session == 1..MaxSession
None == 0
Bearer == Refresh \cup Logout                      \* present a token
Bulk == Lifecycle \cup Installation \cup Factor    \* revoke every session
Tx == Bearer \cup Bulk \cup Serial \cup Login

ASSUME SessionBound == MaxSession \in Nat \ {0} /\ MaxOpen \in Nat

\* A transaction is of one kind.
ASSUME KindAssumption ==
    /\ Bearer \cap Bulk = {} /\ (Bearer \cup Bulk) \cap Login = {}
    /\ Serial \cap (Bearer \cup Bulk \cup Login) = {}
    /\ Refresh \cap Logout = {}
    /\ Lifecycle \cap Installation = {} /\ (Lifecycle \cup Installation) \cap Factor = {}

VARIABLES
    row,      \* committed AuthSession rows: "NONE", "LIVE" or "DEAD"
    fam,      \* familyId, the founding session
    pc,       \* where each transaction is
    holds,    \* its locks on the user, factor and cutoff rows
    locked,   \* its FOR UPDATE locks on session rows
    todo,     \* rows its running statement still has to visit
    kill,     \* rows it has revoked, uncommitted
    new,      \* the row it inserts (for a login, its family)
    token,    \* the session whose token it presents
    cutoff,   \* families that started before the installation cutoff
    covered,  \* families that an installation cutoff or a Serial will end
    ended     \* <<f, t>>: committed transaction t has ended family f

vars == <<row, fam, pc, holds, locked, todo, kill, new, token, cutoff, covered, ended>>

-----------------------------------------------------------------------------
Lock == {"user", "factor", "cutoff"}
Mode == {"SHARE", "UPDATE"}
PC == {"start", "user", "family", "decide", "factor", "insert", "cutoff",
       "scan", "revoke", "commit", "done"}

\* The rows, the locks and the transactions keep their types.
TypeOK ==
    /\ row \in [Session -> {"NONE", "LIVE", "DEAD"}]
    /\ fam \in [Session -> Session]
    /\ pc \in [Tx -> PC]
    /\ holds \in [Tx -> SUBSET (Lock \X Mode)]
    /\ locked \in [Tx -> SUBSET Session]
    /\ todo \in [Tx -> SUBSET Session]
    /\ kill \in [Tx -> SUBSET Session]
    /\ new \in [Tx -> Session \cup {None}]
    /\ token \in [Tx -> Session \cup {None}]
    /\ cutoff \in SUBSET Session
    /\ covered \in [Tx -> SUBSET Session]
    /\ ended \in SUBSET (Session \X Tx)

\* One session family exists, with its founding session live.
Init ==
    /\ row = [s \in Session |-> IF s = 1 THEN "LIVE" ELSE "NONE"]
    /\ fam = [s \in Session |-> s]
    /\ pc = [t \in Tx |-> "start"]
    /\ holds = [t \in Tx |-> {}]
    /\ locked = [t \in Tx |-> {}]
    /\ todo = [t \in Tx |-> {}]
    /\ kill = [t \in Tx |-> {}]
    /\ new = [t \in Tx |-> None]
    /\ token = [t \in Tx |-> None]
    /\ cutoff = {}
    /\ covered = [t \in Tx |-> {}]
    /\ ended = {}

Committed == {s \in Session : row[s] # "NONE"}
Family(f) == {s \in Committed : fam[s] = f}
Free(s) == row[s] = "NONE" /\ \A t \in Tx : new[t] # s

Open == {t \in Tx : pc[t] \notin {"start", "done"}}
Begin(t) == pc[t] = "start" /\ Cardinality(Open) < MaxOpen

Goto(t, l) == pc' = [pc EXCEPT ![t] = l]

\* PostgreSQL grants SHARE beside SHARE and nothing beside UPDATE.
CanTake(t, lock, mode) ==
    \A o \in Tx \ {t} :
        /\ <<lock, "UPDATE">> \notin holds[o]
        /\ mode = "UPDATE" => <<lock, "SHARE">> \notin holds[o]
Take(t, lock, mode) ==
    /\ CanTake(t, lock, mode)
    /\ holds' = [holds EXCEPT ![t] = @ \cup {<<lock, mode>>}]

RowFree(t, s) == \A o \in Tx \ {t} : s \notin locked[o]

-----------------------------------------------------------------------------
(* A token is presented: lockPrincipalAndFamily, then the decision *)

\* The lock statement starts: its snapshot fixes which family rows it visits.
BearerStart(t, s) ==
    /\ Begin(t)
    /\ s \in Committed
    /\ token' = [token EXCEPT ![t] = s]
    /\ todo' = [todo EXCEPT ![t] = Family(fam[s])]
    /\ Goto(t, "user")
    /\ UNCHANGED <<row, fam, holds, locked, kill, new, cutoff, covered, ended>>

BearerUser(t) ==
    /\ pc[t] = "user"
    /\ Take(t, "user", "SHARE")
    /\ Goto(t, "family")
    /\ UNCHANGED <<row, fam, locked, todo, kill, new, token, cutoff, covered, ended>>

\* Mutant: SKIP LOCKED instead of waiting for the row.
BearerRowNoWait(t, s) ==
    /\ pc[t] = "family"
    /\ s \in todo[t] /\ \A x \in todo[t] : s <= x
    /\ locked' = [locked EXCEPT ![t] = @ \cup {s}]
    /\ todo' = [todo EXCEPT ![t] = @ \ {s}]
    /\ Goto(t, IF todo[t] = {s} THEN "decide" ELSE "family")
    /\ UNCHANGED <<row, fam, holds, kill, new, token, cutoff, covered, ended>>

\* ORDER BY id FOR UPDATE, one row after the other.
BearerRow(t, s) ==
    /\ pc[t] = "family"
    /\ s \in todo[t] /\ \A x \in todo[t] : s <= x
    /\ RowFree(t, s)
    /\ locked' = [locked EXCEPT ![t] = @ \cup {s}]
    /\ todo' = [todo EXCEPT ![t] = @ \ {s}]
    /\ Goto(t, IF todo[t] = {s} THEN "decide" ELSE "family")
    /\ UNCHANGED <<row, fam, holds, kill, new, token, cutoff, covered, ended>>

\* A refresh of a live session revokes it and goes on to insert its successor.
RefreshRotate(t, s) ==
    /\ pc[t] = "decide"
    /\ row[token[t]] = "LIVE"
    /\ Free(s)
    /\ kill' = [kill EXCEPT ![t] = {token[t]}]
    /\ new' = [new EXCEPT ![t] = s]
    /\ fam' = [fam EXCEPT ![s] = fam[token[t]]]
    /\ Goto(t, "insert")
    /\ UNCHANGED <<row, holds, locked, todo, token, cutoff, covered, ended>>

\* A replayed refresh and every logout go on to revoke the whole family.
BearerEnd(t) ==
    /\ pc[t] = "decide"
    /\ t \in Logout \/ row[token[t]] = "DEAD"
    /\ Goto(t, "scan")
    /\ UNCHANGED <<row, fam, holds, locked, todo, kill, new, token, cutoff, covered, ended>>

-----------------------------------------------------------------------------
(* Login *)

\* Mutant: the family is taken from the presented token; a login has none.
LoginStartNoFamily(t, s) ==
    /\ Begin(t)
    /\ Free(s)
    /\ Take(t, "user", "SHARE")
    /\ new' = [new EXCEPT ![t] = s]
    /\ fam' = [fam EXCEPT ![s] = token[t]]
    /\ Goto(t, "factor")
    /\ UNCHANGED <<row, locked, todo, kill, token, cutoff, covered, ended>>

\* familyCreatedAt is the time the transaction started.
LoginStart(t, s) ==
    /\ Begin(t)
    /\ Free(s)
    /\ Take(t, "user", "SHARE")
    /\ new' = [new EXCEPT ![t] = s]
    /\ fam' = [fam EXCEPT ![s] = s]
    /\ Goto(t, "factor")
    /\ UNCHANGED <<row, locked, todo, kill, token, cutoff, covered, ended>>

\* verifyUserLoginSecondFactor: the factor row, FOR UPDATE.
LoginFactor(t) ==
    /\ pc[t] = "factor"
    /\ Take(t, "factor", "UPDATE")
    /\ Goto(t, "insert")
    /\ UNCHANGED <<row, fam, locked, todo, kill, new, token, cutoff, covered, ended>>

\* AuthSession_family_cutoff_fn: every insert reads the cutoff FOR SHARE and is
\* refused for a family that started before it (see Abort).
InsertSession(t) ==
    /\ pc[t] = "insert"
    /\ Take(t, "cutoff", "SHARE")
    /\ fam[new[t]] \notin cutoff
    /\ Goto(t, "commit")
    /\ UNCHANGED <<row, fam, locked, todo, kill, new, token, cutoff, covered, ended>>

-----------------------------------------------------------------------------
(* Revoking every session of the account *)

\* Mutant: the user row is only locked FOR SHARE.
LifecycleLockShared(t) ==
    /\ Begin(t)
    /\ Take(t, "user", "SHARE")
    /\ Goto(t, "scan")
    /\ UNCHANGED <<row, fam, locked, todo, kill, new, token, cutoff, covered, ended>>

LifecycleLock(t) ==
    /\ Begin(t)
    /\ Take(t, "user", "UPDATE")
    /\ Goto(t, "scan")
    /\ UNCHANGED <<row, fam, locked, todo, kill, new, token, cutoff, covered, ended>>

Started == {fam[s] : s \in Committed} \cup ({new[t] : t \in Login} \ {None})

\* UPDATE "InstallationSessionCutoff": clock_timestamp() is read, ...
InstallationStart(t) ==
    /\ Begin(t)
    /\ covered' = [covered EXCEPT ![t] = Started]
    /\ Goto(t, "cutoff")
    /\ UNCHANGED <<row, fam, holds, locked, todo, kill, new, token, cutoff, ended>>

\* ... then the row is locked; until the commit no insert can read it.
InstallationLock(t) ==
    /\ pc[t] = "cutoff"
    /\ Take(t, "cutoff", "UPDATE")
    /\ Goto(t, "scan")
    /\ UNCHANGED <<row, fam, locked, todo, kill, new, token, cutoff, covered, ended>>

FactorLock(t) ==
    /\ Begin(t)
    /\ Take(t, "factor", "UPDATE")
    /\ Goto(t, "scan")
    /\ UNCHANGED <<row, fam, locked, todo, kill, new, token, cutoff, covered, ended>>

\* A statement is over once every row it found has been visited.
Visit(t, rows) ==
    /\ todo' = [todo EXCEPT ![t] = rows]
    /\ Goto(t, IF rows = {} THEN "commit" ELSE "revoke")

\* The first statement of a serializable command: its snapshot is everything it
\* will ever see, the live sessions among it ...
SerialStart(t) ==
    /\ Begin(t)
    /\ todo' = [todo EXCEPT ![t] = {s \in Committed : row[s] = "LIVE"}]
    /\ covered' = [covered EXCEPT ![t] = {fam[s] : s \in Committed}]
    /\ Goto(t, "user")
    /\ UNCHANGED <<row, fam, holds, locked, kill, new, token, cutoff, ended>>

\* ... and only then is the user row locked, once nobody shares it any more.
\* (That the row itself was changed meanwhile is one more reason to Abort.)
SerialLock(t) ==
    /\ pc[t] = "user"
    /\ Take(t, "user", "UPDATE")
    /\ Visit(t, todo[t])
    /\ UNCHANGED <<row, fam, locked, kill, new, token, cutoff, covered, ended>>

\* updateMany({ where: { ..., revokedAt: null } }) starts: its snapshot.
Scan(t) ==
    /\ pc[t] = "scan"
    /\ Visit(t, {s \in Committed : /\ row[s] = "LIVE"
                                   /\ t \in Bearer => fam[s] = fam[token[t]]})
    /\ UNCHANGED <<row, fam, holds, locked, kill, new, token, cutoff, covered, ended>>

\* ... and visits one row, re-reading it once its lock is granted; a Serial
\* fails if the row is not the one it saw.
RevokeRow(t, s) ==
    /\ pc[t] = "revoke"
    /\ s \in todo[t]
    /\ RowFree(t, s)
    /\ t \in Serial => row[s] = "LIVE"
    /\ Visit(t, todo[t] \ {s})
    /\ IF row[s] = "LIVE"
         THEN /\ kill' = [kill EXCEPT ![t] = @ \cup {s}]
              /\ locked' = [locked EXCEPT ![t] = @ \cup {s}]
         ELSE UNCHANGED <<kill, locked>>
    /\ UNCHANGED <<row, fam, holds, new, token, cutoff, covered, ended>>

-----------------------------------------------------------------------------
Release(t) ==
    /\ holds' = [holds EXCEPT ![t] = {}]
    /\ locked' = [locked EXCEPT ![t] = {}]
    /\ todo' = [todo EXCEPT ![t] = {}]
    /\ kill' = [kill EXCEPT ![t] = {}]
    /\ new' = [new EXCEPT ![t] = None]
    /\ token' = [token EXCEPT ![t] = None]
    /\ covered' = [covered EXCEPT ![t] = {}]
    /\ Goto(t, "done")

\* The families whose sessions t ends.
Ends(t) == CASE t \in Bulk -> {fam[s] : s \in Committed}
             [] t \in Serial -> covered[t]
             [] t \in Bearer /\ new[t] = None -> {fam[token[t]]}
             [] OTHER -> {}

Commit(t) ==
    /\ pc[t] = "commit"
    /\ row' = [s \in Session |-> CASE s \in kill[t] -> "DEAD"
                                   [] s = new[t]    -> "LIVE"
                                   [] OTHER         -> row[s]]
    /\ cutoff' = IF t \in Installation THEN cutoff \cup covered[t] ELSE cutoff
    /\ ended' = ended \cup {<<f, t>> : f \in Ends(t)}
    /\ Release(t)
    /\ UNCHANGED fam

\* Refused by a check, a trigger or serialization, chosen as deadlock victim, or
\* crashed.
Abort(t) ==
    /\ t \in Open
    /\ Release(t)
    /\ UNCHANGED <<row, fam, cutoff, ended>>

Next ==
    \/ \E t \in Bearer :
         \/ \E s \in Session : BearerStart(t, s) \/ BearerRow(t, s)
         \/ BearerUser(t) \/ BearerEnd(t)
    \/ \E t \in Refresh, s \in Session : RefreshRotate(t, s)
    \/ \E t \in Login : (\E s \in Session : LoginStart(t, s)) \/ LoginFactor(t)
    \/ \E t \in Refresh \cup Login : InsertSession(t)
    \/ \E t \in Lifecycle : LifecycleLock(t)
    \/ \E t \in Serial :
         SerialStart(t) \/ SerialLock(t) \/ \E s \in Session : RevokeRow(t, s)
    \/ \E t \in Installation : InstallationStart(t) \/ InstallationLock(t)
    \/ \E t \in Factor : FactorLock(t)
    \/ \E t \in Bearer \cup Bulk :
         Scan(t) \/ \E s \in Session : RevokeRow(t, s)
    \/ \E t \in Tx : Commit(t) \/ Abort(t)

Spec == Init /\ [][Next]_vars

-----------------------------------------------------------------------------
(* Safety *)

Ended(T) == {e[1] : e \in {e \in ended : e[2] \in T}}

\* Once a transaction that ends sessions has committed, no session of a family
\* it covered is live, whichever refresh or login was in flight.  Suspension,
\* removal, a changed or reset password, logout, quarantine and the cutoff cover
\* every family there is when they commit; a serializable command covers those
\* there were at its snapshot, and may overlook a login since, but no refresh.
EndedFamiliesStayEnded ==
    \A s \in Session : row[s] = "LIVE" => fam[s] \notin Ended(Tx \ Factor)

\* "Activation and removal revoke existing sessions" (docs/architecture/
\* 03-data-model.md): the same for enrolling or removing a second factor.
SecondFactorEndsSessions ==
    \A s \in Session : row[s] = "LIVE" => fam[s] \notin Ended(Factor)

\* Two refreshes of one token never both leave a live successor: the second one
\* waits for the family rows and finds the token spent.
OneLivePerFamily ==
    \A s, x \in Session :
        row[s] = "LIVE" /\ row[x] = "LIVE" /\ fam[s] = fam[x] => s = x
=============================================================================
