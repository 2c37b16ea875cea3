------------------------- MODULE SessionLocks_proofs -------------------------
(***************************************************************************)
(* The theorems about SessionLocks, for every number of sessions and every *)
(* set of transactions of each kind.  The inductive invariant is Fenced:   *)
(* row and table locks exclude each other, a refresh that is about to      *)
(* insert holds every row of its family, a transaction that is ending      *)
(* sessions has every live one it is to end on its list or already killed, *)
(* and a serializable command has one such row for every family it saw and *)
(* that is still live.                                                     *)
(***************************************************************************)
EXTENDS SessionLocks, TLAPS

Live(x) == row[x] = "LIVE"
Stored(x) == row[x] # "NONE"

\* FOR UPDATE excludes every other lock on the row.
LocksExclude ==
    /\ \A t, o \in Tx, k \in Lock, m \in Mode :
         t # o /\ <<k, "UPDATE">> \in holds[t] => <<k, m>> \notin holds[o]
    /\ \A t, o \in Tx : t # o => locked[t] \cap locked[o] = {}

\* Statements visit, lock and revoke stored rows, and revoke what they locked.
VisitsStored ==
    \A t \in Tx :
        /\ \A x \in todo[t] \cup locked[t] : Stored(x)
        /\ kill[t] \subseteq locked[t]
        /\ \A x \in kill[t] : Live(x)

\* An id is inserted once, by one transaction, and a family by its founder first.
IdsAreFresh ==
    /\ \A t \in Tx : new[t] # None =>
         /\ t \in Refresh \cup Login
         /\ pc[t] \in {"factor", "insert", "commit"}
         /\ ~Stored(new[t])
    /\ \A t, o \in Tx : new[t] # None /\ new[t] = new[o] => t = o
    /\ \A x \in Session : Stored(x) => Stored(fam[x])
    /\ \A f \in Session, t \in Tx : <<f, t>> \in ended => Stored(f)

\* A presented token is stored, and it and (while it is live) its whole family
\* are locked or on the list of rows to lock.
Presented(t) ==
    /\ pc[t] \notin {"start", "done"} => token[t] \in Session /\ Stored(token[t])
    /\ pc[t] \in {"family", "decide", "insert"} => <<"user", "SHARE">> \in holds[t]
    /\ pc[t] \in {"user", "family"} => token[t] \in todo[t] \cup locked[t]
    /\ pc[t] \in {"decide", "insert", "scan", "revoke", "commit"} => token[t] \in locked[t]
    /\ pc[t] = "decide" => todo[t] = {}
    /\ pc[t] \in {"user", "family", "decide"} /\ Live(token[t]) =>
         \A x \in Session : Stored(x) /\ fam[x] = fam[token[t]] => x \in todo[t] \cup locked[t]

\* A refresh about to insert still has the live session of its family, and holds
\* the rows of all of it.
Rotating(t) ==
    /\ pc[t] = "insert" => new[t] # None
    /\ new[t] # None =>
         /\ Live(token[t])
         /\ token[t] \in kill[t]
         /\ fam[new[t]] = fam[token[t]]
         /\ \A x \in Session : Stored(x) /\ fam[x] = fam[token[t]] => x \in locked[t]

\* An insert holds the user row, and from its trigger on the cutoff row.
Inserting(t) ==
    new[t] # None => /\ <<"user", "SHARE">> \in holds[t]
                     /\ pc[t] = "commit" => <<"cutoff", "SHARE">> \in holds[t]

Founding(t) == new[t] # None => fam[new[t]] = new[t]

\* A logout or a replayed refresh: the live rows of its family.
EndingFamily(t) ==
    pc[t] \in {"revoke", "commit"} /\ new[t] = None =>
        /\ \A x \in Session : Live(x) /\ fam[x] = fam[token[t]] => x \in todo[t] \cup kill[t]
        /\ pc[t] = "commit" => todo[t] = {}

\* A suspension, a password change, the installation cutoff: every live row.
EndingAll(t) ==
    /\ t \in Lifecycle /\ pc[t] \in {"scan", "revoke", "commit"} =>
         <<"user", "UPDATE">> \in holds[t]
    /\ t \in Installation /\ pc[t] \in {"scan", "revoke", "commit"} =>
         <<"cutoff", "UPDATE">> \in holds[t]
    /\ pc[t] \in {"revoke", "commit"} =>
        /\ \A x \in Session : Live(x) => x \in todo[t] \cup kill[t]
        /\ pc[t] = "commit" => todo[t] = {}

\* A serializable command: of every family of its snapshot that is live at all,
\* a row it saw.  If that is no longer the live one, the command cannot commit.
EndingSeen(t) ==
    pc[t] \in {"user", "revoke", "commit"} =>
        /\ \A f \in covered[t] : Stored(f)
        /\ \A x \in Session : Live(x) /\ fam[x] \in covered[t] =>
             \E y \in todo[t] \cup kill[t] : fam[y] = fam[x]
        /\ pc[t] = "commit" => todo[t] = {}

\* What each transaction can count on.
Position(t) ==
    /\ t \in Bearer => Presented(t) /\ EndingFamily(t)
    /\ t \in Refresh => Rotating(t)
    /\ t \in Refresh \cup Login => Inserting(t)
    /\ t \in Login => Founding(t)
    /\ t \in Lifecycle \cup Installation => EndingAll(t)
    /\ t \in Serial => EndingSeen(t)

Fenced ==
    /\ LocksExclude
    /\ VisitsStored
    /\ IdsAreFresh
    /\ \A t \in Tx : Position(t)
    /\ OneLivePerFamily
    /\ EndedFamiliesStayEnded

-----------------------------------------------------------------------------
(* Type correctness *)

\* One session is live and nothing has begun.
LEMMA TypeInit == Init => TypeOK
BY SessionBound DEF Init, TypeOK, Session, PC, None

\* A lock is a lock.
LEMMA TakeType ==
    ASSUME TypeOK, NEW t \in Tx, NEW k \in Lock, NEW m \in Mode, Take(t, k, m)
    PROVE  holds' \in [Tx -> SUBSET (Lock \X Mode)]
BY DEF Take, TypeOK

\* The steps of a transaction that presents a token.
LEMMA BearerType ==
    ASSUME TypeOK, Fenced, NEW t \in Bearer,
           \/ \E s \in Session : BearerStart(t, s) \/ BearerRow(t, s)
           \/ BearerUser(t) \/ BearerEnd(t)
    PROVE  TypeOK'
<1>0. t \in Tx
  BY DEF Tx
<1>1. ASSUME NEW s \in Session, BearerStart(t, s) PROVE TypeOK'
  <2>1. Family(fam[s]) \in SUBSET Session
    BY DEF Family, Committed
  <2> QED
    BY <1>0, <1>1, <2>1 DEF BearerStart, Goto, TypeOK, PC
<1>2. ASSUME NEW s \in Session, BearerRow(t, s) PROVE TypeOK'
  BY <1>0, <1>2 DEF BearerRow, Goto, TypeOK, PC
<1>3. CASE BearerUser(t)
  <2>1. holds' \in [Tx -> SUBSET (Lock \X Mode)]
    BY <1>0, <1>3, TakeType DEF BearerUser, Lock, Mode
  <2> QED
    BY <1>0, <1>3, <2>1 DEF BearerUser, Goto, TypeOK, PC
<1>4. CASE BearerEnd(t)
  BY <1>0, <1>4 DEF BearerEnd, Goto, TypeOK, PC
<1> QED
  BY <1>1, <1>2, <1>3, <1>4

\* The steps of a refresh and of a login up to their commit.
LEMMA InsertType ==
    ASSUME TypeOK, Fenced
    PROVE  /\ \A t \in Refresh, s \in Session : RefreshRotate(t, s) => TypeOK'
           /\ \A t \in Login : (\E s \in Session : LoginStart(t, s)) \/ LoginFactor(t) => TypeOK'
           /\ \A t \in Refresh \cup Login : InsertSession(t) => TypeOK'
<1>1. ASSUME NEW t \in Refresh, NEW s \in Session, RefreshRotate(t, s) PROVE TypeOK'
  <2>1. t \in Tx /\ t \in Bearer
    BY DEF Tx, Bearer
  <2>2. token[t] \in Session
    BY <1>1, <2>1 DEF RefreshRotate, Fenced, Position, Presented
  <2> QED
    BY <1>1, <2>1, <2>2 DEF RefreshRotate, Goto, TypeOK, PC
<1>2. ASSUME NEW t \in Login, NEW s \in Session, LoginStart(t, s) PROVE TypeOK'
  <2>1. t \in Tx
    BY DEF Tx
  <2>2. holds' \in [Tx -> SUBSET (Lock \X Mode)]
    BY <1>2, <2>1, TakeType DEF LoginStart, Lock, Mode
  <2> QED
    BY <1>2, <2>1, <2>2 DEF LoginStart, Goto, TypeOK, PC
<1>3. ASSUME NEW t \in Login, LoginFactor(t) PROVE TypeOK'
  <2>1. t \in Tx
    BY DEF Tx
  <2>2. holds' \in [Tx -> SUBSET (Lock \X Mode)]
    BY <1>3, <2>1, TakeType DEF LoginFactor, Lock, Mode
  <2> QED
    BY <1>3, <2>1, <2>2 DEF LoginFactor, Goto, TypeOK, PC
<1>4. ASSUME NEW t \in Refresh \cup Login, InsertSession(t) PROVE TypeOK'
  <2>1. t \in Tx
    BY DEF Tx, Bearer
  <2>2. holds' \in [Tx -> SUBSET (Lock \X Mode)]
    BY <1>4, <2>1, TakeType DEF InsertSession, Lock, Mode
  <2> QED
    BY <1>4, <2>1, <2>2 DEF InsertSession, Goto, TypeOK, PC
<1> QED
  BY <1>1, <1>2, <1>3, <1>4

\* The steps of a transaction that revokes.
LEMMA RevokeType ==
    ASSUME TypeOK
    PROVE  /\ \A t \in Lifecycle : LifecycleLock(t) => TypeOK'
           /\ \A t \in Installation : InstallationStart(t) \/ InstallationLock(t) => TypeOK'
           /\ \A t \in Factor : FactorLock(t) => TypeOK'
           /\ \A t \in Serial : SerialStart(t) \/ SerialLock(t) => TypeOK'
           /\ \A t \in Bearer \cup Bulk : Scan(t) => TypeOK'
           /\ \A t \in Bearer \cup Bulk \cup Serial, s \in Session : RevokeRow(t, s) => TypeOK'
<1>1. ASSUME NEW t \in Bulk, LifecycleLock(t) \/ InstallationLock(t) \/ FactorLock(t) PROVE TypeOK'
  <2>1. t \in Tx
    BY DEF Tx
  <2>2. holds' \in [Tx -> SUBSET (Lock \X Mode)]
    BY <1>1, <2>1, TakeType DEF LifecycleLock, InstallationLock, FactorLock, Lock, Mode
  <2> QED
    BY <1>1, <2>1, <2>2 DEF LifecycleLock, InstallationLock, FactorLock, Goto, TypeOK, PC
<1>2. ASSUME NEW t \in Bulk, InstallationStart(t) PROVE TypeOK'
  <2>1. Started \in SUBSET Session
    <3>1. ASSUME NEW x \in Started PROVE x \in Session
      BY DEF Started, Committed, TypeOK, Tx
    <3> QED
      BY <3>1
  <2> QED
    BY <1>2, <2>1 DEF InstallationStart, Goto, TypeOK, PC, Tx
<1>3. ASSUME NEW t \in Bearer \cup Bulk, Scan(t) PROVE TypeOK'
  BY <1>3 DEF Scan, Visit, Goto, TypeOK, PC, Tx, Committed
<1>4. ASSUME NEW t \in Bearer \cup Bulk \cup Serial, NEW s \in Session, RevokeRow(t, s)
      PROVE  TypeOK'
  BY <1>4 DEF RevokeRow, Visit, Goto, TypeOK, PC, Tx
<1>5. ASSUME NEW t \in Serial, SerialStart(t) PROVE TypeOK'
  <2>1. {s \in Committed : row[s] = "LIVE"} \in SUBSET Session
        /\ {fam[s] : s \in Committed} \in SUBSET Session
    BY DEF Committed, TypeOK
  <2> QED
    BY <1>5, <2>1 DEF SerialStart, Goto, TypeOK, PC, Tx
<1>6. ASSUME NEW t \in Serial, SerialLock(t) PROVE TypeOK'
  <2>1. t \in Tx
    BY DEF Tx
  <2>2. holds' \in [Tx -> SUBSET (Lock \X Mode)]
    BY <1>6, <2>1, TakeType DEF SerialLock, Lock, Mode
  <2> QED
    BY <1>6, <2>1, <2>2 DEF SerialLock, Visit, Goto, TypeOK, PC
<1> QED
  BY <1>1, <1>2, <1>3, <1>4, <1>5, <1>6 DEF Bulk

\* The end of a transaction.
LEMMA EndType ==
    ASSUME TypeOK, Fenced, NEW t \in Tx, Commit(t) \/ Abort(t)
    PROVE  TypeOK'
<1>1. /\ pc' \in [Tx -> PC] /\ holds' \in [Tx -> SUBSET (Lock \X Mode)]
      /\ locked' \in [Tx -> SUBSET Session] /\ todo' \in [Tx -> SUBSET Session]
      /\ kill' \in [Tx -> SUBSET Session] /\ new' \in [Tx -> Session \cup {None}]
      /\ token' \in [Tx -> Session \cup {None}] /\ covered' \in [Tx -> SUBSET Session]
      /\ fam' \in [Session -> Session]
  BY DEF Commit, Abort, Release, Goto, TypeOK, PC
<1>2. row' \in [Session -> {"NONE", "LIVE", "DEAD"}]
  BY DEF Commit, Abort, TypeOK
<1>3. cutoff' \in SUBSET Session
  BY DEF Commit, Abort, TypeOK
<1>4. ended' \in SUBSET (Session \X Tx)
  <2>1. CASE Abort(t)
    BY <2>1 DEF Abort, TypeOK
  <2>2. CASE Commit(t)
    <3>1. t \in Bearer => token[t] \in Session
      BY <2>2 DEF Commit, Fenced, Position, Presented
    <3>2. {fam[s] : s \in Committed} \in SUBSET Session
      BY DEF Committed, TypeOK
    <3>3. t \in Bearer => {fam[token[t]]} \in SUBSET Session
      BY <3>1 DEF TypeOK
    <3>4. Ends(t) \in SUBSET Session
      BY <3>2, <3>3 DEF Ends, TypeOK
    <3>5. ended' = ended \cup {<<f, t>> : f \in Ends(t)}
      BY <2>2 DEF Commit
    <3> QED
      BY <3>4, <3>5 DEF TypeOK
  <2> QED
    BY <2>1, <2>2
<1> QED
  BY <1>1, <1>2, <1>3, <1>4 DEF TypeOK

\* Every step keeps the types.
LEMMA TypeNext == TypeOK /\ Fenced /\ [Next]_vars => TypeOK'
<1> SUFFICES ASSUME TypeOK, Fenced, [Next]_vars PROVE TypeOK'
  OBVIOUS
<1>1. CASE UNCHANGED vars
  BY <1>1 DEF vars, TypeOK
<1> QED
  BY <1>1, BearerType, InsertType, RevokeType, EndType DEF Next

-----------------------------------------------------------------------------
(* Fences: what one step leaves alone *)

\* Only transaction t moves, and no stored or reserved row changes its family.
Apart(t) ==
    \A o \in Tx \ {t} :
        /\ pc'[o] = pc[o] /\ holds'[o] = holds[o] /\ locked'[o] = locked[o]
        /\ todo'[o] = todo[o] /\ kill'[o] = kill[o] /\ new'[o] = new[o] /\ token'[o] = token[o]
        /\ covered'[o] = covered[o]
FamiliesKept ==
    \A x \in Session : Stored(x) \/ (\E u \in Tx : new[u] = x) => fam'[x] = fam[x]

\* Taking a table lock that is free keeps the locks exclusive.
LEMMA TakeExcludes ==
    ASSUME TypeOK, Fenced, NEW t \in Tx, NEW k \in Lock, NEW m \in Mode, Take(t, k, m),
           locked' = locked
    PROVE  /\ LocksExclude'
           /\ <<k, m>> \in holds'[t] /\ holds[t] \subseteq holds'[t]
           /\ \A o \in Tx \ {t} : holds'[o] = holds[o]
<1>1. /\ holds'[t] = holds[t] \cup {<<k, m>>}
      /\ \A o \in Tx \ {t} : holds'[o] = holds[o]
  BY DEF Take, TypeOK
<1>2. ASSUME NEW a \in Tx, NEW o \in Tx, NEW l \in Lock, NEW n \in Mode, a # o,
             <<l, "UPDATE">> \in holds'[a]
      PROVE  <<l, n>> \notin holds'[o]
  <2>1. CASE a # t /\ o # t
    BY <1>1, <1>2, <2>1 DEF Fenced, LocksExclude
  <2>2. CASE a = t
    <3>1. CASE <<l, "UPDATE">> \in holds[t]
      BY <1>1, <1>2, <2>2, <3>1 DEF Fenced, LocksExclude
    <3>2. CASE l = k /\ m = "UPDATE"
      BY <1>1, <1>2, <2>2, <3>2 DEF Take, CanTake, Mode
    <3> QED
      BY <1>1, <1>2, <2>2, <3>1, <3>2
  <2>3. CASE o = t /\ a # t
    <3>1. <<l, "UPDATE">> \in holds[a]
      BY <1>1, <1>2, <2>3
    <3>2. l # k
      BY <2>3, <3>1 DEF Take, CanTake
    <3> QED
      BY <1>1, <1>2, <2>3, <3>1, <3>2 DEF Fenced, LocksExclude
  <2> QED
    BY <2>1, <2>2, <2>3
<1> QED
  BY <1>1, <1>2 DEF Fenced, LocksExclude

\* Locking a free row keeps the row locks exclusive.
LEMMA RowExcludes ==
    ASSUME TypeOK, Fenced, NEW t \in Tx, NEW s \in Session, RowFree(t, s),
           holds' = holds, locked' = [locked EXCEPT ![t] = @ \cup {s}]
    PROVE  LocksExclude'
<1>1. locked'[t] = locked[t] \cup {s} /\ \A o \in Tx \ {t} : locked'[o] = locked[o]
  BY DEF TypeOK
<1>2. \A a, o \in Tx : a # o => locked'[a] \cap locked'[o] = {}
  BY <1>1 DEF Fenced, LocksExclude, RowFree
<1> QED
  BY <1>2 DEF Fenced, LocksExclude

\* Where a transaction stands does not change while it does not move and no row
\* is written.
LEMMA Standing ==
    ASSUME TypeOK, Fenced, NEW t \in Tx, NEW o \in Tx \ {t}, Apart(t), FamiliesKept, row' = row
    PROVE  Position(o)'
<1>1. /\ pc'[o] = pc[o] /\ holds'[o] = holds[o] /\ locked'[o] = locked[o]
      /\ todo'[o] = todo[o] /\ kill'[o] = kill[o] /\ new'[o] = new[o] /\ token'[o] = token[o]
      /\ covered'[o] = covered[o]
      /\ \A x \in Session : Stored(x) => fam'[x] = fam[x]
      /\ new[o] # None => fam'[new[o]] = fam[new[o]]
      /\ Position(o)
  BY DEF Apart, FamiliesKept, Fenced, TypeOK
<1>2. ASSUME o \in Bearer PROVE Presented(o)' /\ EndingFamily(o)'
  <2>1. /\ Presented(o) /\ EndingFamily(o)
        /\ pc[o] \notin {"start", "done"} => fam'[token[o]] = fam[token[o]]
    BY <1>1, <1>2 DEF Position, Presented
  <2>2. Presented(o)'
    BY <1>1, <2>1 DEF Presented, Stored, Live
  <2>3. EndingFamily(o)'
    BY <1>1, <2>1 DEF EndingFamily, Stored, Live
  <2> QED
    BY <2>2, <2>3
<1>3. ASSUME o \in Refresh PROVE Rotating(o)'
  <2>1. Rotating(o) /\ Presented(o)
    BY <1>1, <1>3 DEF Position, Bearer
  <2>2. new[o] # None => pc[o] \notin {"start", "done"}
    BY DEF Fenced, IdsAreFresh
  <2>3. new[o] # None => fam'[token[o]] = fam[token[o]]
    BY <1>1, <2>1, <2>2 DEF Presented
  <2> QED
    BY <1>1, <2>1, <2>3 DEF Rotating, Stored, Live
<1>4. ASSUME o \in Refresh \cup Login PROVE Inserting(o)'
  BY <1>1, <1>4 DEF Position, Inserting
<1>5. ASSUME o \in Login PROVE Founding(o)'
  BY <1>1, <1>5 DEF Position, Founding
<1>6. ASSUME o \in Lifecycle \cup Installation PROVE EndingAll(o)'
  BY <1>1, <1>6 DEF Position, EndingAll, Live
<1>7. ASSUME o \in Serial PROVE EndingSeen(o)'
  <2>1. EndingSeen(o) /\ \A y \in todo[o] \cup kill[o] : Stored(y) /\ y \in Session
    BY <1>1, <1>7 DEF Position, Fenced, VisitsStored, TypeOK
  <2> QED
    BY <1>1, <2>1 DEF EndingSeen, Stored, Live
<1> QED
  BY <1>2, <1>3, <1>4, <1>5, <1>6, <1>7 DEF Position

\* A step of t that writes no row is judged by t's own position.
LEMMA OwnStep ==
    ASSUME TypeOK, Fenced, NEW t \in Tx, Apart(t), FamiliesKept, row' = row, ended' = ended,
           LocksExclude', Position(t)',
           \A x \in todo'[t] \cup locked'[t] : Stored(x),
           kill'[t] \subseteq locked'[t],
           \A x \in kill'[t] : Live(x),
           new'[t] # None =>
             /\ t \in Refresh \cup Login
             /\ pc'[t] \in {"factor", "insert", "commit"}
             /\ ~Stored(new'[t])
             /\ \A o \in Tx \ {t} : new[o] # new'[t]
    PROVE  Fenced'
<1>1. \A o \in Tx : Position(o)'
  BY Standing
<1>2. VisitsStored'
  BY DEF Apart, Fenced, VisitsStored, Stored, Live
<1>3. \A x \in Session : Stored(x) => fam'[x] = fam[x]
  BY DEF FamiliesKept
<1>4. IdsAreFresh'
  BY <1>3 DEF Apart, Fenced, IdsAreFresh, Stored
<1>5. OneLivePerFamily'
  BY <1>3 DEF Fenced, OneLivePerFamily, Stored
<1>6. EndedFamiliesStayEnded'
  BY <1>3 DEF Fenced, EndedFamiliesStayEnded, Stored, Ended
<1> QED
  BY <1>1, <1>2, <1>4, <1>5, <1>6 DEF Fenced

-----------------------------------------------------------------------------
(* Fences: a presented token *)

\* Who presents a token has no other kind of position.
LEMMA BearerKind ==
    ASSUME NEW t \in Bearer
    PROVE  /\ t \in Tx /\ t \notin Login /\ t \notin Bulk /\ t \notin Serial
           /\ t \notin Lifecycle \cup Installation
           /\ t \in Refresh \cup Login => t \in Refresh
BY KindAssumption DEF Tx, Bulk, Bearer

\* Nothing is inserted before the decision.
LEMMA NoNewYet ==
    ASSUME TypeOK, Fenced, NEW t \in Tx, pc[t] \notin {"factor", "insert", "commit"}
    PROVE  new[t] = None
BY DEF Fenced, IdsAreFresh

\* The lock statement starts with every row of the family on its list.
LEMMA StartFenced ==
    ASSUME TypeOK, Fenced, NEW t \in Bearer, NEW s \in Session, BearerStart(t, s)
    PROVE  Fenced'
<1>1. t \in Tx /\ new[t] = None
  BY BearerKind, NoNewYet DEF BearerStart, Begin
<1>2. /\ pc'[t] = "user" /\ token'[t] = s /\ todo'[t] = Family(fam[s])
      /\ holds' = holds /\ locked' = locked /\ kill' = kill /\ new' = new
      /\ row' = row /\ fam' = fam /\ ended' = ended
  BY <1>1 DEF BearerStart, Goto, TypeOK
<1>3. Apart(t) /\ FamiliesKept /\ LocksExclude'
  BY <1>2 DEF BearerStart, Goto, Apart, FamiliesKept, TypeOK, Fenced, LocksExclude
<1>4. Stored(s) /\ s \in Family(fam[s]) /\ \A x \in Family(fam[s]) : Stored(x)
  BY DEF BearerStart, Family, Committed, Stored
<1>5. Presented(t)'
  BY <1>2, <1>4 DEF Presented, Family, Committed, Stored, Live
<1>6. Position(t)'
  BY <1>1, <1>2, <1>5, BearerKind DEF Position, EndingFamily, Rotating, Inserting
<1> QED
  BY <1>1, <1>2, <1>3, <1>4, <1>6, OwnStep DEF Fenced, VisitsStored

\* The user row is shared.
LEMMA UserFenced ==
    ASSUME TypeOK, Fenced, NEW t \in Bearer, BearerUser(t)
    PROVE  Fenced'
<1>1. t \in Tx /\ new[t] = None
  BY BearerKind, NoNewYet DEF BearerUser
<1>2. /\ pc[t] = "user" /\ pc'[t] = "family" /\ token' = token /\ todo' = todo
      /\ locked' = locked /\ kill' = kill /\ new' = new
      /\ row' = row /\ fam' = fam /\ ended' = ended
  BY <1>1 DEF BearerUser, Goto, TypeOK
<1>3. /\ LocksExclude' /\ <<"user", "SHARE">> \in holds'[t]
      /\ \A o \in Tx \ {t} : holds'[o] = holds[o]
  BY <1>1, <1>2, TakeExcludes DEF BearerUser, Lock, Mode
<1>4. Apart(t) /\ FamiliesKept
  BY <1>2, <1>3 DEF BearerUser, Goto, Apart, FamiliesKept, TypeOK
<1>5. Presented(t)
  BY <1>1 DEF Fenced, Position
<1>6. Presented(t)'
  BY <1>2, <1>3, <1>5 DEF Presented, Stored, Live
<1>7. Position(t)'
  BY <1>1, <1>2, <1>6, BearerKind DEF Position, EndingFamily, Rotating, Inserting
<1> QED
  BY <1>1, <1>2, <1>3, <1>4, <1>7, OwnStep DEF Fenced, VisitsStored

\* One more row of the family is locked.
LEMMA RowFenced ==
    ASSUME TypeOK, Fenced, NEW t \in Bearer, NEW s \in Session, BearerRow(t, s)
    PROVE  Fenced'
<1>1. t \in Tx /\ new[t] = None
  BY BearerKind, NoNewYet DEF BearerRow
<1>2. /\ pc[t] = "family" /\ pc'[t] \in {"family", "decide"}
      /\ pc'[t] = "decide" <=> todo[t] = {s}
      /\ s \in todo[t] /\ todo'[t] = todo[t] \ {s} /\ locked'[t] = locked[t] \cup {s}
      /\ token' = token /\ holds' = holds /\ kill' = kill /\ new' = new
      /\ row' = row /\ fam' = fam /\ ended' = ended
  BY <1>1 DEF BearerRow, Goto, TypeOK
<1>3. LocksExclude'
  BY <1>1, RowExcludes DEF BearerRow
<1>4. Apart(t) /\ FamiliesKept
  BY <1>2 DEF BearerRow, Goto, Apart, FamiliesKept, TypeOK
<1>5. Presented(t)
  BY <1>1 DEF Fenced, Position
<1>6. Presented(t)'
  BY <1>2, <1>5 DEF Presented, Stored, Live
<1>7. Position(t)'
  BY <1>1, <1>2, <1>6, BearerKind DEF Position, EndingFamily, Rotating, Inserting
<1>8. /\ \A x \in todo'[t] \cup locked'[t] : Stored(x)
      /\ kill'[t] \subseteq locked'[t] /\ \A x \in kill'[t] : Live(x)
  BY <1>1, <1>2 DEF Fenced, VisitsStored
<1> QED
  BY <1>1, <1>2, <1>3, <1>4, <1>7, <1>8, OwnStep

\* A rotation has locked its whole family, for the token was live all along.
LEMMA RotateFenced ==
    ASSUME TypeOK, Fenced, NEW t \in Refresh, NEW s \in Session, RefreshRotate(t, s)
    PROVE  Fenced'
<1>0. t \in Bearer
  BY DEF Bearer
<1>1. t \in Tx
  BY <1>0, BearerKind
<1>2. /\ pc[t] = "decide" /\ pc'[t] = "insert" /\ new'[t] = s
      /\ kill'[t] = {token[t]} /\ fam'[s] = fam[token[t]]
      /\ \A x \in Session \ {s} : fam'[x] = fam[x]
      /\ todo' = todo /\ locked' = locked /\ token' = token /\ holds' = holds
      /\ row' = row /\ ended' = ended
      /\ row[token[t]] = "LIVE" /\ Free(s)
  BY <1>1 DEF RefreshRotate, Goto, TypeOK
<1>3. Presented(t)
  BY <1>0, <1>1 DEF Fenced, Position
<1>4. /\ token[t] \in Session /\ Stored(token[t]) /\ token[t] \in locked[t]
      /\ <<"user", "SHARE">> \in holds[t]
      /\ \A x \in Session : Stored(x) /\ fam[x] = fam[token[t]] => x \in locked[t]
  BY <1>2, <1>3 DEF Presented, Live
<1>5. ~Stored(s) /\ s # token[t] /\ s # None
  BY <1>2, <1>4 DEF Free, Stored, Session, None
<1>6. Apart(t) /\ FamiliesKept
  BY <1>1, <1>2, <1>5 DEF RefreshRotate, Goto, Apart, FamiliesKept, TypeOK, Free
<1>7. Presented(t)' /\ EndingFamily(t)'
  BY <1>2, <1>4, <1>5 DEF Presented, EndingFamily, Stored, Live
<1>8. Rotating(t)' /\ Inserting(t)'
  BY <1>2, <1>4, <1>5 DEF Rotating, Inserting, Stored, Live
<1>9. Position(t)'
  BY <1>0, <1>7, <1>8, BearerKind DEF Position
<1>10. LocksExclude'
  BY <1>2 DEF Fenced, LocksExclude
<1>11. /\ \A x \in todo'[t] \cup locked'[t] : Stored(x)
       /\ kill'[t] \subseteq locked'[t] /\ \A x \in kill'[t] : Live(x)
  BY <1>1, <1>2, <1>4 DEF Fenced, VisitsStored, Live
<1>12. \A o \in Tx \ {t} : new[o] # s
  BY <1>2 DEF Free
<1> QED
  BY <1>1, <1>2, <1>5, <1>6, <1>9, <1>10, <1>11, <1>12, OwnStep

\* A logout, or a replay, goes on to revoke.
LEMMA BearerEndFenced ==
    ASSUME TypeOK, Fenced, NEW t \in Bearer, BearerEnd(t)
    PROVE  Fenced'
<1>1. t \in Tx /\ new[t] = None
  BY BearerKind, NoNewYet DEF BearerEnd
<1>2. /\ pc[t] = "decide" /\ pc'[t] = "scan" /\ token' = token /\ todo' = todo
      /\ holds' = holds /\ locked' = locked /\ kill' = kill /\ new' = new
      /\ row' = row /\ fam' = fam /\ ended' = ended
  BY <1>1 DEF BearerEnd, Goto, TypeOK
<1>3. Apart(t) /\ FamiliesKept /\ LocksExclude'
  BY <1>2 DEF BearerEnd, Goto, Apart, FamiliesKept, TypeOK, Fenced, LocksExclude
<1>4. Presented(t)
  BY <1>1 DEF Fenced, Position
<1>5. Presented(t)'
  BY <1>2, <1>4 DEF Presented, Stored, Live
<1>6. Position(t)'
  BY <1>1, <1>2, <1>5, BearerKind DEF Position, EndingFamily, Rotating, Inserting
<1> QED
  BY <1>1, <1>2, <1>3, <1>6, OwnStep DEF Fenced, VisitsStored

-----------------------------------------------------------------------------
(* Fences: logins and inserts *)

\* A login only founds a family.
LEMMA LoginKind ==
    ASSUME NEW t \in Login
    PROVE  /\ t \in Tx /\ t \notin Bearer /\ t \notin Refresh
           /\ t \notin Lifecycle \cup Installation \cup Serial
BY KindAssumption DEF Tx, Bulk, Bearer

\* A login starts with the user row shared and an id of its own.
LEMMA LoginFenced ==
    ASSUME TypeOK, Fenced, NEW t \in Login, NEW s \in Session, LoginStart(t, s)
    PROVE  Fenced'
<1>1. t \in Tx
  BY LoginKind
<1>2. /\ pc'[t] = "factor" /\ new'[t] = s /\ fam'[s] = s
      /\ \A x \in Session \ {s} : fam'[x] = fam[x]
      /\ todo' = todo /\ locked' = locked /\ kill' = kill /\ token' = token
      /\ row' = row /\ ended' = ended /\ Free(s)
  BY <1>1 DEF LoginStart, Goto, TypeOK
<1>3. /\ LocksExclude' /\ <<"user", "SHARE">> \in holds'[t]
      /\ \A o \in Tx \ {t} : holds'[o] = holds[o]
  BY <1>1, <1>2, TakeExcludes DEF LoginStart, Lock, Mode
<1>4. ~Stored(s) /\ \A o \in Tx : new[o] # s
  BY <1>2 DEF Free, Stored
<1>5. Apart(t) /\ FamiliesKept
  BY <1>1, <1>2, <1>3, <1>4 DEF LoginStart, Goto, Apart, FamiliesKept, TypeOK
<1>6. Position(t)'
  BY <1>2, <1>3, LoginKind DEF Position, Inserting, Founding
<1> QED
  BY <1>1, <1>2, <1>3, <1>4, <1>5, <1>6, OwnStep DEF Fenced, VisitsStored

\* It passes the second factor.
LEMMA LoginFactorFenced ==
    ASSUME TypeOK, Fenced, NEW t \in Login, LoginFactor(t)
    PROVE  Fenced'
<1>1. t \in Tx
  BY LoginKind
<1>2. /\ pc[t] = "factor" /\ pc'[t] = "insert" /\ new' = new /\ fam' = fam
      /\ todo' = todo /\ locked' = locked /\ kill' = kill /\ token' = token
      /\ row' = row /\ ended' = ended
  BY <1>1 DEF LoginFactor, Goto, TypeOK
<1>3. /\ LocksExclude' /\ holds[t] \subseteq holds'[t]
      /\ \A o \in Tx \ {t} : holds'[o] = holds[o]
  BY <1>1, <1>2, TakeExcludes DEF LoginFactor, Lock, Mode
<1>4. Apart(t) /\ FamiliesKept
  BY <1>2, <1>3 DEF LoginFactor, Goto, Apart, FamiliesKept, TypeOK
<1>5. Inserting(t) /\ Founding(t)
  BY <1>1 DEF Fenced, Position
<1>6. Position(t)'
  BY <1>2, <1>3, <1>5, LoginKind DEF Position, Inserting, Founding
<1>7. new[t] # None => ~Stored(new[t]) /\ \A o \in Tx \ {t} : new[o] # new[t]
  BY <1>1 DEF Fenced, IdsAreFresh
<1> QED
  BY <1>1, <1>2, <1>3, <1>4, <1>6, <1>7, OwnStep DEF Fenced, VisitsStored

\* The insert's trigger shares the cutoff row.
LEMMA InsertFenced ==
    ASSUME TypeOK, Fenced, NEW t \in Refresh \cup Login, InsertSession(t)
    PROVE  Fenced'
<1>1. t \in Tx /\ t \notin Lifecycle \cup Installation \cup Serial
  BY KindAssumption DEF Tx, Bulk, Bearer
<1>2. /\ pc[t] = "insert" /\ pc'[t] = "commit" /\ new' = new /\ fam' = fam
      /\ todo' = todo /\ locked' = locked /\ kill' = kill /\ token' = token
      /\ row' = row /\ ended' = ended
  BY <1>1 DEF InsertSession, Goto, TypeOK
<1>3. /\ LocksExclude' /\ <<"cutoff", "SHARE">> \in holds'[t] /\ holds[t] \subseteq holds'[t]
      /\ \A o \in Tx \ {t} : holds'[o] = holds[o]
  BY <1>1, <1>2, TakeExcludes DEF InsertSession, Lock, Mode
<1>4. Apart(t) /\ FamiliesKept
  BY <1>2, <1>3 DEF InsertSession, Goto, Apart, FamiliesKept, TypeOK
<1>5. Position(t)
  BY <1>1 DEF Fenced
<1>6. Inserting(t)'
  BY <1>2, <1>3, <1>5 DEF Position, Inserting
<1>7. ASSUME t \in Login PROVE Position(t)'
  BY <1>2, <1>5, <1>6, <1>7, LoginKind DEF Position, Founding
<1>8. ASSUME t \in Refresh PROVE Position(t)'
  <2>1. t \in Bearer /\ Presented(t) /\ Rotating(t)
    BY <1>5, <1>8 DEF Position, Bearer
  <2>2. Presented(t)' /\ Rotating(t)' /\ EndingFamily(t)'
    BY <1>2, <1>3, <2>1 DEF Presented, Rotating, EndingFamily, Stored, Live
  <2> QED
    BY <1>1, <1>6, <2>1, <2>2, BearerKind DEF Position
<1>9. new[t] # None => ~Stored(new[t]) /\ \A o \in Tx \ {t} : new[o] # new[t]
  BY <1>1 DEF Fenced, IdsAreFresh
<1> QED
  BY <1>1, <1>2, <1>3, <1>4, <1>7, <1>8, <1>9, OwnStep DEF Fenced, VisitsStored

-----------------------------------------------------------------------------
(* Fences: revoking *)

\* A bulk transaction is of one kind.
LEMMA BulkKind ==
    ASSUME NEW t \in Bulk
    PROVE  /\ t \in Tx /\ t \notin Bearer /\ t \notin Refresh \cup Login /\ t \notin Serial
           /\ t \in Lifecycle => t \notin Installation
           /\ t \in Factor => t \notin Lifecycle \cup Installation
BY KindAssumption DEF Tx, Bulk, Bearer

\* The lock a bulk transaction revokes under.
LEMMA BulkLockFenced ==
    ASSUME TypeOK, Fenced, NEW t \in Bulk,
           \/ t \in Lifecycle /\ LifecycleLock(t)
           \/ t \in Installation /\ InstallationLock(t)
           \/ t \in Factor /\ FactorLock(t)
    PROVE  Fenced'
<1>1. t \in Tx
  BY BulkKind
<1>2. /\ pc'[t] = "scan" /\ new' = new /\ fam' = fam
      /\ todo' = todo /\ locked' = locked /\ kill' = kill /\ token' = token
      /\ row' = row /\ ended' = ended
  BY <1>1 DEF LifecycleLock, InstallationLock, FactorLock, Goto, TypeOK
<1>3. /\ LocksExclude'
      /\ t \in Lifecycle => <<"user", "UPDATE">> \in holds'[t]
      /\ t \in Installation => <<"cutoff", "UPDATE">> \in holds'[t]
      /\ \A o \in Tx \ {t} : holds'[o] = holds[o]
  BY <1>1, <1>2, TakeExcludes, BulkKind
     DEF LifecycleLock, InstallationLock, FactorLock, Lock, Mode
<1>4. Apart(t) /\ FamiliesKept
  BY <1>2, <1>3 DEF LifecycleLock, InstallationLock, FactorLock, Goto, Apart, FamiliesKept, TypeOK
<1>5. Position(t)'
  BY <1>2, <1>3, BulkKind DEF Position, EndingAll
<1>6. new'[t] = None
  BY <1>1, <1>2, BulkKind DEF Fenced, IdsAreFresh
<1> QED
  BY <1>1, <1>2, <1>3, <1>4, <1>5, <1>6, OwnStep DEF Fenced, VisitsStored

\* The installation cutoff reads the clock before it waits.
LEMMA CutoffStartFenced ==
    ASSUME TypeOK, Fenced, NEW t \in Installation, InstallationStart(t)
    PROVE  Fenced'
<1>1. t \in Bulk /\ t \in Tx
  BY DEF Bulk, Tx
<1>2. /\ pc'[t] = "cutoff" /\ new' = new /\ fam' = fam /\ holds' = holds
      /\ todo' = todo /\ locked' = locked /\ kill' = kill /\ token' = token
      /\ row' = row /\ ended' = ended
  BY <1>1 DEF InstallationStart, Goto, TypeOK
<1>3. Apart(t) /\ FamiliesKept /\ LocksExclude'
  BY <1>2 DEF InstallationStart, Goto, Apart, FamiliesKept, TypeOK, Fenced, LocksExclude
<1>4. Position(t)'
  BY <1>1, <1>2, BulkKind DEF Position, EndingAll
<1>5. new'[t] = None
  BY <1>1, <1>2, BulkKind DEF Fenced, IdsAreFresh
<1> QED
  BY <1>1, <1>2, <1>3, <1>4, <1>5, OwnStep DEF Fenced, VisitsStored

\* The update starts with every live row it is to end on its list.
LEMMA ScanFenced ==
    ASSUME TypeOK, Fenced, NEW t \in Bearer \cup Bulk, Scan(t)
    PROVE  Fenced'
<1>1. t \in Tx /\ new[t] = None
  BY NoNewYet DEF Scan, Tx
<1> DEFINE T == {s \in Committed : /\ row[s] = "LIVE"
                                   /\ t \in Bearer => fam[s] = fam[token[t]]}
<1>2. /\ pc[t] = "scan" /\ pc'[t] \in {"revoke", "commit"} /\ todo'[t] = T
      /\ pc'[t] = "commit" => T = {}
      /\ new' = new /\ fam' = fam /\ holds' = holds
      /\ locked' = locked /\ kill' = kill /\ token' = token
      /\ row' = row /\ ended' = ended
  BY <1>1 DEF Scan, Visit, Goto, TypeOK
<1>3. Apart(t) /\ FamiliesKept /\ LocksExclude'
  BY <1>2 DEF Scan, Visit, Goto, Apart, FamiliesKept, TypeOK, Fenced, LocksExclude
<1>4. \A x \in T : Stored(x)
  BY DEF Committed, Stored
<1>5. /\ \A x \in Session : row[x] = "LIVE" /\ fam[x] = fam[token[t]] => x \in T
      /\ t \notin Bearer => \A x \in Session : row[x] = "LIVE" => x \in T
  BY DEF Committed
<1> HIDE DEF T
<1>6. Position(t)
  BY <1>1 DEF Fenced
<1>7. ASSUME t \in Bearer PROVE Position(t)'
  <2>1. Presented(t)' /\ EndingFamily(t)'
    BY <1>2, <1>5, <1>6, <1>7 DEF Position, Presented, EndingFamily, Stored, Live
  <2>2. t \in Refresh => Rotating(t)' /\ Inserting(t)'
    BY <1>1, <1>2 DEF Rotating, Inserting
  <2> QED
    BY <1>7, <2>1, <2>2, BearerKind DEF Position
<1>8. ASSUME t \in Bulk PROVE Position(t)'
  <2>1. t \in Lifecycle \cup Installation => EndingAll(t)'
    BY <1>2, <1>5, <1>6, <1>8, BulkKind DEF Position, EndingAll, Live
  <2> QED
    BY <1>8, <2>1, BulkKind DEF Position
<1> QED
  BY <1>1, <1>2, <1>3, <1>4, <1>7, <1>8, OwnStep DEF Fenced, VisitsStored

\* A serializable command is of no other kind.
LEMMA SerialKind ==
    ASSUME NEW t \in Serial
    PROVE  /\ t \in Tx /\ t \notin Bearer /\ t \notin Refresh \cup Login
           /\ t \notin Bulk /\ t \notin Lifecycle \cup Installation
BY KindAssumption DEF Tx, Bulk, Bearer

\* Its snapshot holds the live rows of every family there is.
LEMMA SerialStartFenced ==
    ASSUME TypeOK, Fenced, NEW t \in Serial, SerialStart(t)
    PROVE  Fenced'
<1>1. t \in Tx /\ new[t] = None
  BY SerialKind, NoNewYet DEF SerialStart, Begin
<1>2. /\ pc'[t] = "user" /\ todo'[t] = {s \in Committed : row[s] = "LIVE"}
      /\ covered'[t] = {fam[s] : s \in Committed}
      /\ holds' = holds /\ locked' = locked /\ kill' = kill /\ new' = new
      /\ row' = row /\ fam' = fam /\ ended' = ended
  BY <1>1 DEF SerialStart, Goto, TypeOK
<1>3. Apart(t) /\ FamiliesKept /\ LocksExclude'
  BY <1>2 DEF SerialStart, Goto, Apart, FamiliesKept, TypeOK, Fenced, LocksExclude
<1>4. \A x \in Session : Stored(x) => Stored(fam[x])
  BY DEF Fenced, IdsAreFresh
<1>5. /\ \A x \in todo'[t] : Stored(x)
      /\ \A f \in covered'[t] : Stored(f)
      /\ \A x \in Session : Live(x) => x \in todo'[t]
  BY <1>2, <1>4 DEF Committed, Stored, Live
<1>6. Position(t)'
  <2>1. EndingSeen(t)'
    BY <1>2, <1>5 DEF EndingSeen, Stored, Live
  <2> QED
    BY <2>1, SerialKind DEF Position
<1> QED
  BY <1>1, <1>2, <1>3, <1>5, <1>6, OwnStep DEF Fenced, VisitsStored

\* Waiting for the user row changes nothing it has seen.
LEMMA SerialLockFenced ==
    ASSUME TypeOK, Fenced, NEW t \in Serial, SerialLock(t)
    PROVE  Fenced'
<1>1. t \in Tx /\ new[t] = None
  BY SerialKind, NoNewYet DEF SerialLock
<1>2. /\ pc[t] = "user" /\ pc'[t] \in {"revoke", "commit"}
      /\ pc'[t] = "commit" => todo[t] = {}
      /\ todo'[t] = todo[t] /\ covered' = covered
      /\ locked' = locked /\ kill' = kill /\ new' = new
      /\ row' = row /\ fam' = fam /\ ended' = ended
  BY <1>1 DEF SerialLock, Visit, Goto, TypeOK
<1>3. LocksExclude' /\ \A o \in Tx \ {t} : holds'[o] = holds[o]
  BY <1>1, <1>2, TakeExcludes DEF SerialLock, Lock, Mode
<1>4. Apart(t) /\ FamiliesKept
  BY <1>2, <1>3 DEF SerialLock, Visit, Goto, Apart, FamiliesKept, TypeOK
<1>5. Position(t)'
  <2>1. EndingSeen(t)
    BY <1>1 DEF Fenced, Position
  <2>2. EndingSeen(t)'
    BY <1>2, <2>1 DEF EndingSeen, Stored, Live
  <2> QED
    BY <2>2, SerialKind DEF Position
<1> QED
  BY <1>1, <1>2, <1>3, <1>4, <1>5, OwnStep DEF Fenced, VisitsStored

\* A row that is still live when its lock is granted is killed.
LEMMA RevokeFenced ==
    ASSUME TypeOK, Fenced, NEW t \in Bearer \cup Bulk \cup Serial, NEW s \in Session, RevokeRow(t, s)
    PROVE  Fenced'
<1>1. t \in Tx /\ new[t] = None
  BY NoNewYet DEF RevokeRow, Tx
<1>2. /\ pc[t] = "revoke" /\ pc'[t] \in {"revoke", "commit"}
      /\ pc'[t] = "commit" => todo'[t] = {}
      /\ todo'[t] = todo[t] \ {s} /\ s \in todo[t]
      /\ new' = new /\ fam' = fam /\ holds' = holds /\ token' = token
      /\ row' = row /\ ended' = ended /\ covered' = covered
      /\ t \in Serial => row[s] = "LIVE"
  BY <1>1 DEF RevokeRow, Visit, Goto, TypeOK
<1>3. /\ row[s] = "LIVE" => /\ kill'[t] = kill[t] \cup {s}
                            /\ locked' = [locked EXCEPT ![t] = @ \cup {s}]
                            /\ locked'[t] = locked[t] \cup {s}
      /\ row[s] # "LIVE" => kill' = kill /\ locked' = locked
  BY <1>1 DEF RevokeRow, TypeOK
<1>4. LocksExclude'
  <2>1. CASE row[s] = "LIVE"
    BY <1>1, <1>2, <1>3, <2>1, RowExcludes DEF RevokeRow
  <2>2. CASE row[s] # "LIVE"
    BY <1>2, <1>3, <2>2 DEF Fenced, LocksExclude
  <2> QED
    BY <2>1, <2>2
<1>5. Apart(t) /\ FamiliesKept
  BY <1>1, <1>2 DEF RevokeRow, Visit, Goto, Apart, FamiliesKept, TypeOK
<1>6. /\ \A x \in todo'[t] \cup locked'[t] : Stored(x)
      /\ kill'[t] \subseteq locked'[t] /\ \A x \in kill'[t] : Live(x)
  BY <1>1, <1>2, <1>3 DEF Fenced, VisitsStored, Live
<1>7. /\ \A x \in Session : row[x] = "LIVE" /\ x \in todo[t] \cup kill[t]
                               => x \in todo'[t] \cup kill'[t]
      /\ locked[t] \subseteq locked'[t]
  BY <1>2, <1>3
<1>8. Position(t)
  BY <1>1 DEF Fenced
<1>9. ASSUME t \in Bearer PROVE Position(t)'
  <2>1. Presented(t)' /\ EndingFamily(t)'
    BY <1>1, <1>2, <1>7, <1>8, <1>9 DEF Position, Presented, EndingFamily, Stored, Live
  <2>2. t \in Refresh => Rotating(t)' /\ Inserting(t)'
    BY <1>1, <1>2 DEF Rotating, Inserting
  <2> QED
    BY <1>9, <2>1, <2>2, BearerKind DEF Position
<1>10. ASSUME t \in Bulk PROVE Position(t)'
  <2>1. t \in Lifecycle \cup Installation => EndingAll(t)'
    BY <1>2, <1>7, <1>8 DEF Position, EndingAll, Live
  <2> QED
    BY <1>10, <2>1, BulkKind DEF Position
<1>11. ASSUME t \in Serial PROVE Position(t)'
  <2>1. EndingSeen(t) /\ todo'[t] \cup kill'[t] = todo[t] \cup kill[t]
    BY <1>2, <1>3, <1>8, <1>11 DEF Position
  <2>2. EndingSeen(t)'
    BY <1>2, <2>1 DEF EndingSeen, Stored, Live
  <2> QED
    BY <1>11, <2>2, SerialKind DEF Position
<1> QED
  BY <1>1, <1>2, <1>4, <1>5, <1>6, <1>9, <1>10, <1>11, OwnStep

-----------------------------------------------------------------------------
(* Fences: the end of a transaction *)

\* A transaction that is done holds nothing and counts on nothing.
LEMMA Released ==
    ASSUME TypeOK, Fenced, NEW t \in Tx, Release(t)
    PROVE  /\ Apart(t) /\ LocksExclude' /\ Position(t)'
           /\ pc'[t] = "done" /\ new'[t] = None
           /\ todo'[t] = {} /\ locked'[t] = {} /\ kill'[t] = {}
<1>1. /\ pc'[t] = "done" /\ new'[t] = None /\ holds'[t] = {}
      /\ todo'[t] = {} /\ locked'[t] = {} /\ kill'[t] = {}
  BY DEF Release, Goto, TypeOK
<1>2. Apart(t)
  BY DEF Release, Goto, TypeOK, Apart
<1>3. LocksExclude'
  BY <1>1, <1>2 DEF Apart, Fenced, LocksExclude
<1>4. Position(t)'
  BY <1>1 DEF Position, Presented, EndingFamily, Rotating, Inserting, Founding, EndingAll, EndingSeen
<1> QED
  BY <1>1, <1>2, <1>3, <1>4

\* An abort leaves the tables as they were.
LEMMA AbortFenced ==
    ASSUME TypeOK, Fenced, NEW t \in Tx, Abort(t)
    PROVE  Fenced'
<1>1. Release(t) /\ row' = row /\ fam' = fam /\ ended' = ended
  BY DEF Abort
<1>2. FamiliesKept
  BY <1>1 DEF FamiliesKept
<1> QED
  BY <1>1, <1>2, Released, OwnStep

\* What a commit writes: the killed rows are dead, the new one is live.
Writes(t) ==
    /\ \A x \in Session : /\ Stored(x)' <=> Stored(x) \/ x = new[t]
                          /\ Live(x)' <=> (Live(x) /\ x \notin kill[t]) \/ x = new[t]
    /\ fam' = fam

\* A killed row was stored and the new one was not.
LEMMA CommitWrites ==
    ASSUME TypeOK, Fenced, NEW t \in Tx, Commit(t)
    PROVE  Writes(t)
<1>1. \A x \in kill[t] : Stored(x)
  BY DEF Fenced, VisitsStored
<1>2. new[t] # None => ~Stored(new[t])
  BY DEF Fenced, IdsAreFresh
<1>3. \A x \in Session : x = new[t] => x # None /\ x \notin kill[t]
  BY <1>1, <1>2 DEF Session, None
<1>4. \A x \in Session : row'[x] = IF x \in kill[t] THEN "DEAD"
                                   ELSE IF x = new[t] THEN "LIVE" ELSE row[x]
  BY <1>3 DEF Commit
<1> QED
  BY <1>1, <1>3, <1>4 DEF Writes, Stored, Live, Commit

\* The family of an inserted row: its own, or one whose live row is killed with it
\* and all of whose rows the refresh holds.
LEMMA InsertedFamily ==
    ASSUME TypeOK, Fenced, NEW t \in Tx, new[t] # None
    PROVE  /\ new[t] \in Session
           /\ t \in Refresh \cup Login
           /\ t \in Login => \A x \in Session : Stored(x) => fam[x] # fam[new[t]]
           /\ t \in Refresh => /\ token[t] \in Session /\ Live(token[t]) /\ token[t] \in kill[t]
                               /\ fam[token[t]] = fam[new[t]]
                               /\ \A x \in Session : Stored(x) /\ fam[x] = fam[new[t]] =>
                                    x \in locked[t] /\ (Live(x) => x = token[t])
<1>1. /\ new[t] \in Session /\ t \in Refresh \cup Login /\ ~Stored(new[t])
      /\ pc[t] \in {"factor", "insert", "commit"}
  BY DEF Fenced, IdsAreFresh, TypeOK
<1>2. ASSUME t \in Login PROVE \A x \in Session : Stored(x) => fam[x] # fam[new[t]]
  <2>1. fam[new[t]] = new[t]
    BY <1>2 DEF Fenced, Position, Founding
  <2> QED
    BY <1>1, <2>1 DEF Fenced, IdsAreFresh
<1>3. ASSUME t \in Refresh
      PROVE  /\ token[t] \in Session /\ Live(token[t]) /\ token[t] \in kill[t]
             /\ fam[token[t]] = fam[new[t]]
             /\ \A x \in Session : Stored(x) /\ fam[x] = fam[new[t]] =>
                  x \in locked[t] /\ (Live(x) => x = token[t])
  <2>1. t \in Bearer /\ Presented(t) /\ Rotating(t)
    BY <1>3 DEF Fenced, Position, Bearer
  <2>2. token[t] \in Session
    BY <1>1, <2>1 DEF Presented
  <2> QED
    BY <2>1, <2>2 DEF Rotating, Fenced, OneLivePerFamily, Live
<1> QED
  BY <1>1, <1>2, <1>3

\* The commit of one transaction does not disturb where another one stands.
LEMMA StandingCommit ==
    ASSUME TypeOK, Fenced, NEW t \in Tx, Commit(t), NEW o \in Tx \ {t}
    PROVE  Position(o)'
<1>1. /\ pc'[o] = pc[o] /\ holds'[o] = holds[o] /\ locked'[o] = locked[o]
      /\ todo'[o] = todo[o] /\ kill'[o] = kill[o] /\ new'[o] = new[o] /\ token'[o] = token[o]
      /\ covered'[o] = covered[o]
  BY Released DEF Commit, Apart
<1>2. Writes(t) /\ Position(o)
  BY CommitWrites DEF Fenced
<1>3. locked[o] \cap locked[t] = {} /\ kill[t] \subseteq locked[t]
  BY DEF Fenced, LocksExclude, VisitsStored
<1>4. ASSUME NEW x \in Session, Stored(x), new[t] # None, fam[x] = fam[new[t]], x \in locked[o]
      PROVE  FALSE
  BY <1>3, <1>4, InsertedFamily
<1>5. ASSUME o \in Bearer PROVE Presented(o)' /\ EndingFamily(o)'
  <2>1. Presented(o) /\ EndingFamily(o)
    BY <1>2, <1>5 DEF Position
  <2>2. pc[o] \notin {"start", "done"} => /\ token[o] \in Session /\ Stored(token[o])
                                          /\ token[o] # new[t]
    BY <2>1 DEF Presented, Fenced, IdsAreFresh, Session, None
  <2>3. ASSUME pc[o] \in {"user", "family", "decide"}, Live(token[o])',
               NEW x \in Session, Stored(x)', fam[x] = fam[token[o]]
        PROVE  x \in todo[o] \cup locked[o]
    <3>1. Live(token[o]) /\ token[o] \notin kill[t]
      BY <1>1, <1>2, <2>2, <2>3 DEF Writes
    <3>2. CASE Stored(x)
      BY <2>1, <2>3, <3>1, <3>2 DEF Presented
    <3>3. CASE x = new[t]
      <4>1. new[t] # None /\ fam[token[o]] = fam[new[t]]
        BY <2>3, <3>3 DEF Session, None
      <4> QED
        BY <2>2, <2>3, <3>1, <4>1, InsertedFamily
    <3> QED
      BY <1>2, <2>3, <3>2, <3>3 DEF Writes
  <2>4. Presented(o)'
    BY <1>1, <1>2, <2>1, <2>2, <2>3 DEF Presented, Writes
  <2>5. ASSUME pc[o] \in {"revoke", "commit"}, new[o] = None,
               NEW x \in Session, Live(x)', fam[x] = fam[token[o]]
        PROVE  x \in todo[o] \cup kill[o]
    <3>1. CASE Live(x)
      BY <2>1, <2>5, <3>1 DEF EndingFamily
    <3>2. CASE x = new[t]
      <4>1. new[t] # None /\ fam[token[o]] = fam[new[t]] /\ token[o] \in locked[o]
        BY <2>1, <2>5, <3>2 DEF Presented, Session, None
      <4> QED
        BY <1>4, <2>2, <2>5, <4>1
    <3> QED
      BY <1>2, <2>5, <3>1, <3>2 DEF Writes
  <2>6. EndingFamily(o)'
    BY <1>1, <1>2, <2>1, <2>5 DEF EndingFamily, Writes
  <2> QED
    BY <2>4, <2>6
<1>6. ASSUME o \in Refresh PROVE Rotating(o)'
  <2>1. Rotating(o) /\ Presented(o)
    BY <1>2, <1>6 DEF Position, Bearer
  <2>2. CASE new[o] = None
    BY <1>1, <2>1, <2>2 DEF Rotating
  <2>3. CASE new[o] # None
    <3>1. pc[o] \in {"factor", "insert", "commit"} /\ token[o] \in Session
      BY <2>1, <2>3 DEF Fenced, IdsAreFresh, Presented
    <3>2. Live(token[o]) /\ Stored(token[o]) /\ token[o] \in locked[o]
      BY <2>1, <2>3, <3>1 DEF Rotating, Stored, Live
    <3>3. Live(token[o])'
      BY <1>1, <1>2, <1>3, <3>1, <3>2 DEF Writes
    <3>4. ASSUME NEW x \in Session, Stored(x)', fam[x] = fam[token[o]] PROVE x \in locked[o]
      <4>1. CASE Stored(x)
        BY <2>1, <2>3, <3>4, <4>1 DEF Rotating
      <4>2. CASE x = new[t]
        BY <1>4, <3>1, <3>2, <3>4, <4>2 DEF Session, None
      <4> QED
        BY <1>2, <3>4, <4>1, <4>2 DEF Writes
    <3> QED
      BY <1>1, <1>2, <2>1, <2>3, <3>3, <3>4 DEF Rotating, Writes
  <2> QED
    BY <2>2, <2>3
<1>7. ASSUME o \in Refresh \cup Login PROVE Inserting(o)'
  BY <1>1, <1>2, <1>7 DEF Position, Inserting
<1>8. ASSUME o \in Login PROVE Founding(o)'
  BY <1>1, <1>2, <1>8 DEF Position, Founding, Writes
<1>9. ASSUME o \in Lifecycle \cup Installation PROVE EndingAll(o)'
  <2>1. EndingAll(o)
    BY <1>2, <1>9 DEF Position
  <2>2. ASSUME pc[o] \in {"scan", "revoke", "commit"}, new[t] # None PROVE FALSE
    <3>1. /\ <<"user", "SHARE">> \in holds[t] /\ <<"cutoff", "SHARE">> \in holds[t]
      BY <2>2, InsertedFamily DEF Commit, Fenced, Position, Inserting
    <3>2. <<"user", "UPDATE">> \in holds[o] \/ <<"cutoff", "UPDATE">> \in holds[o]
      BY <1>9, <2>1, <2>2 DEF EndingAll
    <3> QED
      BY <3>1, <3>2 DEF Fenced, LocksExclude, Lock, Mode
  <2>3. pc[o] \in {"revoke", "commit"} => \A x \in Session : Live(x)' => Live(x)
    BY <1>2, <2>2 DEF Writes, Session, None
  <2> QED
    BY <1>1, <2>1, <2>3 DEF EndingAll
<1>10. ASSUME o \in Serial PROVE EndingSeen(o)'
  <2>1. EndingSeen(o)
    BY <1>2, <1>10 DEF Position
  <2>2. ASSUME pc[o] \in {"user", "revoke", "commit"},
               NEW x \in Session, Live(x)', fam[x] \in covered[o]
        PROVE  \E y \in todo[o] \cup kill[o] : fam[y] = fam[x]
    <3>1. CASE Live(x)
      BY <2>1, <2>2, <3>1 DEF EndingSeen
    <3>2. CASE x = new[t]
      <4>1. new[t] # None /\ Stored(fam[x])
        BY <2>1, <2>2, <3>2 DEF EndingSeen, Session, None
      <4>2. CASE t \in Login
        BY <3>2, <4>1, <4>2 DEF Fenced, Position, Founding, IdsAreFresh
      <4>3. CASE t \in Refresh
        BY <2>1, <2>2, <3>2, <4>1, <4>3, InsertedFamily DEF EndingSeen
      <4> QED
        BY <4>1, <4>2, <4>3, InsertedFamily
    <3> QED
      BY <1>2, <2>2, <3>1, <3>2 DEF Writes
  <2>3. pc[o] \in {"user", "revoke", "commit"} => \A f \in covered[o] : f \in Session /\ Stored(f)'
    BY <1>2, <2>1 DEF EndingSeen, Writes, TypeOK
  <2> QED
    BY <1>1, <1>2, <2>1, <2>2, <2>3 DEF EndingSeen, Writes
<1> QED
  BY <1>5, <1>6, <1>7, <1>8, <1>9, <1>10 DEF Position

\* The families a commit ends: those of stored rows, and none keeps a live row
\* unless only a second factor was changed.
LEMMA CommitEnds ==
    ASSUME TypeOK, Fenced, NEW t \in Tx, Commit(t)
    PROVE  \A f \in Session, u \in Tx : <<f, u>> \in ended' =>
             /\ Stored(f)
             /\ \/ <<f, u>> \in ended
                \/ u \in Factor
                \/ new[t] = None /\ \A x \in Session : fam[x] = f /\ Live(x) => x \in kill[t]
<1> SUFFICES ASSUME NEW f \in Session, NEW u \in Tx, <<f, u>> \in ended', <<f, u>> \notin ended
             PROVE  /\ Stored(f)
                    /\ \/ u \in Factor
                       \/ new[t] = None /\ \A x \in Session : fam[x] = f /\ Live(x) => x \in kill[t]
  BY DEF Fenced, IdsAreFresh
<1>1. ended' = ended \cup {<<g, t>> : g \in Ends(t)}
  BY DEF Commit
<1>2. u = t /\ f \in Ends(t)
  BY <1>1
<1>3. pc[t] = "commit" /\ Position(t)
  BY DEF Commit, Fenced
<1>4. CASE t \in Bulk
  <2>1. PICK s \in Session : Stored(s) /\ f = fam[s]
    BY <1>2, <1>4, BulkKind DEF Ends, Committed, Stored
  <2>2. Stored(f) /\ new[t] = None
    BY <1>4, <2>1, BulkKind DEF Fenced, IdsAreFresh
  <2>3. t \in Lifecycle \cup Installation => \A x \in Session : Live(x) => x \in kill[t]
    BY <1>3 DEF Position, EndingAll
  <2> QED
    BY <1>2, <1>4, <2>2, <2>3 DEF Bulk
<1>5. CASE t \in Bearer /\ new[t] = None
  <2>1. f = fam[token[t]] /\ Presented(t) /\ EndingFamily(t)
    BY <1>2, <1>3, <1>5, BearerKind DEF Ends, Position
  <2>2. Stored(f)
    BY <1>3, <2>1 DEF Presented, Fenced, IdsAreFresh
  <2>3. \A x \in Session : fam[x] = f /\ Live(x) => x \in kill[t]
    BY <1>3, <1>5, <2>1 DEF EndingFamily
  <2> QED
    BY <1>5, <2>2, <2>3
<1>6. CASE t \in Serial
  <2>1. f \in covered[t] /\ EndingSeen(t) /\ new[t] = None
    BY <1>2, <1>3, <1>6, SerialKind DEF Ends, Position, Fenced, IdsAreFresh
  <2>2. ASSUME NEW x \in Session, fam[x] = f, Live(x) PROVE x \in kill[t]
    <3>1. PICK y \in kill[t] : fam[y] = fam[x]
      BY <1>3, <2>1, <2>2 DEF EndingSeen
    <3>2. y \in Session /\ Live(y)
      BY DEF Fenced, VisitsStored, TypeOK
    <3> QED
      BY <2>2, <3>1, <3>2 DEF Fenced, OneLivePerFamily, Live
  <2> QED
    BY <1>3, <2>1, <2>2 DEF EndingSeen
<1> QED
  BY <1>2, <1>4, <1>5, <1>6 DEF Ends

\* A commit keeps the fences.
LEMMA CommitFenced ==
    ASSUME TypeOK, Fenced, NEW t \in Tx, Commit(t)
    PROVE  Fenced'
<1>1. /\ Apart(t) /\ LocksExclude' /\ Position(t)' /\ new'[t] = None
      /\ todo'[t] = {} /\ locked'[t] = {} /\ kill'[t] = {}
  BY Released DEF Commit
<1>2. Writes(t)
  BY CommitWrites
<1>3. \A o \in Tx : Position(o)'
  BY <1>1, StandingCommit
<1>4. VisitsStored'
  <2>1. ASSUME NEW o \in Tx, NEW x \in kill'[o] PROVE Live(x)'
    <3>1. o # t /\ x \in kill[o] /\ x \in Session /\ Live(x)
      BY <1>1, <2>1 DEF Apart, Fenced, VisitsStored, TypeOK
    <3>2. x \notin kill[t]
      BY <3>1 DEF Fenced, VisitsStored, LocksExclude
    <3> QED
      BY <1>2, <3>1, <3>2 DEF Writes
  <2> QED
    BY <1>1, <1>2, <2>1 DEF Apart, Writes, Fenced, VisitsStored, TypeOK
<1>5. IdsAreFresh'
  <2>1. \A o \in Tx : new'[o] # None =>
          /\ o # t /\ new'[o] = new[o]
          /\ o \in Refresh \cup Login /\ pc'[o] \in {"factor", "insert", "commit"}
          /\ new[o] \in Session /\ ~Stored(new[o]) /\ new[o] # new[t]
    BY <1>1 DEF Apart, Fenced, IdsAreFresh, TypeOK
  <2>2. \A o \in Tx : new'[o] # None => ~Stored(new[o])'
    BY <1>2, <2>1 DEF Writes, Stored
  <2>3. \A o, u \in Tx : new'[o] # None /\ new'[o] = new'[u] => o = u
    BY <2>1 DEF Fenced, IdsAreFresh
  <2>4. ASSUME NEW x \in Session, Stored(x)' PROVE Stored(fam[x])'
    <3>1. fam[x] \in Session
      BY DEF TypeOK
    <3>2. CASE Stored(x)
      BY <1>2, <3>1, <3>2 DEF Writes, Fenced, IdsAreFresh, Stored
    <3>3. CASE x = new[t]
      <4>1. new[t] # None
        BY <3>3 DEF Session, None
      <4>2. CASE t \in Login
        BY <1>2, <3>1, <3>3, <4>1, <4>2 DEF Fenced, Position, Founding, Writes, Stored
      <4>3. CASE t \in Refresh
        BY <1>2, <3>1, <3>3, <4>1, <4>3, InsertedFamily
           DEF Writes, Fenced, IdsAreFresh, Stored, Live
      <4> QED
        BY <4>1, <4>2, <4>3, InsertedFamily
    <3> QED
      BY <1>2, <2>4, <3>2, <3>3 DEF Writes
  <2>5. \A f \in Session, u \in Tx : <<f, u>> \in ended' => Stored(f)'
    BY <1>2, CommitEnds DEF Writes, Stored
  <2> QED
    BY <1>2, <2>1, <2>2, <2>3, <2>4, <2>5 DEF IdsAreFresh, Writes, Stored
<1>6. OneLivePerFamily'
  <2>1. ASSUME NEW x \in Session, NEW y \in Session, Live(x)', Live(y)', fam[x] = fam[y], x # y
        PROVE  FALSE
    <3>1. ASSUME NEW z \in Session, Live(z), z \notin kill[t], new[t] # None, fam[z] = fam[new[t]]
          PROVE  FALSE
      BY <3>1, InsertedFamily DEF Stored, Live
    <3>2. CASE Live(x) /\ Live(y)
      BY <2>1, <3>2 DEF Fenced, OneLivePerFamily, Live
    <3>3. CASE x = new[t] \/ y = new[t]
      BY <1>2, <2>1, <3>1, <3>3 DEF Writes, Session, None
    <3> QED
      BY <1>2, <2>1, <3>2, <3>3 DEF Writes
  <2> QED
    BY <1>2, <2>1 DEF OneLivePerFamily, Writes, Live
<1>7. EndedFamiliesStayEnded'
  <2>1. ASSUME NEW x \in Session, Live(x)', NEW u \in Tx \ Factor, <<fam[x], u>> \in ended'
        PROVE  FALSE
    <3>1. fam[x] \in Session
      BY DEF TypeOK
    <3>2. ASSUME NEW z \in Session, Live(z), fam[z] = fam[x], <<fam[x], u>> \in ended
          PROVE  FALSE
      BY <2>1, <3>2 DEF Fenced, EndedFamiliesStayEnded, Ended, Live
    <3>3. CASE x = new[t]
      <4>1. new[t] # None /\ <<fam[x], u>> \in ended
        BY <2>1, <3>1, <3>3, CommitEnds DEF Session, None
      <4>2. CASE t \in Login
        BY <3>1, <3>3, <4>1, <4>2 DEF Fenced, Position, Founding, IdsAreFresh
      <4>3. CASE t \in Refresh
        BY <3>2, <3>3, <4>1, <4>3, InsertedFamily
      <4> QED
        BY <4>1, <4>2, <4>3, InsertedFamily
    <3>4. CASE Live(x) /\ x \notin kill[t]
      BY <2>1, <3>1, <3>2, <3>4, CommitEnds
    <3> QED
      BY <1>2, <2>1, <3>3, <3>4 DEF Writes
  <2>2. ended' \subseteq Session \X Tx
    BY EndType DEF TypeOK
  <2>3. \A f \in Ended(Tx \ Factor)' : \E u \in Tx \ Factor : <<f, u>> \in ended'
    BY <2>2 DEF Ended
  <2> QED
    BY <1>2, <2>1, <2>3 DEF EndedFamiliesStayEnded, Writes, Live
<1> QED
  BY <1>1, <1>3, <1>4, <1>5, <1>6, <1>7 DEF Fenced

-----------------------------------------------------------------------------
(* The theorems *)

\* One live session, nobody at work.
LEMMA FencedInit == Init => Fenced
<1> SUFFICES ASSUME Init PROVE Fenced
  OBVIOUS
<1>1. /\ \A t \in Tx : /\ pc[t] = "start" /\ holds[t] = {} /\ locked[t] = {} /\ todo[t] = {}
                       /\ kill[t] = {} /\ new[t] = None
      /\ \A x \in Session : fam[x] = x
      /\ ended = {}
  BY DEF Init
<1>2. \A t \in Tx : Position(t)
  BY <1>1 DEF Position, Presented, EndingFamily, Rotating, Inserting, Founding, EndingAll, EndingSeen
<1>3. LocksExclude /\ VisitsStored /\ IdsAreFresh
  BY <1>1 DEF LocksExclude, VisitsStored, IdsAreFresh
<1>4. OneLivePerFamily /\ EndedFamiliesStayEnded
  BY <1>1 DEF OneLivePerFamily, EndedFamiliesStayEnded, Ended
<1> QED
  BY <1>2, <1>3, <1>4 DEF Fenced

\* Every step keeps the fences.
LEMMA FencedNext == TypeOK /\ Fenced /\ [Next]_vars => Fenced'
<1> SUFFICES ASSUME TypeOK, Fenced, [Next]_vars PROVE Fenced'
  OBVIOUS
<1>1. CASE UNCHANGED vars
  BY <1>1 DEF vars, Fenced, LocksExclude, VisitsStored, IdsAreFresh, Position, Presented, Rotating,
     Inserting, Founding, EndingFamily, EndingAll, EndingSeen, OneLivePerFamily, EndedFamiliesStayEnded, Ended,
     Stored, Live
<1>2. CASE Next
  BY <1>2, StartFenced, UserFenced, RowFenced, RotateFenced, BearerEndFenced, LoginFenced,
     LoginFactorFenced, InsertFenced, BulkLockFenced, CutoffStartFenced, SerialStartFenced,
     SerialLockFenced, ScanFenced, RevokeFenced, CommitFenced, AbortFenced
     DEF Next, Bulk
<1> QED
  BY <1>1, <1>2

\* Every reachable state is well-typed and the fences stand.
THEOREM FencesHold == Spec => [](TypeOK /\ Fenced)
BY TypeInit, FencedInit, TypeNext, FencedNext, PTL DEF Spec

\* Every reachable state is well-typed.
THEOREM TypeCorrect == Spec => []TypeOK
BY FencesHold, PTL

\* Whatever refresh or login was in flight, a committed suspension, removal,
\* password change, logout, quarantine or installation cutoff leaves no live
\* session in the families it covered, and none comes back; of a serializable
\* command (transfer, recovery, the operator's reset) the same holds for the
\* families that existed at its snapshot.
THEOREM RevocationIsComplete == Spec => []EndedFamiliesStayEnded
<1>1. Fenced => EndedFamiliesStayEnded
  BY DEF Fenced
<1> QED
  BY <1>1, FencesHold, PTL

\* A family never has two live sessions, however many refreshes of a token race.
THEOREM OneSuccessor == Spec => []OneLivePerFamily
<1>1. Fenced => OneLivePerFamily
  BY DEF Fenced
<1> QED
  BY <1>1, FencesHold, PTL
=============================================================================
