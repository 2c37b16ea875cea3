--------------------------- MODULE IntegrationKeys --------------------------
(***************************************************************************)
(* Sealed integration credentials and the online rotation of the key they  *)
(* are sealed under: integration-credential.service.ts (store, load) and   *)
(* integration-key-rotation.ts (begin, reseal).                            *)
(*                                                                         *)
(* Every process reads its keys from its own environment.  After a restart *)
(* with new keys a request of the old process may still be running, so a   *)
(* handler carries the environment it started with.  Between choosing the  *)
(* key and writing, between reading a row and resealing it, and between    *)
(* counting rows and advancing the generation, anything may happen.        *)
(***************************************************************************)
EXTENDS Naturals

CONSTANTS
    Key,            \* encryption keys; equal fingerprints, equal keys
    NoKey,          \* not configured, not recorded
    FirstKey,       \* the key of the first environment
    Credential,     \* IntegrationCredential rows, by integration and kind
    Handler,        \* concurrent requests and operator commands
    Recorded,       \* whether the first key has been recorded already
    MaxGeneration,  \* bound on rotations
    MaxWrite        \* bound on the writes to a row

ASSUME KeyAssumption == FirstKey \in Key /\ NoKey \notin Key
ASSUME RecordedAssumption == Recorded \in BOOLEAN
ASSUME BoundAssumption == MaxGeneration \in Nat /\ MaxWrite \in Nat

VARIABLES
    control,   \* the IntegrationSecretControl row
    env,       \* INTEGRATION_ENCRYPTION_KEY and ..._PREVIOUS of new processes
    row,       \* IntegrationCredential rows
    op,        \* what each handler has read
    newest     \* the secret stored last, per credential

vars == <<control, env, row, op, newest>>

-----------------------------------------------------------------------------
Env == [active: Key, previous: Key \cup {NoKey}]
Control == [generation: Nat, active: Key \cup {NoKey}, retired: Key \cup {NoKey}]

\* key is what the envelope was sealed with, generation what it says.  stamp is
\* updatedAt; secrets are numbered in the order they were obtained.
Row == [stored: BOOLEAN, key: Key, generation: Nat, secret: Nat, stamp: Nat]

Idle == [op |-> "idle"]
Op == {Idle}
        \cup [op: {"store"}, env: Env, cred: Credential, key: Key, generation: Nat,
              unrecorded: BOOLEAN]
        \cup [op: {"load"}, env: Env, row: Row]
        \cup [op: {"begin"}, env: Env, generation: Nat]
        \cup [op: {"reseal"}, env: Env, key: Key, generation: Nat,
              retired: Key \cup {NoKey}]
        \cup [op: {"resealing"}, cred: Credential, key: Key, generation: Nat, row: Row]

\* The control row, the environments, the credentials and the handlers keep
\* their types.
TypeOK ==
    /\ control \in Control
    /\ env \in Env
    /\ row \in [Credential -> Row]
    /\ op \in [Handler -> Op]
    /\ newest \in [Credential -> Nat]

\* An installation that has sealed nothing yet, or (Recorded) one whose key is
\* on record.
Init ==
    /\ control = [generation |-> 1, active |-> IF Recorded THEN FirstKey ELSE NoKey,
                  retired |-> NoKey]
    /\ env = [active |-> FirstKey, previous |-> NoKey]
    /\ row = [c \in Credential |-> [stored |-> FALSE, key |-> FirstKey,
                                    generation |-> 1, secret |-> 0, stamp |-> 0]]
    /\ op = [h \in Handler |-> Idle]
    /\ newest = [c \in Credential |-> 0]

-----------------------------------------------------------------------------
(* Choosing keys *)

\* The new key is configured but begin has not recorded it yet.
Pending(e) == control.active # NoKey /\ control.active # e.active
                /\ e.previous = control.active
Mismatch(e) == control.active \notin {NoKey, e.active} /\ ~Pending(e)

\* Mutant: every envelope is opened with whichever key is active.
KeyForActive(e, g) == e.active

\* activeIntegrationKey(...).keyForGeneration(g); NoKey is null or an error
\* that names the wrong key.
KeyFor(e, g) ==
    CASE Mismatch(e) -> NoKey
      [] Pending(e) /\ g = control.generation -> e.previous
      [] ~Pending(e) /\ ~Mismatch(e) /\ g = control.generation -> e.active
      [] ~Pending(e) /\ ~Mismatch(e) /\ g + 1 = control.generation
           /\ e.previous = control.retired -> e.previous
      [] OTHER -> NoKey

IsOp(h, name) == op[h].op = name
Go(h, state) == op' = [op EXCEPT ![h] = state]
Rotating == \E c \in Credential : row[c].stored /\ row[c].generation < control.generation

-----------------------------------------------------------------------------
(* Storing and loading *)

\* Mutant: the fingerprint is not compared.
StoreSealAny(h, e, c) ==
    /\ Go(h, [op |-> "store", env |-> e, cred |-> c,
              key |-> KeyFor(e, control.generation),
              generation |-> control.generation, unrecorded |-> control.active = NoKey])
    /\ UNCHANGED <<control, env, row, newest>>

\* storeIntegrationCredential up to its transaction; a mismatch is refused.
StoreSeal(h, e, c) ==
    /\ KeyFor(e, control.generation) # NoKey
    /\ Go(h, [op |-> "store", env |-> e, cred |-> c,
              key |-> KeyFor(e, control.generation),
              generation |-> control.generation, unrecorded |-> control.active = NoKey])
    /\ UNCHANGED <<control, env, row, newest>>

Store(h, c) == IsOp(h, "idle") /\ StoreSeal(h, env, c)

Written(c, key, generation, secret) ==
    [row EXCEPT ![c] = [stored |-> TRUE, key |-> key, generation |-> generation,
                        secret |-> secret, stamp |-> row[c].stamp + 1]]

\* Mutant: no fence.
FencedNever(o) == TRUE

\* The no-op update of the control row; the first store has none.
Fenced(o) == o.unrecorded \/ control.generation = o.generation

\* The transaction: upsert, and the fingerprint the first time.
StoreCommit(h) ==
    /\ IsOp(h, "store")
    /\ Fenced(op[h])
    /\ LET o == op[h] IN
         /\ row[o.cred].stamp < MaxWrite
         /\ row' = Written(o.cred, o.key, o.generation, newest[o.cred] + 1)
         /\ newest' = [newest EXCEPT ![o.cred] = @ + 1]
         /\ control' = IF o.unrecorded THEN [control EXCEPT !.active = o.key] ELSE control
    /\ Go(h, Idle)
    /\ UNCHANGED env

\* A rotation began meanwhile: the secret is sealed again.
StoreAgain(h) ==
    /\ IsOp(h, "store")
    /\ ~Fenced(op[h])
    /\ StoreSeal(h, op[h].env, op[h].cred)

\* loadIntegrationCredential has read the row and is about to read the control.
Load(h, c) ==
    /\ IsOp(h, "idle")
    /\ row[c].stored
    /\ Go(h, [op |-> "load", env |-> env, row |-> row[c]])
    /\ UNCHANGED <<control, env, row, newest>>

\* The integration is disconnected.
Disconnect(c) ==
    /\ row[c].stored
    /\ row' = [row EXCEPT ![c].stored = FALSE]
    /\ UNCHANGED <<control, env, op, newest>>

-----------------------------------------------------------------------------
(* Rotating *)

\* Step 1 of the procedure: a restart with the new key and the old one.
Configure(key) ==
    /\ control.active = env.active /\ ~Rotating
    /\ key # env.active
    /\ env' = [active |-> key, previous |-> env.active]
    /\ UNCHANGED <<control, row, op, newest>>

\* Step 4: a restart without the retired key.
Retire ==
    /\ env.previous # NoKey
    /\ control.active = env.active /\ ~Rotating
    /\ env' = [env EXCEPT !.previous = NoKey]
    /\ UNCHANGED <<control, row, op, newest>>

\* beginIntegrationKeyRotation up to its update: the previous key is the
\* recorded one and no row is left from an earlier rotation ...
BeginCheck(h) ==
    /\ IsOp(h, "idle")
    /\ control.active # NoKey /\ control.active = env.previous
    /\ ~Rotating
    /\ Go(h, [op |-> "begin", env |-> env, generation |-> control.generation])
    /\ UNCHANGED <<control, env, row, newest>>

\* ... and the conditional update.
BeginCommit(h) ==
    /\ IsOp(h, "begin")
    /\ LET o == op[h] IN
         /\ control.generation = o.generation /\ control.active = o.env.previous
         /\ o.generation < MaxGeneration
         /\ control' = [generation |-> o.generation + 1, active |-> o.env.active,
                        retired |-> o.env.previous]
    /\ Go(h, Idle)
    /\ UNCHANGED <<env, row, newest>>

\* resealIntegrationCredentials: the keys are resolved, ...
ResealResolve(h) ==
    /\ IsOp(h, "idle")
    /\ KeyFor(env, control.generation) # NoKey
    /\ Go(h, [op |-> "reseal", env |-> env, key |-> KeyFor(env, control.generation),
              generation |-> control.generation,
              retired |-> IF control.generation > 1
                            THEN KeyFor(env, control.generation - 1) ELSE NoKey])
    /\ UNCHANGED <<control, env, row, newest>>

\* ... the control is read again and must be STEADY, a row is read and opened
\* with the key of its own generation, ...
ResealRead(h, c) ==
    /\ IsOp(h, "reseal")
    /\ control.active = op[h].env.active
    /\ row[c].stored
    /\ row[c].generation + 1 = op[h].generation
    /\ row[c].key = op[h].retired
    /\ Go(h, [op |-> "resealing", cred |-> c, key |-> op[h].key,
              generation |-> op[h].generation, row |-> row[c]])
    /\ UNCHANGED <<control, env, row, newest>>

\* Mutant: the row is written whatever happened to it.
UnchangedAssumed(o) == TRUE

\* where: { id, generation, updatedAt }.
UnchangedSince(o) == row[o.cred] = o.row

\* ... and written back unless it changed.
ResealWrite(h) ==
    /\ IsOp(h, "resealing")
    /\ LET o == op[h] IN
         row' = IF UnchangedSince(o)
                  THEN Written(o.cred, o.key, o.generation, o.row.secret)
                  ELSE row
    /\ Go(h, Idle)
    /\ UNCHANGED <<control, env, newest>>

\* A request or a command ends without writing, or its process dies.
Stop(h) ==
    /\ ~IsOp(h, "idle")
    /\ Go(h, Idle)
    /\ UNCHANGED <<control, env, row, newest>>

-----------------------------------------------------------------------------
Next ==
    \/ \E h \in Handler, c \in Credential : Store(h, c) \/ Load(h, c) \/ ResealRead(h, c)
    \/ \E h \in Handler :
         \/ StoreCommit(h) \/ StoreAgain(h) \/ BeginCheck(h) \/ BeginCommit(h)
         \/ ResealResolve(h) \/ ResealWrite(h) \/ Stop(h)
    \/ \E c \in Credential : Disconnect(c)
    \/ \E k \in Key : Configure(k)
    \/ Retire

Spec == Init /\ [][Next]_vars

-----------------------------------------------------------------------------
(* Safety *)

\* "A rotation has no window in which credentials look corrupt": whenever a
\* process, with new keys or old, finds a key for an envelope, stored or just
\* read, it is the key the envelope was sealed with.
NeverLooksCorrupt ==
    /\ \A c \in Credential :
         row[c].stored => KeyFor(env, row[c].generation) \in {NoKey, row[c].key}
    /\ \A h \in Handler :
         IsOp(h, "load") => KeyFor(op[h].env, op[h].row.generation) \in {NoKey, op[h].row.key}

\* A process started with the keys the procedure prescribes can open every
\* stored credential, before, during and after a rotation.
AlwaysReadable ==
    \A c \in Credential : row[c].stored => KeyFor(env, row[c].generation) = row[c].key

\* Resealing never puts an older secret back over one stored meanwhile.
NewestSecretKept ==
    \A c \in Credential : row[c].stored => row[c].secret = newest[c]
=============================================================================
