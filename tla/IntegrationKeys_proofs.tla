----------------------- MODULE IntegrationKeys_proofs -----------------------
(***************************************************************************)
(* The theorems about IntegrationKeys, for every set of keys, credentials  *)
(* and handlers and any number of rotations.  The inductive invariant is   *)
(* Agreement: every envelope, stored, just read or about to be written, is *)
(* sealed with the key of the generation it names; stored rows are at most *)
(* one generation behind; and the environment holds the keys they need.    *)
(* It holds once the first key is on record (Recorded); the race before    *)
(* that is the violation the run integration_first_key shows.              *)
(***************************************************************************)
EXTENDS IntegrationKeys, TLAPS

\* A key and the generation an envelope names belong together.
Sealed(key, generation) ==
    /\ generation <= control.generation
    /\ generation = control.generation => key = control.active
    /\ generation + 1 = control.generation => key = control.retired

RowsAgree ==
    \A c \in Credential : row[c].stored =>
        /\ Sealed(row[c].key, row[c].generation)
        /\ control.generation <= row[c].generation + 1

\* Keys ahead of the record come with the recorded one, and only once every row
\* is resealed; during a reseal the retired key is at hand.
EnvAgrees ==
    /\ control.active # NoKey
    /\ env.active # env.previous
    /\ \/ env.active = control.active /\ (Rotating => env.previous = control.retired)
       \/ env.active # control.active /\ env.previous = control.active /\ ~Rotating

OpAgrees(h) ==
    LET o == op[h] IN
      /\ o.op = "store" => ~o.unrecorded /\ Sealed(o.key, o.generation)
      /\ o.op = "load" => Sealed(o.row.key, o.row.generation)
      /\ o.op = "begin" => /\ o.generation <= control.generation
                           /\ o.generation = control.generation =>
                                o.env = env /\ env.previous = control.active /\ ~Rotating
      /\ o.op \in {"reseal", "resealing"} => Sealed(o.key, o.generation)

Agreement == RowsAgree /\ EnvAgrees /\ \A h \in Handler : OpAgrees(h)

\* A reseal under way read a stored row one generation behind.
ResealingStored ==
    \A h \in Handler : IsOp(h, "resealing") =>
        op[h].row.stored /\ op[h].row.generation + 1 = op[h].generation

-----------------------------------------------------------------------------
(* Type correctness *)

StoreOp == [op: {"store"}, env: Env, cred: Credential, key: Key, generation: Nat,
            unrecorded: BOOLEAN]
LoadOp == [op: {"load"}, env: Env, row: Row]
BeginOp == [op: {"begin"}, env: Env, generation: Nat]
ResealOp == [op: {"reseal"}, env: Env, key: Key, generation: Nat, retired: Key \cup {NoKey}]
ResealingOp == [op: {"resealing"}, cred: Credential, key: Key, generation: Nat, row: Row]

\* The name of an operation decides what it carries.
LEMMA OpType ==
    ASSUME TypeOK, NEW h \in Handler
    PROVE  /\ op[h].op = "store" => op[h] \in StoreOp
           /\ op[h].op = "load" => op[h] \in LoadOp
           /\ op[h].op = "begin" => op[h] \in BeginOp
           /\ op[h].op = "reseal" => op[h] \in ResealOp
           /\ op[h].op = "resealing" => op[h] \in ResealingOp
BY DEF TypeOK, Op, Idle, StoreOp, LoadOp, BeginOp, ResealOp, ResealingOp

\* A key that is found is a key.
LEMMA KeyForType ==
    ASSUME TypeOK, NEW e \in Env, NEW g
    PROVE  KeyFor(e, g) \in Key \cup {NoKey}
BY DEF Env, KeyFor, Mismatch, Pending

\* Storing seals with a key.
LEMMA StoreSealType ==
    ASSUME TypeOK, NEW h \in Handler, NEW e \in Env, NEW c \in Credential, StoreSeal(h, e, c)
    PROVE  TypeOK'
<1>1. KeyFor(e, control.generation) \in Key
  BY KeyForType DEF StoreSeal
<1>2. [op |-> "store", env |-> e, cred |-> c, key |-> KeyFor(e, control.generation),
       generation |-> control.generation, unrecorded |-> control.active = NoKey] \in Op
  BY <1>1 DEF TypeOK, Control, Op
<1> QED
  BY <1>2 DEF StoreSeal, Go, TypeOK

\* A written row is a row.
LEMMA WrittenType ==
    ASSUME TypeOK, NEW c \in Credential, NEW key \in Key, NEW g \in Nat, NEW s \in Nat
    PROVE  Written(c, key, g, s) \in [Credential -> Row]
<1>1. row[c].stamp + 1 \in Nat
  BY DEF TypeOK, Row
<1>2. [stored |-> TRUE, key |-> key, generation |-> g, secret |-> s,
       stamp |-> row[c].stamp + 1] \in Row
  BY <1>1 DEF Row
<1> QED
  BY <1>2 DEF Written, TypeOK

\* Ending an operation is always possible.
LEMMA IdleType ==
    ASSUME TypeOK, NEW h \in Handler, Go(h, Idle)
    PROVE  op' \in [Handler -> Op]
BY DEF TypeOK, Go, Op

\* An installation with its first environment.
LEMMA TypeInit == Init => TypeOK
BY KeyAssumption, RecordedAssumption DEF Init, TypeOK, Control, Env, Row, Op

\* Storing, loading, rotating and reconfiguring keep the types.
LEMMA TypeNext == TypeOK /\ [Next]_vars => TypeOK'
<1> SUFFICES ASSUME TypeOK, [Next]_vars PROVE TypeOK'
  OBVIOUS
<1>0. env \in Env /\ control \in Control /\ \A c \in Credential : row[c] \in Row
  BY DEF TypeOK
<1>1. ASSUME NEW h \in Handler, NEW c \in Credential, Store(h, c) PROVE TypeOK'
  BY <1>0, <1>1, StoreSealType DEF Store
<1>2. ASSUME NEW h \in Handler, NEW c \in Credential, Load(h, c) PROVE TypeOK'
  <2>1. [op |-> "load", env |-> env, row |-> row[c]] \in Op
    BY <1>0 DEF Op
  <2> QED
    BY <1>2, <2>1 DEF Load, Go, TypeOK
<1>3. ASSUME NEW h \in Handler, NEW c \in Credential, ResealRead(h, c) PROVE TypeOK'
  <2>1. op[h] \in ResealOp
    BY <1>3, OpType DEF ResealRead, IsOp
  <2>2. [op |-> "resealing", cred |-> c, key |-> op[h].key,
         generation |-> op[h].generation, row |-> row[c]] \in Op
    BY <1>0, <2>1 DEF Op, ResealOp
  <2> QED
    BY <1>3, <2>2 DEF ResealRead, Go, TypeOK
<1>4. ASSUME NEW h \in Handler, StoreCommit(h) PROVE TypeOK'
  <2>1. op[h] \in StoreOp
    BY <1>4, OpType DEF StoreCommit, IsOp
  <2>2. /\ op[h].cred \in Credential /\ op[h].key \in Key /\ op[h].generation \in Nat
        /\ newest[op[h].cred] + 1 \in Nat
    BY <2>1 DEF StoreOp, TypeOK
  <2>3. row' \in [Credential -> Row]
    BY <1>4, <2>2, WrittenType DEF StoreCommit
  <2>4. newest' \in [Credential -> Nat]
    BY <1>4, <2>2 DEF StoreCommit, TypeOK
  <2>5. control' \in Control
    BY <1>0, <1>4, <2>2 DEF StoreCommit, Control
  <2> QED
    BY <1>4, <2>3, <2>4, <2>5, IdleType DEF StoreCommit, TypeOK
<1>5. ASSUME NEW h \in Handler, StoreAgain(h) PROVE TypeOK'
  <2>1. op[h] \in StoreOp
    BY <1>5, OpType DEF StoreAgain, IsOp
  <2> QED
    BY <1>5, <2>1, StoreSealType DEF StoreAgain, StoreOp
<1>6. ASSUME NEW h \in Handler, BeginCheck(h) PROVE TypeOK'
  <2>1. [op |-> "begin", env |-> env, generation |-> control.generation] \in Op
    BY <1>0 DEF Op, Control
  <2> QED
    BY <1>6, <2>1 DEF BeginCheck, Go, TypeOK
<1>7. ASSUME NEW h \in Handler, BeginCommit(h) PROVE TypeOK'
  <2>1. op[h] \in BeginOp
    BY <1>7, OpType DEF BeginCommit, IsOp
  <2>2. op[h].generation + 1 \in Nat /\ op[h].env \in Env
    BY <2>1 DEF BeginOp
  <2>3. control' \in Control
    BY <1>7, <2>2 DEF BeginCommit, Control, Env
  <2> QED
    BY <1>7, <2>3, IdleType DEF BeginCommit, TypeOK
<1>8. ASSUME NEW h \in Handler, ResealResolve(h) PROVE TypeOK'
  <2>1. KeyFor(env, control.generation) \in Key
    BY <1>0, <1>8, KeyForType DEF ResealResolve
  <2>2. (IF control.generation > 1 THEN KeyFor(env, control.generation - 1) ELSE NoKey)
          \in Key \cup {NoKey}
    BY <1>0, KeyForType
  <2>3. [op |-> "reseal", env |-> env, key |-> KeyFor(env, control.generation),
         generation |-> control.generation,
         retired |-> IF control.generation > 1
                       THEN KeyFor(env, control.generation - 1) ELSE NoKey] \in Op
    BY <1>0, <2>1, <2>2 DEF Op, Control
  <2> QED
    BY <1>8, <2>3 DEF ResealResolve, Go, TypeOK
<1>9. ASSUME NEW h \in Handler, ResealWrite(h) PROVE TypeOK'
  <2>1. op[h] \in ResealingOp
    BY <1>9, OpType DEF ResealWrite, IsOp
  <2>2. /\ op[h].cred \in Credential /\ op[h].key \in Key /\ op[h].generation \in Nat
        /\ op[h].row.secret \in Nat
    BY <2>1 DEF ResealingOp, Row
  <2>3. row' \in [Credential -> Row]
    BY <1>9, <2>2, WrittenType DEF ResealWrite, TypeOK
  <2> QED
    BY <1>9, <2>3, IdleType DEF ResealWrite, TypeOK
<1>10. ASSUME NEW h \in Handler, Stop(h) PROVE TypeOK'
  BY <1>10, IdleType DEF Stop, TypeOK
<1>11. ASSUME NEW c \in Credential, Disconnect(c) PROVE TypeOK'
  <2>1. [row[c] EXCEPT !.stored = FALSE] \in Row
    BY <1>0 DEF Row
  <2> QED
    BY <1>11, <2>1 DEF Disconnect, TypeOK
<1>12. CASE Retire \/ \E k \in Key : Configure(k)
  <2>1. env' \in Env
    BY <1>0, <1>12 DEF Retire, Configure, Env
  <2> QED
    BY <1>12, <2>1 DEF Retire, Configure, TypeOK
<1>13. CASE UNCHANGED vars
  BY <1>13 DEF vars, TypeOK
<1> QED
  BY <1>1, <1>2, <1>3, <1>4, <1>5, <1>6, <1>7, <1>8, <1>9, <1>10, <1>11, <1>12, <1>13 DEF Next

\* Type correctness of the whole module, recorded or not.
THEOREM TypeCorrect == Spec => []TypeOK
BY TypeInit, TypeNext, PTL DEF Spec

-----------------------------------------------------------------------------
(* Choosing keys *)

\* Whichever key a process finds for a generation, it is that generation's key,
\* however old the environment it was started with.
LEMMA KeyForSound ==
    ASSUME TypeOK, control.active # NoKey, NEW e \in Env, NEW g \in Nat
    PROVE  \/ KeyFor(e, g) = NoKey
           \/ g = control.generation /\ KeyFor(e, g) = control.active
           \/ g + 1 = control.generation /\ KeyFor(e, g) = control.retired
BY DEF TypeOK, Control, KeyFor, Mismatch, Pending

\* The key a process seals with belongs to the current generation.
LEMMA KeyForSealed ==
    ASSUME TypeOK, control.active # NoKey, NEW e \in Env,
           KeyFor(e, control.generation) # NoKey
    PROVE  Sealed(KeyFor(e, control.generation), control.generation)
<1>1. control.generation \in Nat
  BY DEF TypeOK, Control
<1>2. KeyFor(e, control.generation) = control.active
  BY <1>1, KeyForSound
<1> QED
  BY <1>1, <1>2 DEF Sealed

-----------------------------------------------------------------------------
(* The agreement is inductive *)

\* The first environment agrees with the record.
LEMMA AgreementInit == ASSUME Recorded PROVE Init => Agreement
<1> SUFFICES ASSUME Init PROVE Agreement
  OBVIOUS
<1>1. control.active = FirstKey /\ env.active = FirstKey /\ env.previous = NoKey
  BY DEF Init
<1>2. \A c \in Credential : ~row[c].stored
  BY DEF Init
<1>3. \A h \in Handler : op[h].op = "idle"
  BY DEF Init, Idle
<1> QED
  BY <1>1, <1>2, <1>3, KeyAssumption DEF Agreement, RowsAgree, EnvAgrees, OpAgrees, Rotating

\* An operation moves on and the others stay where they are.
LEMMA GoEffect ==
    ASSUME TypeOK, NEW h \in Handler, NEW state, Go(h, state)
    PROVE  op'[h] = state /\ \A x \in Handler : x # h => op'[x] = op[x]
BY DEF TypeOK, Go

\* Operations that stay where they are agree while record and keys stay.
LEMMA OthersAgree ==
    ASSUME Agreement, control' = control, env' = env, Rotating' => Rotating,
           NEW x \in Handler, op'[x] = op[x]
    PROVE  OpAgrees(x)'
BY DEF Agreement, OpAgrees, Sealed

\* The environment agrees while record and keys stay.
LEMMA EnvKept ==
    ASSUME Agreement, control' = control, env' = env, Rotating' => Rotating
    PROVE  EnvAgrees'
BY DEF Agreement, EnvAgrees

\* A step that only moves one operation needs that one to agree.
LEMMA MoveAgrees ==
    ASSUME TypeOK, Agreement, NEW h \in Handler, NEW state, Go(h, state),
           control' = control, env' = env, row' = row, OpAgrees(h)'
    PROVE  Agreement'
<1>1. Rotating' <=> Rotating
  BY DEF Rotating
<1>2. RowsAgree'
  BY DEF Agreement, RowsAgree, Sealed
<1> QED
  BY <1>1, <1>2, GoEffect, OthersAgree, EnvKept DEF Agreement

\* Writing a row at the current generation, with its key, keeps the agreement.
LEMMA WriteAgrees ==
    ASSUME TypeOK, Agreement, NEW h \in Handler, Go(h, Idle), NEW c \in Credential,
           NEW key, NEW secret, control' = control, env' = env,
           key = control.active, row' = Written(c, key, control.generation, secret)
    PROVE  Agreement'
<1>1. /\ row'[c].stored /\ row'[c].key = key /\ row'[c].generation = control.generation
      /\ \A x \in Credential : x # c => row'[x] = row[x]
  BY DEF Written, TypeOK
<1>2. control.generation \in Nat
  BY DEF TypeOK, Control
<1>3. Rotating' => Rotating
  BY <1>1, <1>2 DEF Rotating
<1>4. RowsAgree'
  BY <1>1, <1>2 DEF Agreement, RowsAgree, Sealed
<1>5. OpAgrees(h)'
  BY GoEffect DEF OpAgrees, Idle
<1> QED
  BY <1>3, <1>4, <1>5, GoEffect, OthersAgree, EnvKept DEF Agreement

\* Storing seals with the current key.
LEMMA StoreSealAgrees ==
    ASSUME TypeOK, Agreement, NEW h \in Handler, NEW e \in Env, NEW c, StoreSeal(h, e, c)
    PROVE  Agreement'
<1>1. control.active # NoKey
  BY DEF Agreement, EnvAgrees
<1> DEFINE k == KeyFor(e, control.generation)
<1>2. Sealed(k, control.generation)
  BY <1>1, KeyForSealed DEF StoreSeal
<1>3. op'[h] = [op |-> "store", env |-> e, cred |-> c, key |-> k,
                generation |-> control.generation, unrecorded |-> control.active = NoKey]
  BY GoEffect DEF StoreSeal
<1>4. control' = control /\ env' = env /\ row' = row
  BY DEF StoreSeal
<1>5. OpAgrees(h)'
  <2> HIDE DEF k
  <2>1. op'[h].op = "store" /\ op'[h].key = k /\ op'[h].generation = control.generation
    BY <1>3
  <2>2. (control.active = NoKey) = FALSE
    BY <1>1, Zenon
  <2>3. op'[h] = [op |-> "store", env |-> e, cred |-> c, key |-> k,
                  generation |-> control.generation, unrecorded |-> FALSE]
    BY <1>3, <2>2, Zenon
  <2>4. ~op'[h].unrecorded
    BY <2>3
  <2> QED
    BY <1>2, <1>4, <2>1, <2>4 DEF OpAgrees, Sealed
<1> QED
  BY <1>4, <1>5, MoveAgrees DEF StoreSeal

\* A new generation: what was current is now retired.
LEMMA BeginAgrees ==
    ASSUME TypeOK, Agreement, NEW h \in Handler, BeginCommit(h)
    PROVE  Agreement'
<1> DEFINE g == control.generation
<1>1. g \in Nat /\ op[h] \in BeginOp
  BY OpType DEF TypeOK, Control, BeginCommit, IsOp
<1>2. op[h].generation = g /\ op[h].env = env /\ env.previous = control.active /\ ~Rotating
  BY DEF BeginCommit, IsOp, Agreement, OpAgrees
<1>3. /\ control'.generation = g + 1 /\ control'.active = env.active
      /\ control'.retired = control.active
      /\ env' = env /\ row' = row
  BY <1>2 DEF BeginCommit
<1>4. /\ op'[h] = Idle /\ \A x \in Handler : x # h => op'[x] = op[x]
  BY GoEffect DEF BeginCommit
<1>5. ASSUME NEW key, NEW n \in Nat, Sealed(key, n)
      PROVE  /\ n <= control'.generation
             /\ n # control'.generation
             /\ n + 1 = control'.generation => key = control'.retired
  BY <1>1, <1>3, <1>5 DEF Sealed
<1>6. RowsAgree'
  <2> SUFFICES ASSUME NEW c \in Credential, row[c].stored
               PROVE  /\ Sealed(row[c].key, row[c].generation)'
                      /\ control'.generation <= row[c].generation + 1
    BY <1>3 DEF RowsAgree
  <2>1. row[c].generation \in Nat
    BY DEF TypeOK, Row
  <2>2. Sealed(row[c].key, row[c].generation) /\ ~(row[c].generation < g)
    BY <1>2 DEF Agreement, RowsAgree, Rotating
  <2>3. row[c].generation = g
    BY <1>1, <2>1, <2>2 DEF Sealed
  <2> QED
    BY <1>1, <1>3, <1>5, <2>1, <2>2, <2>3 DEF Sealed
<1>7. EnvAgrees'
  BY <1>2, <1>3, KeyAssumption DEF EnvAgrees, Agreement, TypeOK, Env
<1>8. ASSUME NEW x \in Handler PROVE OpAgrees(x)'
  <2>1. CASE x = h
    BY <1>4, <2>1 DEF OpAgrees, Idle
  <2>2. CASE x # h
    <3>1. op'[x] = op[x] /\ OpAgrees(x)
      BY <1>4, <2>2 DEF Agreement
    <3>2. /\ op[x].op = "store" => op[x].generation \in Nat
          /\ op[x].op = "load" => op[x].row.generation \in Nat
          /\ op[x].op = "begin" => op[x].generation \in Nat
          /\ op[x].op \in {"reseal", "resealing"} => op[x].generation \in Nat
      BY OpType DEF StoreOp, LoadOp, BeginOp, ResealOp, ResealingOp, Row
    <3> QED
      BY <1>1, <1>3, <1>5, <3>1, <3>2 DEF OpAgrees, Sealed
  <2> QED
    BY <2>1, <2>2
<1> QED
  BY <1>6, <1>7, <1>8 DEF Agreement

\* Nothing is about to begin when the keys are changed.
LEMMA ReconfigureAgrees ==
    ASSUME TypeOK, Agreement, control.active = env.active, ~Rotating,
           UNCHANGED <<control, row, op>>,
           \/ env'.active = env.active /\ env'.previous = NoKey
           \/ env'.active # env.active /\ env'.previous = env.active
    PROVE  Agreement'
<1>1. ~Rotating'
  BY DEF Rotating
<1>2. RowsAgree'
  BY DEF Agreement, RowsAgree, Sealed
<1>3. EnvAgrees'
  BY <1>1 DEF Agreement, EnvAgrees
<1>4. ASSUME NEW x \in Handler PROVE OpAgrees(x)'
  BY DEF Agreement, EnvAgrees, OpAgrees, Sealed
<1> QED
  BY <1>2, <1>3, <1>4 DEF Agreement

\* The agreement is inductive.
LEMMA AgreementNext ==
    TypeOK /\ ResealingStored /\ Agreement /\ [Next]_vars => Agreement'
<1> SUFFICES ASSUME TypeOK, ResealingStored, Agreement, [Next]_vars PROVE Agreement'
  OBVIOUS
<1>0. env \in Env /\ control.generation \in Nat /\ control.active # NoKey
  BY DEF TypeOK, Control, Agreement, EnvAgrees
<1>1. ASSUME NEW h \in Handler, NEW c \in Credential, Store(h, c) PROVE Agreement'
  BY <1>0, <1>1, StoreSealAgrees DEF Store
<1>2. ASSUME NEW h \in Handler, StoreAgain(h) PROVE Agreement'
  <2>1. op[h].env \in Env
    BY <1>2, OpType DEF StoreAgain, IsOp, StoreOp
  <2> QED
    BY <1>2, <2>1, StoreSealAgrees DEF StoreAgain
<1>3. ASSUME NEW h \in Handler, NEW c \in Credential, Load(h, c) PROVE Agreement'
  <2>1. op'[h] = [op |-> "load", env |-> env, row |-> row[c]]
    BY <1>3, GoEffect DEF Load
  <2>2. control' = control /\ env' = env /\ row' = row
    BY <1>3 DEF Load
  <2>3. Sealed(row[c].key, row[c].generation)
    BY <1>3 DEF Load, Agreement, RowsAgree
  <2>4. OpAgrees(h)'
    BY <2>1, <2>2, <2>3 DEF OpAgrees, Sealed
  <2> QED
    BY <1>3, <2>2, <2>4, MoveAgrees DEF Load
<1>4. ASSUME NEW h \in Handler, NEW c \in Credential, ResealRead(h, c) PROVE Agreement'
  <2>1. op'[h] = [op |-> "resealing", cred |-> c, key |-> op[h].key,
                  generation |-> op[h].generation, row |-> row[c]]
    BY <1>4, GoEffect DEF ResealRead
  <2>2. control' = control /\ env' = env /\ row' = row
    BY <1>4 DEF ResealRead
  <2>3. Sealed(op[h].key, op[h].generation)
    BY <1>4 DEF ResealRead, IsOp, Agreement, OpAgrees
  <2>4. OpAgrees(h)'
    BY <2>1, <2>2, <2>3 DEF OpAgrees, Sealed
  <2> QED
    BY <1>4, <2>2, <2>4, MoveAgrees DEF ResealRead
<1>5. ASSUME NEW h \in Handler, StoreCommit(h) PROVE Agreement'
  <2>1. op[h] \in StoreOp
    BY <1>5, OpType DEF StoreCommit, IsOp
  <2>2. ~op[h].unrecorded /\ Sealed(op[h].key, op[h].generation)
    BY <1>5 DEF StoreCommit, IsOp, Agreement, OpAgrees
  <2>3. op[h].generation = control.generation /\ control' = control /\ env' = env
    BY <1>5, <2>2 DEF StoreCommit, Fenced
  <2>4. op[h].key = control.active /\ op[h].cred \in Credential
    BY <2>1, <2>2, <2>3 DEF Sealed, StoreOp
  <2> QED
    BY <1>5, <2>3, <2>4, WriteAgrees DEF StoreCommit
<1>6. ASSUME NEW h \in Handler, BeginCheck(h) PROVE Agreement'
  <2>1. op'[h] = [op |-> "begin", env |-> env, generation |-> control.generation]
    BY <1>6, GoEffect DEF BeginCheck
  <2>2. control' = control /\ env' = env /\ row' = row
    BY <1>6 DEF BeginCheck
  <2>3. env.previous = control.active /\ ~Rotating /\ ~Rotating'
    BY <1>6, <2>2 DEF BeginCheck, Rotating
  <2>4. OpAgrees(h)'
    BY <1>0, <2>1, <2>2, <2>3 DEF OpAgrees
  <2> QED
    BY <1>6, <2>2, <2>4, MoveAgrees DEF BeginCheck
<1>7. ASSUME NEW h \in Handler, BeginCommit(h) PROVE Agreement'
  BY <1>7, BeginAgrees
<1>8. ASSUME NEW h \in Handler, ResealResolve(h) PROVE Agreement'
  <2> DEFINE k == KeyFor(env, control.generation)
  <2>1. Sealed(k, control.generation)
    BY <1>0, <1>8, KeyForSealed DEF ResealResolve
  <2>2. /\ op'[h].op = "reseal" /\ op'[h].key = k /\ op'[h].generation = control.generation
    BY <1>8, GoEffect DEF ResealResolve
  <2>3. control' = control /\ env' = env /\ row' = row
    BY <1>8 DEF ResealResolve
  <2>4. OpAgrees(h)'
    <3> HIDE DEF k
    <3> QED
      BY <2>1, <2>2, <2>3 DEF OpAgrees, Sealed
  <2> QED
    BY <1>8, <2>3, <2>4, MoveAgrees DEF ResealResolve
<1>9. ASSUME NEW h \in Handler, ResealWrite(h) PROVE Agreement'
  <2>1. op[h] \in ResealingOp /\ control' = control /\ env' = env
    BY <1>9, OpType DEF ResealWrite, IsOp
  <2>2. PICK c \in Credential : op[h].cred = c
    BY <2>1 DEF ResealingOp
  <2>3. CASE UnchangedSince(op[h])
    <3>1. row[c] = op[h].row /\ row[c].stored /\ row[c].generation + 1 = op[h].generation
      BY <1>9, <2>2, <2>3 DEF UnchangedSince, ResealingStored, ResealWrite
    <3>2. Sealed(op[h].key, op[h].generation) /\ control.generation <= row[c].generation + 1
      BY <1>9, <3>1 DEF ResealWrite, IsOp, Agreement, OpAgrees, RowsAgree
    <3>3. op[h].generation = control.generation
      BY <1>0, <2>1, <3>1, <3>2 DEF Sealed, ResealingOp
    <3>4. op[h].key = control.active
      BY <3>2, <3>3 DEF Sealed
    <3> QED
      BY <1>9, <2>1, <2>2, <2>3, <3>3, <3>4, WriteAgrees DEF ResealWrite
  <2>4. CASE ~UnchangedSince(op[h])
    <3>1. row' = row /\ Go(h, Idle)
      BY <1>9, <2>4 DEF ResealWrite
    <3>2. OpAgrees(h)'
      BY <3>1, GoEffect DEF OpAgrees, Idle
    <3> QED
      BY <2>1, <3>1, <3>2, MoveAgrees
  <2> QED
    BY <2>3, <2>4
<1>10. ASSUME NEW h \in Handler, Stop(h) PROVE Agreement'
  <2>1. OpAgrees(h)'
    BY <1>10, GoEffect DEF Stop, OpAgrees, Idle
  <2> QED
    BY <1>10, <2>1, MoveAgrees DEF Stop
<1>11. ASSUME NEW c \in Credential, Disconnect(c) PROVE Agreement'
  <2>1. /\ ~row'[c].stored /\ \A x \in Credential : x # c => row'[x] = row[x]
        /\ control' = control /\ env' = env /\ op' = op
    BY <1>11 DEF Disconnect, TypeOK, Row
  <2>2. Rotating' => Rotating
    BY <2>1 DEF Rotating
  <2>3. RowsAgree'
    BY <2>1 DEF Agreement, RowsAgree, Sealed
  <2> QED
    BY <2>1, <2>2, <2>3, OthersAgree, EnvKept DEF Agreement
<1>12. CASE Retire \/ \E k \in Key : Configure(k)
  <2>1. \/ env'.active = env.active /\ env'.previous = NoKey
        \/ env'.active # env.active /\ env'.previous = env.active
    BY <1>0, <1>12 DEF Retire, Configure, Env
  <2> QED
    BY <1>12, <2>1, ReconfigureAgrees DEF Retire, Configure
<1>13. CASE UNCHANGED vars
  <2>1. Rotating' => Rotating
    BY <1>13 DEF vars, Rotating
  <2>2. RowsAgree'
    BY <1>13 DEF vars, Agreement, RowsAgree, Sealed
  <2> QED
    BY <1>13, <2>1, <2>2, OthersAgree, EnvKept DEF Agreement, vars
<1> QED
  BY <1>1, <1>2, <1>3, <1>4, <1>5, <1>6, <1>7, <1>8, <1>9, <1>10, <1>11, <1>12, <1>13 DEF Next

-----------------------------------------------------------------------------
(* Resealing keeps the newest secret *)

\* How the operations and the rows move, as far as resealing cares.
LEMMA ResealingNext ==
    TypeOK /\ ResealingStored /\ [Next]_vars => ResealingStored'
<1> SUFFICES ASSUME TypeOK, ResealingStored, [Next]_vars PROVE ResealingStored'
  OBVIOUS
<1>1. ASSUME NEW h \in Handler, NEW state, Go(h, state),
             state.op = "resealing" =>
               state.row.stored /\ state.row.generation + 1 = state.generation
      PROVE  ResealingStored'
  BY <1>1, GoEffect DEF ResealingStored, IsOp
<1>2. ASSUME NEW h \in Handler, NEW e, NEW c, StoreSeal(h, e, c) PROVE ResealingStored'
  BY <1>1, <1>2 DEF StoreSeal
<1>3. ASSUME NEW h \in Handler, Go(h, Idle) PROVE ResealingStored'
  BY <1>1, <1>3 DEF Idle
<1>4. ASSUME NEW h \in Handler, NEW c \in Credential, Load(h, c) PROVE ResealingStored'
  BY <1>1, <1>4 DEF Load
<1>5. ASSUME NEW h \in Handler, NEW c \in Credential, ResealRead(h, c) PROVE ResealingStored'
  BY <1>1, <1>5 DEF ResealRead
<1>6. ASSUME NEW h \in Handler, BeginCheck(h) PROVE ResealingStored'
  BY <1>1, <1>6 DEF BeginCheck
<1>7. ASSUME NEW h \in Handler, ResealResolve(h) PROVE ResealingStored'
  BY <1>1, <1>7 DEF ResealResolve
<1>8. ASSUME op' = op PROVE ResealingStored'
  BY <1>8 DEF ResealingStored, IsOp
<1> QED
  BY <1>2, <1>3, <1>4, <1>5, <1>6, <1>7, <1>8
     DEF Next, Store, StoreAgain, StoreCommit, BeginCommit, ResealWrite, Stop, Disconnect,
         Configure, Retire, vars

\* No resealing is under way at the start.
LEMMA ResealingInit == Init => ResealingStored
BY DEF Init, ResealingStored, IsOp, Idle

\* What resealing read is stored and one generation behind.
THEOREM ResealingHolds == Spec => []ResealingStored
BY ResealingInit, ResealingNext, TypeCorrect, PTL DEF Spec

\* Resealing never puts an older secret back over one stored meanwhile, whether
\* or not the first key is on record.
THEOREM NewestSecretSurvives == Spec => []NewestSecretKept
<1>1. Init => NewestSecretKept
  BY DEF Init, NewestSecretKept
<1>2. TypeOK /\ ResealingStored /\ NewestSecretKept /\ [Next]_vars => NewestSecretKept'
  <2> SUFFICES ASSUME TypeOK, ResealingStored, NewestSecretKept, [Next]_vars
               PROVE  NewestSecretKept'
    OBVIOUS
  <2>1. ASSUME NEW h \in Handler, StoreCommit(h) PROVE NewestSecretKept'
    <3>1. op[h].cred \in Credential
      BY <2>1, OpType DEF StoreCommit, IsOp, StoreOp
    <3> QED
      BY <2>1, <3>1 DEF StoreCommit, Written, NewestSecretKept, TypeOK
  <2>2. ASSUME NEW h \in Handler, ResealWrite(h) PROVE NewestSecretKept'
    <3>1. op[h].cred \in Credential /\ op[h].row.stored
      BY <2>2, OpType DEF ResealWrite, IsOp, ResealingOp, ResealingStored
    <3> QED
      BY <2>2, <3>1 DEF ResealWrite, UnchangedSince, Written, NewestSecretKept, TypeOK
  <2>3. ASSUME NEW c \in Credential, Disconnect(c) PROVE NewestSecretKept'
    BY <2>3 DEF Disconnect, NewestSecretKept, TypeOK, Row
  <2>4. ASSUME row' = row, newest' = newest PROVE NewestSecretKept'
    BY <2>4 DEF NewestSecretKept
  <2> QED
    BY <2>1, <2>2, <2>3, <2>4
       DEF Next, Store, StoreSeal, StoreAgain, Load, ResealRead, BeginCheck, BeginCommit,
           ResealResolve, Stop, Configure, Retire, vars
<1> QED
  BY <1>1, <1>2, TypeCorrect, ResealingHolds, PTL DEF Spec

-----------------------------------------------------------------------------
(* A rotation has no window in which credentials look corrupt *)

\* Every envelope belongs to its generation, once the first key is on record.
THEOREM AgreementHolds == ASSUME Recorded PROVE Spec => []Agreement
<1>1. Init => Agreement
  BY AgreementInit
<1> QED
  BY <1>1, AgreementNext, TypeCorrect, ResealingHolds, PTL DEF Spec

\* A process started with the keys the procedure prescribes opens every stored
\* credential, through any number of rotations, for any number of credentials.
THEOREM Readable == ASSUME Recorded PROVE Spec => []AlwaysReadable
<1>1. TypeOK /\ Agreement => AlwaysReadable
  <2> SUFFICES ASSUME TypeOK, Agreement, NEW c \in Credential, row[c].stored
               PROVE  KeyFor(env, row[c].generation) = row[c].key
    BY DEF AlwaysReadable
  <2> DEFINE g == row[c].generation
  <2>1. /\ g \in Nat /\ control.generation \in Nat /\ row[c].key \in Key
        /\ env.active \in Key /\ control.active # NoKey
    BY DEF TypeOK, Row, Control, Env, Agreement, EnvAgrees
  <2>2. \/ g = control.generation /\ row[c].key = control.active
        \/ g + 1 = control.generation /\ row[c].key = control.retired
    BY <2>1 DEF Agreement, RowsAgree, Sealed
  <2>3. CASE g = control.generation
    <3>1. row[c].key = control.active
      BY <2>1, <2>2, <2>3
    <3>2. \/ env.active = control.active
          \/ env.active # control.active /\ env.previous = control.active
      BY DEF Agreement, EnvAgrees
    <3> QED
      BY <2>1, <2>3, <3>1, <3>2 DEF KeyFor, Mismatch, Pending
  <2>4. CASE g + 1 = control.generation
    <3>1. Rotating /\ row[c].key = control.retired
      BY <2>1, <2>2, <2>4 DEF Rotating
    <3>2. env.active = control.active /\ env.previous = control.retired
      BY <3>1 DEF Agreement, EnvAgrees
    <3> QED
      BY <2>1, <2>4, <3>1, <3>2 DEF KeyFor, Mismatch, Pending
  <2> QED
    BY <2>2, <2>3, <2>4
<1> QED
  BY <1>1, TypeCorrect, AgreementHolds, PTL

\* "A rotation has no window in which credentials look corrupt": a process that
\* finds a key for an envelope, with new keys or old, finds the right one.
THEOREM NoCorruptWindow == ASSUME Recorded PROVE Spec => []NeverLooksCorrupt
<1>1. TypeOK /\ Agreement => NeverLooksCorrupt
  <2> SUFFICES ASSUME TypeOK, Agreement PROVE NeverLooksCorrupt
    OBVIOUS
  <2>0. control.active # NoKey /\ env \in Env /\ control.generation \in Nat
    BY DEF Agreement, EnvAgrees, TypeOK, Control
  <2>1. ASSUME NEW e \in Env, NEW g \in Nat, NEW key, Sealed(key, g)
        PROVE  KeyFor(e, g) \in {NoKey, key}
    BY <2>0, <2>1, KeyForSound DEF Sealed
  <2>2. ASSUME NEW c \in Credential, row[c].stored
        PROVE  KeyFor(env, row[c].generation) \in {NoKey, row[c].key}
    BY <2>0, <2>1, <2>2 DEF Agreement, RowsAgree, TypeOK, Row
  <2>3. ASSUME NEW h \in Handler, IsOp(h, "load")
        PROVE  KeyFor(op[h].env, op[h].row.generation) \in {NoKey, op[h].row.key}
    <3>1. op[h].env \in Env /\ op[h].row.generation \in Nat
      BY <2>3, OpType DEF IsOp, LoadOp, Row
    <3>2. Sealed(op[h].row.key, op[h].row.generation)
      BY <2>3 DEF IsOp, Agreement, OpAgrees
    <3> QED
      BY <2>1, <3>1, <3>2
  <2> QED
    BY <2>2, <2>3 DEF NeverLooksCorrupt
<1> QED
  BY <1>1, TypeCorrect, AgreementHolds, PTL
=============================================================================
